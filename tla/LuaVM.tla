--------------------------------- MODULE LuaVM ---------------------------------
(***************************************************************************)
(* The interpreter of compiled Lua functions (luaV_execute, in             *)
(* src/jni/lua/lvm.c), with the calls and returns of ldo.c and the         *)
(* upvalues of lfunc.c that it uses.  One action for each instruction.     *)
(*                                                                         *)
(* Values are <<"nil">>, <<"bool", b>>, <<"num", n>>, <<"str", s>>,        *)
(* <<"tab", n>>, <<"fn", n>> (a Lua closure) and <<"c", name>> (a C        *)
(* function).  L (lua_State) is a record:                                  *)
(*   stack   the values of all the frames; position 0 is stack[1]          *)
(*   top     the first free position                                       *)
(*   ci      the frames: [func, base, top, nresults, pc]                   *)
(*   exec    nexeccalls of each running luaV_execute                       *)
(*   upvals  the upvalues: [open, at, val]; an open one is the stack       *)
(*           position at, a closed one has the value val                   *)
(*   clos    the closures: [p, upvals]; p is the path to its Proto         *)
(*   heap    the tables, functions from keys to values; heap[1] holds the  *)
(*           globals                                                       *)
(*   trace   the arguments of every call of the C function "echo"          *)
(*   status  "run"; "tfor", returning to OP_TFORLOOP; "done"; "error";     *)
(*           "rejected", when the program has a syntax error               *)
(* Numbers are integers.  Metamethods, coercions of strings to numbers and *)
(* the comparison of strings are left out: no program here needs them.     *)
(***************************************************************************)
EXTENDS LuaCheck

CONSTANTS Programs,      \* the source programs
          TokensOf(_),   \* the tokens of each
          Globals,       \* the globals they start with
          StackSize      \* the positions of the stack

VARIABLES prog,    \* the program
          main,    \* what the compiler made of it: [f, bad], the Proto of the main function
          L

vars == <<prog, main, L>>

Compiled(fs) == [f |-> Proto(fs), bad |-> fs.bad, err |-> fs.err]
Compile(p)   == Compiled(luaY_parser(TokensOf(p)))

Nil     == <<"nil">>
Bool(b) == <<"bool", b>>
Num(n)  == <<"num", n>>
IsFalse(v)  == v \in {Nil, Bool(FALSE)}
IsNum(v)    == v[1] = "num"
IsStr(v)    == v[1] \in {"num", "str"}
Str(v)      == IF IsNum(v) THEN ToString(v[2]) ELSE v[2]
--------------------------------------------------------------------------------
(* Frames *)
ThisCI(s)   == s.ci[Len(s.ci)]
Closure(s)  == s.clos[s.stack[ThisCI(s).func + 1][2]]
RECURSIVE ProtoIn(_, _)
ProtoIn(pt, path) == IF path = <<>> THEN pt ELSE ProtoIn(pt.p[path[1]], Tail(path))
ProtoAt(path) == ProtoIn(main.f, path)
ThisProto == ProtoAt(Closure(L).p)
I    == ThisProto.code[ThisCI(L).pc + 1]
Base == ThisCI(L).base
ra   == Base + I.a
R(n)  == L.stack[Base + n + 1]
K(n)  == ThisProto.k[n + 1]
RK(x) == IF ISK(x) THEN K(x - BITRK) ELSE R(x)
A  == R(I.a)
RB == R(I.b)

Is(op) == L.status = "run" /\ I.op = op

Skip(s, n)     == [s EXCEPT !.ci[Len(s.ci)].pc = @ + n]
Put(s, at, v)  == [s EXCEPT !.stack[at + 1] = v]
PutAll(s, at, vals) ==
  [s EXCEPT !.stack = [n \in DOMAIN @ |-> IF n - at \in DOMAIN vals THEN vals[n - at] ELSE @[n]]]
SetA(v)  == L' = Skip(Put(L, ra, v), 1)
Raise    == L' = [L EXCEPT !.status = "error"]
(* A test: the jump that follows is taken or skipped. *)
Test(s, taken) ==
  Skip(s, IF taken THEN 2 + ThisProto.code[ThisCI(L).pc + 2].b ELSE 2)
--------------------------------------------------------------------------------
(* Upvalues *)
UpvalOf(n) == L.upvals[Closure(L).upvals[n + 1]]
Upvalue(n) == IF UpvalOf(n).open THEN L.stack[UpvalOf(n).at + 1] ELSE UpvalOf(n).val

OpenAt(s, level) == {u \in DOMAIN s.upvals : s.upvals[u].open /\ s.upvals[u].at = level}

(* [s, u] *)
luaF_findupval(s, level) ==
  IF OpenAt(s, level) # {} THEN [s |-> s, u |-> CHOOSE u \in OpenAt(s, level) : TRUE]
  ELSE [s |-> [s EXCEPT !.upvals = Append(@, [open |-> TRUE, at |-> level, val |-> Nil])],
        u |-> Len(s.upvals) + 1]

luaF_close(s, level) ==
  [s EXCEPT !.upvals = [u \in DOMAIN @ |->
     IF @[u].open /\ @[u].at >= level
     THEN [open |-> FALSE, at |-> 0, val |-> s.stack[@[u].at + 1]] ELSE @[u]]]
--------------------------------------------------------------------------------
(* Tables *)
Get(s, t, key) == IF key \in DOMAIN s.heap[t] THEN s.heap[t][key] ELSE Nil
Store(h, key, v) ==
  [k \in (IF v = Nil THEN DOMAIN h \ {key} ELSE DOMAIN h \cup {key}) |-> IF k = key THEN v ELSE h[k]]
Set(s, t, key, v) == [s EXCEPT !.heap[t] = Store(@, key, v)]
luaH_getn(h) == CHOOSE n \in 0..Cardinality(DOMAIN h) :
                  Num(n + 1) \notin DOMAIN h /\ \A m \in 1..n : Num(m) \in DOMAIN h
--------------------------------------------------------------------------------
(* Calls.  C functions are external: "echo" records its arguments and      *)
(* returns them; "upto" is an iterator that counts from 1.                 *)
IsLua(v) == v[1] = "fn"

CResults(name, args) ==
  CASE name = "echo" -> args
    [] name = "upto" -> LET n == IF args[2] = Nil THEN 1 ELSE args[2][2] + 1
                        IN  IF n > args[1][2] THEN <<>> ELSE <<Num(n), Num(n * 10)>>

(* luaD_precall of the Lua closure at func, with arguments up to s.top; adjust_varargs *)
PrecallLua(s, func, nresults) ==
  LET p     == ProtoAt(s.clos[s.stack[func + 1][2]].p)
      nfix  == p.numparams
      args  == SubSeq(s.stack, func + 2, s.top)
      extra == IF Len(args) > nfix THEN Len(args) - nfix ELSE 0
      dots  == p.is_vararg # {}
      needsarg == "NEEDSARG" \in p.is_vararg
      base  == IF dots THEN func + 1 + Larger(Len(args), nfix) ELSE func + 1
      Arg(n) == IF n <= Len(args) THEN args[n] ELSE Nil
      arg   == [k \in {Num(n) : n \in 1..extra} \cup {<<"str", "n">>} |->
                  IF k[1] = "num" THEN args[nfix + k[2]] ELSE Num(extra)]
      frame == [n \in 1..p.maxstack |->
                  CASE n <= nfix -> Arg(n)
                    [] n = nfix + 1 /\ needsarg -> <<"tab", Len(s.heap) + 1>>
                    [] OTHER -> Nil]
      moved == IF dots THEN PutAll(s, func + 1, [n \in 1..nfix |-> Nil]) ELSE s
  IN  [PutAll(moved, base, frame)
         EXCEPT !.top = base + p.maxstack,
                !.heap = IF needsarg THEN Append(@, arg) ELSE @,
                !.ci = Append(@, [func |-> func, base |-> base, top |-> base + p.maxstack,
                                  nresults |-> nresults, pc |-> 0])]

(* Results vals of a call go where its function was. *)
Deliver(s, func, wanted, vals) ==
  LET n == IF wanted = LUA_MULTRET THEN Len(vals) ELSE wanted
  IN  [PutAll(s, func, [i \in 1..n |-> IF i <= Len(vals) THEN vals[i] ELSE Nil]) EXCEPT !.top = func + n]

PrecallC(s, func, nresults) ==
  LET name == s.stack[func + 1][2]
      args == SubSeq(s.stack, func + 2, s.top)
      g == [s EXCEPT !.trace = IF name = "echo" THEN Append(@, args) ELSE @]
  IN  Deliver(g, func, nresults, CResults(name, args))

luaD_poscall(s, firstResult) ==
  LET ci == ThisCI(s)
      g  == Deliver(s, ci.func, ci.nresults, SubSeq(s.stack, firstResult + 1, s.top))
  IN  [g EXCEPT !.ci = SubSeq(@, 1, Len(@) - 1)]

FullTop(s) == [s EXCEPT !.top = ThisCI(s).top]
--------------------------------------------------------------------------------
(* Instructions *)
MOVE     == Is("MOVE") /\ SetA(RB)
LOADK    == Is("LOADK") /\ SetA(K(I.b))
LOADBOOL == Is("LOADBOOL") /\ L' = Skip(Put(L, ra, Bool(I.b = 1)), IF I.c = 1 THEN 2 ELSE 1)
LOADNIL  == Is("LOADNIL") /\ L' = Skip(PutAll(L, ra, [n \in 1..(I.b - I.a + 1) |-> Nil]), 1)
GETUPVAL == Is("GETUPVAL") /\ SetA(Upvalue(I.b))
SETUPVAL ==
  LET u == Closure(L).upvals[I.b + 1] IN
  /\ Is("SETUPVAL")
  /\ L' = Skip(IF L.upvals[u].open THEN Put(L, L.upvals[u].at, A) ELSE [L EXCEPT !.upvals[u].val = A], 1)
GETGLOBAL == Is("GETGLOBAL") /\ SetA(Get(L, 1, K(I.b)))
SETGLOBAL == Is("SETGLOBAL") /\ L' = Skip(Set(L, 1, K(I.b), A), 1)
GETTABLE ==
  Is("GETTABLE") /\ IF RB[1] = "tab" THEN SetA(Get(L, RB[2], RK(I.c))) ELSE Raise
SETTABLE ==
  /\ Is("SETTABLE")
  /\ IF A[1] = "tab" /\ RK(I.b) # Nil THEN L' = Skip(Set(L, A[2], RK(I.b), RK(I.c)), 1) ELSE Raise
NEWTABLE ==
  /\ Is("NEWTABLE")
  /\ L' = Skip(Put([L EXCEPT !.heap = Append(@, [k \in {} |-> Nil])], ra, <<"tab", Len(L.heap) + 1>>), 1)
SELF ==
  LET s == Put(L, ra + 1, RB)
      key == IF ISK(I.c) THEN K(I.c - BITRK) ELSE s.stack[Base + I.c + 1] IN
  /\ Is("SELF")
  /\ IF RB[1] = "tab" THEN L' = Skip(Put(s, ra, Get(s, RB[2], key)), 1) ELSE Raise

ARITH ==
  /\ L.status = "run" /\ ArithOp(I.op)
  /\ IF IsNum(RK(I.b)) /\ IsNum(RK(I.c)) THEN SetA(Num(Arith(I.op, RK(I.b)[2], RK(I.c)[2]))) ELSE Raise
UNM == Is("UNM") /\ IF IsNum(RB) THEN SetA(Num(-RB[2])) ELSE Raise
NOT == Is("NOT") /\ SetA(Bool(IsFalse(RB)))
LEN ==
  Is("LEN") /\ CASE RB[1] = "tab" -> SetA(Num(luaH_getn(L.heap[RB[2]])))
                 [] RB[1] = "str" -> SetA(Num(Len(RB[2])))
                 [] OTHER -> Raise
(* luaV_concat leaves the result in register B before it is moved. *)
CONCAT ==
  LET vals == [n \in 1..(I.c - I.b + 1) |-> R(I.b + n - 1)]
      all  == <<"str", FoldRight(LAMBDA v, s : Str(v) \o s, vals, "")>> IN
  /\ Is("CONCAT")
  /\ IF \A n \in DOMAIN vals : IsStr(vals[n]) THEN L' = Skip(Put(Put(L, Base + I.b, all), ra, all), 1)
     ELSE Raise

JMP == Is("JMP") /\ L' = Skip(L, 1 + I.b)
EQ  == Is("EQ") /\ L' = Test(L, (RK(I.b) = RK(I.c)) = (I.a = 1))
LT  == Is("LT") /\ IF IsNum(RK(I.b)) /\ IsNum(RK(I.c))
                   THEN L' = Test(L, (RK(I.b)[2] < RK(I.c)[2]) = (I.a = 1)) ELSE Raise
LE  == Is("LE") /\ IF IsNum(RK(I.b)) /\ IsNum(RK(I.c))
                   THEN L' = Test(L, (RK(I.b)[2] <= RK(I.c)[2]) = (I.a = 1)) ELSE Raise
TEST == Is("TEST") /\ L' = Test(L, IsFalse(A) # (I.c = 1))
TESTSET ==
  /\ Is("TESTSET")
  /\ L' = IF IsFalse(RB) # (I.c = 1) THEN Test(Put(L, ra, RB), TRUE) ELSE Test(L, FALSE)

(* Arguments of a call that does not name their number end at L.top. *)
WithArgs == [Skip(L, 1) EXCEPT !.top = IF I.b # 0 THEN ra + I.b ELSE @]

CALL ==
  /\ Is("CALL")
  /\ CASE IsLua(A) -> L' = [PrecallLua(WithArgs, ra, I.c - 1) EXCEPT !.exec[Len(L.exec)] = @ + 1]
       [] A[1] = "c" -> LET s == PrecallC(WithArgs, ra, I.c - 1)
                        IN  L' = IF I.c - 1 >= 0 THEN FullTop(s) ELSE s
       [] OTHER -> Raise

(* The new frame takes the place of the one that calls. *)
TailFrame(s) ==
  LET ci  == s.ci[Len(s.ci) - 1]
      new == ThisCI(s)
      g   == luaF_close(s, ci.base)
      aux == s.top - new.func
      m   == PutAll(g, ci.func, [n \in 1..aux |-> s.stack[new.func + n]])
  IN  [m EXCEPT !.top = ci.func + aux,
                !.ci = Append(SubSeq(@, 1, Len(@) - 2),
                              [ci EXCEPT !.base = ci.func + (new.base - new.func),
                                         !.top = ci.func + aux, !.pc = 0])]
TAILCALL ==
  /\ Is("TAILCALL")
  /\ CASE IsLua(A) -> \E s \in {PrecallLua(WithArgs, ra, LUA_MULTRET)} : L' = TailFrame(s)
       [] A[1] = "c" -> L' = PrecallC(WithArgs, ra, LUA_MULTRET)
       [] OTHER -> Raise

RETURN ==
  /\ Is("RETURN")
  /\ \E s \in {luaF_close([L EXCEPT !.top = IF I.b # 0 THEN ra + I.b - 1 ELSE @], Base)} :
     \E g \in {luaD_poscall(s, ra)}, n \in {L.exec[Len(L.exec)] - 1} :
     L' = CASE n > 0 -> [(IF ThisCI(L).nresults # LUA_MULTRET THEN FullTop(g) ELSE g)
                            EXCEPT !.exec[Len(L.exec)] = n]
            [] n = 0 /\ Len(L.exec) > 1 ->
                 [g EXCEPT !.exec = SubSeq(@, 1, Len(@) - 1), !.status = "tfor"]
            [] OTHER -> [g EXCEPT !.exec = <<>>, !.status = "done"]

FORPREP ==
  /\ Is("FORPREP")
  /\ IF IsNum(A) /\ IsNum(R(I.a + 1)) /\ IsNum(R(I.a + 2))
     THEN L' = Skip(Put(L, ra, Num(A[2] - R(I.a + 2)[2])), 1 + I.b) ELSE Raise
FORLOOP ==
  LET step  == R(I.a + 2)[2]
      idx   == A[2] + step
      limit == R(I.a + 1)[2] IN
  /\ Is("FORLOOP")
  /\ L' = IF (IF 0 < step THEN idx <= limit ELSE limit <= idx)
          THEN Skip(Put(Put(L, ra, Num(idx)), ra + 3, Num(idx)), 1 + I.b) ELSE Skip(L, 1)

(* The iterator is called by luaD_call: a Lua one runs in a luaV_execute of its own. *)
TFORLOOP ==
  LET cb == ra + 3
      s  == [PutAll(Skip(L, 1), cb, <<A, R(I.a + 1), R(I.a + 2)>>) EXCEPT !.top = cb + 3] IN
  /\ Is("TFORLOOP")
  /\ CASE IsLua(A) -> L' = [PrecallLua(s, cb, I.c) EXCEPT !.exec = Append(@, 1)]
       [] A[1] = "c" -> L' = [PrecallC(s, cb, I.c) EXCEPT !.status = "tfor"]
       [] OTHER -> Raise
TForResume ==
  LET at == ThisCI(L).pc
      cb == Base + ThisProto.code[at].a + 3
      v  == L.stack[cb + 1]
      s  == FullTop([L EXCEPT !.status = "run"]) IN
  /\ L.status = "tfor"
  /\ L' = IF v # Nil THEN Skip(Put(s, cb - 1, v), 1 + ThisProto.code[at + 1].b) ELSE Skip(s, 1)

SETLIST ==
  LET n == IF I.b = 0 THEN L.top - ra - 1 ELSE I.b
      c == IF I.c = 0 THEN ThisProto.code[ThisCI(L).pc + 2].b ELSE I.c
      s == IF I.b = 0 THEN FullTop(L) ELSE L
      h == FoldLeft(LAMBDA t, m : Store(t, Num((c - 1) * FieldsPerFlush + m), R(I.a + m)),
                    L.heap[A[2]], [m \in 1..n |-> m]) IN
  /\ Is("SETLIST")
  /\ L' = Skip([s EXCEPT !.heap[A[2]] = h], IF I.c = 0 THEN 2 ELSE 1)

CLOSE == Is("CLOSE") /\ L' = Skip(luaF_close(L, ra), 1)

CLOSURE ==
  LET path == Append(Closure(L).p, I.b + 1)
      nup  == ProtoAt(path).nups
      From(j) == ThisProto.code[ThisCI(L).pc + 1 + j]
      Capture(r, j) ==
        LET f == luaF_findupval(r.s, Base + From(j).b)
        IN  IF From(j).op = "GETUPVAL" THEN [r EXCEPT !.up = Append(@, Closure(L).upvals[From(j).b + 1])]
            ELSE [s |-> f.s, up |-> Append(r.up, f.u)]
      c == FoldLeft(Capture, [s |-> L, up |-> <<>>], [j \in 1..nup |-> j]) IN
  /\ Is("CLOSURE")
  /\ L' = Skip(Put([c.s EXCEPT !.clos = Append(@, [p |-> path, upvals |-> c.up])],
                   ra, <<"fn", Len(L.clos) + 1>>), 1 + nup)

VARARG ==
  LET ci == ThisCI(L)
      n  == ci.base - ci.func - ThisProto.numparams - 1
      b  == IF I.b = 0 THEN n ELSE I.b - 1
      s  == IF I.b = 0 THEN [L EXCEPT !.top = ra + n] ELSE L IN
  /\ Is("VARARG")
  /\ L' = Skip(PutAll(s, ra, [j \in 1..b |-> IF j <= n THEN L.stack[ci.base - n + j] ELSE Nil]), 1)
--------------------------------------------------------------------------------
(* A program with a syntax error is not run. *)
Rejected ==
  [stack |-> <<>>, top |-> 0, ci |-> <<>>, exec |-> <<>>, upvals |-> <<>>, clos |-> <<>>, heap |-> <<>>,
   trace |-> <<>>, status |-> "rejected"]
(* luaD_call of the main function from C *)
Start ==
  LET s == [stack |-> [n \in 1..StackSize |-> IF n = 1 THEN <<"fn", 1>> ELSE Nil], top |-> 1, ci |-> <<>>,
            exec |-> <<1>>, upvals |-> <<>>, clos |-> <<[p |-> <<>>, upvals |-> <<>>]>>,
            heap |-> <<Globals>>, trace |-> <<>>, status |-> "run"]
  IN  PrecallLua(s, 0, LUA_MULTRET)

Init ==
  /\ prog \in Programs
  /\ main = Compile(prog)
  /\ L = IF main.err THEN Rejected ELSE Start

Over == L.status \in {"done", "error", "rejected"}
Done == Over /\ UNCHANGED vars

Next ==
  \/ /\ \/ MOVE \/ LOADK \/ LOADBOOL \/ LOADNIL \/ GETUPVAL \/ SETUPVAL \/ GETGLOBAL \/ SETGLOBAL
        \/ GETTABLE \/ SETTABLE \/ NEWTABLE \/ SELF \/ ARITH \/ UNM \/ NOT \/ LEN \/ CONCAT
        \/ JMP \/ EQ \/ LT \/ LE \/ TEST \/ TESTSET \/ CALL \/ TAILCALL \/ RETURN
        \/ FORPREP \/ FORLOOP \/ TFORLOOP \/ TForResume \/ SETLIST \/ CLOSE \/ CLOSURE \/ VARARG
     /\ UNCHANGED <<prog, main>>
  \/ Done

Spec == Init /\ [][Next]_vars /\ WF_vars(Next)
--------------------------------------------------------------------------------
(* What the compiler asserts of its own work (lcode.c, lparser.c), and of  *)
(* the function it made (lparser.c:374), holds for every program that it   *)
(* accepts.                                                                *)
CodeIsSound == Len(L.ci) = 1 /\ ThisCI(L).pc = 0 => ~main.bad /\ checkAll(main.f)
================================================================================
