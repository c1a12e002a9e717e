-------------------------------- MODULE LuaCode --------------------------------
(***************************************************************************)
(* The code generator of the Lua compiler that the shim embeds             *)
(* (src/jni/lua/lcode.c): one operator for each function, from FuncState   *)
(* to FuncState.                                                           *)
(*                                                                         *)
(* A FuncState "fs" is a record:                                           *)
(*   code        the instructions, [op, a, b, c]; b is also Bx and sBx     *)
(*   k           the constants: <<"nil">>, <<"bool", b>>, <<"num", n>> or  *)
(*               <<"str", s>>                                              *)
(*   freereg     the first free register                                   *)
(*   nactvar     the number of active local variables                      *)
(*   jpc         the list of pending jumps to the next instruction         *)
(*   lasttarget  the pc of the last jump target                            *)
(*   maxstack    the registers the function asks for (maxstacksize)        *)
(*   err         whether the compiler raised a syntax error                *)
(*   bad         whether an lua_assert of the compiler failed              *)
(* and the fields the parser keeps in it (LuaParser).                      *)
(*                                                                         *)
(* An expression "e" (expdesc) is [k, info, aux, nval, t, f].  Operators   *)
(* that change both return [fs, e].  A list of jumps is threaded through   *)
(* the sBx field of the jumps themselves, as in the code.                  *)
(***************************************************************************)
EXTENDS Integers, Sequences, SequencesExt

CONSTANTS MaxIndexRK,       \* the largest constant index of an RK operand
          MaxStack,         \* the registers a function may use
          FieldsPerFlush    \* LFIELDS_PER_FLUSH

BITRK   == 256
NO_JUMP == -1
NO_REG  == 255

ISK(x)   == x >= BITRK
RKASK(x) == x + BITRK

Larger(a, b) == IF a > b THEN a ELSE b

P(fs, e) == [fs |-> fs, e |-> e]

init_exp(k, i) == [k |-> k, info |-> i, aux |-> 0, nval |-> 0, t |-> NO_JUMP, f |-> NO_JUMP]

Must(fs, cond) == IF cond THEN fs ELSE [fs EXCEPT !.bad = TRUE]
SyntaxError(fs) == [fs EXCEPT !.err = TRUE]

hasjumps(e)  == e.t # e.f
isnumeral(e) == e.k = "VKNUM" /\ e.t = NO_JUMP /\ e.f = NO_JUMP

testTMode(op) == op \in {"EQ", "LT", "LE", "TEST", "TESTSET", "TFORLOOP"}

getcode(fs, e) == fs.code[e.info + 1]
pc(fs)     == Len(fs.code)
LastPc(fs) == Len(fs.code) - 1
--------------------------------------------------------------------------------
(* Jumps *)
getjump(fs, at) ==
  LET offset == fs.code[at + 1].b IN IF offset = NO_JUMP THEN NO_JUMP ELSE at + 1 + offset

(* The last jump of a list that is not empty *)
RECURSIVE LastJump(_, _)
LastJump(fs, list) == IF getjump(fs, list) = NO_JUMP THEN list ELSE LastJump(fs, getjump(fs, list))

fixjump(fs, at, dest) ==
  [Must(fs, dest # NO_JUMP) EXCEPT !.code[at + 1].b = dest - (at + 1)]

(* The pc of the instruction that decides the jump at "at". *)
getjumpcontrol(fs, at) == IF at >= 1 /\ testTMode(fs.code[at].op) THEN at - 1 ELSE at

SetsValue(fs, node) == fs.code[getjumpcontrol(fs, node) + 1].op = "TESTSET"

RECURSIVE need_value(_, _)
need_value(fs, list) ==
  list # NO_JUMP /\ (SetsValue(fs, list) => need_value(fs, getjump(fs, list)))

(* The instruction at i, a TESTSET, sets reg or becomes a TEST. *)
PatchTest(fs, i, reg) ==
  IF reg # NO_REG /\ reg # fs.code[i].b THEN [fs EXCEPT !.code[i].a = reg]
  ELSE [fs EXCEPT !.code[i] = [op |-> "TEST", a |-> @.b, b |-> 0, c |-> @.c]]

patchtestreg(fs, node, reg) ==
  IF SetsValue(fs, node) THEN PatchTest(fs, getjumpcontrol(fs, node) + 1, reg) ELSE fs

RECURSIVE removevalues(_, _)
removevalues(fs, list) ==
  IF list = NO_JUMP THEN fs ELSE removevalues(patchtestreg(fs, list, NO_REG), getjump(fs, list))

RECURSIVE patchlistaux(_, _, _, _, _)
patchlistaux(fs, list, vtarget, reg, dtarget) ==
  LET patched == fixjump(patchtestreg(fs, list, reg), list, IF SetsValue(fs, list) THEN vtarget ELSE dtarget)
  IN  IF list = NO_JUMP THEN fs ELSE patchlistaux(patched, getjump(fs, list), vtarget, reg, dtarget)

dischargejpc(fs) == [patchlistaux(fs, fs.jpc, pc(fs), NO_REG, pc(fs)) EXCEPT !.jpc = NO_JUMP]

luaK_getlabel(fs) == [fs EXCEPT !.lasttarget = pc(fs)]

(* [fs, l]: the list l1 with l2 at its end. *)
luaK_concat(fs, l1, l2) ==
  CASE l2 = NO_JUMP -> [fs |-> fs, l |-> l1]
    [] l2 # NO_JUMP /\ l1 = NO_JUMP -> [fs |-> fs, l |-> l2]
    [] OTHER -> [fs |-> fixjump(fs, LastJump(fs, l1), l2), l |-> l1]

Pending(c) == [c.fs EXCEPT !.jpc = c.l]
luaK_patchtohere(fs, list) == Pending(luaK_concat(luaK_getlabel(fs), fs.jpc, list))

luaK_patchlist(fs, list, target) ==
  IF target = pc(fs) THEN luaK_patchtohere(fs, list)
  ELSE patchlistaux(Must(fs, target < pc(fs)), list, target, NO_REG, target)
--------------------------------------------------------------------------------
(* Instructions.  The pc of the instruction coded is LastPc of the result. *)
luaK_codeABC(fs, o, a, b, c) ==
  LET g == dischargejpc(fs)
  IN  [g EXCEPT !.code = Append(@, [op |-> o, a |-> a, b |-> b, c |-> c])]

luaK_codeABx(fs, o, a, bc) == luaK_codeABC(fs, o, a, bc, 0)

luaK_nil(fs, from, n) ==
  LET last == pc(fs)
  IN CASE last > fs.lasttarget /\ last = 0 /\ from >= fs.nactvar -> fs
       [] /\ last > fs.lasttarget /\ last # 0
          /\ fs.code[last].op = "LOADNIL"
          /\ fs.code[last].a <= from /\ from <= fs.code[last].b + 1
          -> [fs EXCEPT !.code[last].b = Larger(@, from + n - 1)]
       [] OTHER -> luaK_codeABC(fs, "LOADNIL", from, from + n - 1, 0)

(* [fs, l]: l is the new jump, with the pending jumps behind it. *)
LastWith(fs, list) == luaK_concat(fs, LastPc(fs), list)
luaK_jump(fs) ==
  LastWith(luaK_codeABC([fs EXCEPT !.jpc = NO_JUMP], "JMP", 0, NO_JUMP, 0), fs.jpc)

luaK_ret(fs, first, nret) == luaK_codeABC(fs, "RETURN", first, nret + 1, 0)

condjump(fs, op, a, b, c) == luaK_jump(luaK_codeABC(fs, op, a, b, c))

code_label(fs, a, b, jump) == luaK_codeABC(luaK_getlabel(fs), "LOADBOOL", a, b, jump)
--------------------------------------------------------------------------------
(* Registers and constants *)
\* Mutant: one register more than the function asked for.
CheckstackOffByOne(fs, n) ==
  LET newstack == fs.freereg + n
  IN CASE newstack <= fs.maxstack + 1 -> fs
       [] newstack > fs.maxstack + 1 /\ newstack >= MaxStack -> SyntaxError(fs)
       [] OTHER -> [fs EXCEPT !.maxstack = newstack]
luaK_checkstack(fs, n) ==
  LET newstack == fs.freereg + n
  IN CASE newstack <= fs.maxstack -> fs
       [] newstack > fs.maxstack /\ newstack >= MaxStack -> SyntaxError(fs)
       [] OTHER -> [fs EXCEPT !.maxstack = newstack]

luaK_reserveregs(fs, n) == [luaK_checkstack(fs, n) EXCEPT !.freereg = @ + n]

freereg(fs, reg) ==
  IF ISK(reg) \/ reg < fs.nactvar THEN fs
  ELSE [Must(fs, reg = fs.freereg - 1) EXCEPT !.freereg = @ - 1]

freeexp(fs, e) == IF e.k = "VNONRELOC" THEN freereg(fs, e.info) ELSE fs

(* [fs, i]: the index of constant v, which is added when it is new. *)
addk(fs, v) ==
  IF \E i \in DOMAIN fs.k : fs.k[i] = v
  THEN [fs |-> fs, i |-> (CHOOSE i \in DOMAIN fs.k : fs.k[i] = v) - 1]
  ELSE [fs |-> [fs EXCEPT !.k = Append(@, v)], i |-> Len(fs.k)]

luaK_stringK(fs, s) == addk(fs, <<"str", s>>)
luaK_numberK(fs, r) == addk(fs, <<"num", r>>)
boolK(fs, b)        == addk(fs, <<"bool", b>>)
nilK(fs)            == addk(fs, <<"nil">>)

hasmultret(k) == k \in {"VCALL", "VVARARG"}

luaK_setreturns(fs, e, nresults) ==
  CASE e.k = "VCALL" -> [fs EXCEPT !.code[e.info + 1].c = nresults + 1]
    [] e.k = "VVARARG" ->
         luaK_reserveregs([fs EXCEPT !.code[e.info + 1].b = nresults + 1,
                                     !.code[e.info + 1].a = fs.freereg], 1)
    [] OTHER -> fs

luaK_setoneret(fs, e) ==
  CASE e.k = "VCALL" -> P(fs, [e EXCEPT !.k = "VNONRELOC", !.info = getcode(fs, e).a])
    [] e.k = "VVARARG" -> P([fs EXCEPT !.code[e.info + 1].b = 2], [e EXCEPT !.k = "VRELOCABLE"])
    [] OTHER -> P(fs, e)
--------------------------------------------------------------------------------
(* Where the value of an expression is, and moving it to where it is wanted *)
Relocable(fs, e) == P(fs, [e EXCEPT !.k = "VRELOCABLE", !.info = LastPc(fs)])

(* The instruction that loads a variable *)
Loader == [VUPVAL |-> "GETUPVAL", VGLOBAL |-> "GETGLOBAL", VINDEXED |-> "GETTABLE"]
LoadFrom(fs, e) == Relocable(luaK_codeABC(fs, Loader[e.k], 0, e.info, IF e.k = "VINDEXED" THEN e.aux ELSE 0), e)
luaK_dischargevars(fs, e) ==
  CASE e.k = "VLOCAL"  -> P(fs, [e EXCEPT !.k = "VNONRELOC"])
    [] e.k \in DOMAIN Loader ->
         LoadFrom(IF e.k = "VINDEXED" THEN freereg(freereg(fs, e.aux), e.info) ELSE fs, e)
    [] OTHER -> luaK_setoneret(fs, e)

CodeIn(fs, code, reg) == luaK_codeABC(fs, code.op, reg, code.b, 0)

(* The value of d, [fs, e], which is no variable, moved to reg. *)
MoveTo(d, reg) ==
  LET g == d.fs
      x == d.e
      n == luaK_numberK(g, x.nval)
      code == CASE x.k \in {"VTRUE", "VFALSE"} -> [op |-> "LOADBOOL", b |-> IF x.k = "VTRUE" THEN 1 ELSE 0]
                [] x.k = "VK"    -> [op |-> "LOADK", b |-> x.info]
                [] x.k = "VKNUM" -> [op |-> "LOADK", b |-> n.i]
                [] x.k = "VNONRELOC" -> [op |-> "MOVE", b |-> x.info]
      Moved(h) == P(h, [x EXCEPT !.k = "VNONRELOC", !.info = reg])
  IN CASE x.k = "VNIL"  -> Moved(luaK_nil(g, reg, 1))
       [] x.k = "VRELOCABLE" -> Moved([g EXCEPT !.code[x.info + 1].a = reg])
       [] x.k = "VNONRELOC" /\ reg = x.info -> P(g, x)
       [] x.k \in {"VVOID", "VJMP"} -> P(g, x)
       [] OTHER -> Moved(CodeIn(IF x.k = "VKNUM" THEN n.fs ELSE g, code, reg))

discharge2reg(fs, e, reg) == MoveTo(luaK_dischargevars(fs, e), reg)

discharge2anyreg(fs, e) ==
  IF e.k = "VNONRELOC" THEN P(fs, e)
  ELSE LET g == luaK_reserveregs(fs, 1) IN discharge2reg(g, e, g.freereg - 1)

(* d with the jump it is, if any, in the list of its true jumps *)
OwnJump(d) ==
  LET c == luaK_concat(d.fs, d.e.t, IF d.e.k = "VJMP" THEN d.e.info ELSE NO_JUMP)
  IN  P(c.fs, [d.e EXCEPT !.t = c.l])

(* [fs, p_f, p_t]: FALSE and TRUE are loaded into reg; jump j, [fs, l], goes past both. *)
LoadTrue(fs, l, reg, p_f) ==
  LET lt == code_label(fs, reg, 1, 0)
  IN  [fs |-> luaK_patchtohere(lt, l), p_f |-> p_f, p_t |-> pc(fs)]
LoadFalse(j, reg) == LoadTrue(code_label(j.fs, reg, 0, 1), j.l, reg, pc(j.fs))

(* The jumps of x come here, or to where their value is loaded. *)
PatchJumps(fs, x, reg, p_f, p_t) ==
  LET final == pc(fs)
  IN  patchlistaux(patchlistaux(luaK_getlabel(fs), x.f, final, reg, p_f), x.t, final, reg, p_t)
PatchLoads(loads, x, reg) == PatchJumps(loads.fs, x, reg, loads.p_f, loads.p_t)

Settle(d, reg) ==
  LET x == d.e
      load == need_value(d.fs, x.t) \/ need_value(d.fs, x.f)
      fj == IF x.k = "VJMP" THEN [fs |-> d.fs, l |-> NO_JUMP] ELSE luaK_jump(d.fs)
      loads == IF load THEN LoadFalse(fj, reg) ELSE [fs |-> d.fs, p_f |-> NO_JUMP, p_t |-> NO_JUMP]
  IN  P(IF hasjumps(x) THEN PatchLoads(loads, x, reg) ELSE d.fs,
        [x EXCEPT !.f = NO_JUMP, !.t = NO_JUMP, !.info = reg, !.k = "VNONRELOC"])

exp2reg(fs, e, reg) == Settle(OwnJump(discharge2reg(fs, e, reg)), reg)

(* The same for a value that is no variable any more, in the next register. *)
InReg(fs, e, reg) == Settle(OwnJump(MoveTo(P(fs, e), reg)), reg)
InNextReg(d) ==
  LET g == luaK_reserveregs(freeexp(d.fs, d.e), 1) IN InReg(g, d.e, g.freereg - 1)
luaK_exp2nextreg(fs, e) == InNextReg(luaK_dischargevars(fs, e))

(* The register is the info of the result. *)
InAnyReg(d) ==
  LET own  == d.e.k = "VNONRELOC" /\ d.e.info >= d.fs.nactvar
      next == luaK_reserveregs(freeexp(d.fs, d.e), 1)
  IN  IF d.e.k = "VNONRELOC" /\ ~hasjumps(d.e) THEN d
      ELSE InReg(IF own THEN d.fs ELSE next, d.e, IF own THEN d.e.info ELSE next.freereg - 1)
luaK_exp2anyreg(fs, e) == InAnyReg(luaK_dischargevars(fs, e))

ValueOf(d, jumps) == IF jumps THEN InAnyReg(d) ELSE d
luaK_exp2val(fs, e) == ValueOf(luaK_dischargevars(fs, e), hasjumps(e))

(* [fs, e, rk]: rk is a register, or a constant when it is in range. *)
RegRK(r) == [fs |-> r.fs, e |-> r.e, rk |-> r.e.info]
ValueRK(v) ==
  LET c == CASE v.e.k = "VNIL"  -> nilK(v.fs)
             [] v.e.k = "VKNUM" -> luaK_numberK(v.fs, v.e.nval)
             [] OTHER -> boolK(v.fs, v.e.k = "VTRUE")
  IN CASE v.e.k \in {"VKNUM", "VTRUE", "VFALSE", "VNIL"} /\ Len(v.fs.k) <= MaxIndexRK ->
            [fs |-> c.fs, e |-> [v.e EXCEPT !.k = "VK", !.info = c.i], rk |-> RKASK(c.i)]
       [] v.e.k = "VK" /\ v.e.info <= MaxIndexRK ->
            [fs |-> v.fs, e |-> v.e, rk |-> RKASK(v.e.info)]
       [] OTHER -> RegRK(luaK_exp2anyreg(v.fs, v.e))
luaK_exp2RK(fs, e) == ValueRK(luaK_exp2val(fs, e))

(* The instruction that stores register a, or register or constant r *)
StoreReg(a, op, info) == freeexp(luaK_codeABC(a.fs, op, a.e.info, info, 0), a.e)
StoreRK(r, var) == freeexp(luaK_codeABC(r.fs, "SETTABLE", var.info, var.aux, r.rk), r.e)

luaK_storevar(fs, var, ex) ==
  CASE var.k = "VLOCAL" -> exp2reg(freeexp(fs, ex), ex, var.info).fs
    [] var.k \in {"VUPVAL", "VGLOBAL"} ->
         StoreReg(luaK_exp2anyreg(fs, ex), IF var.k = "VUPVAL" THEN "SETUPVAL" ELSE "SETGLOBAL", var.info)
    [] var.k = "VINDEXED" -> StoreRK(luaK_exp2RK(fs, ex), var)
    [] OTHER -> Must(fs, FALSE)

SelfOf(k, func, object) ==
  P(freeexp(luaK_codeABC(k.fs, "SELF", func, object.info, k.rk), k.e),
    [object EXCEPT !.info = func, !.k = "VNONRELOC"])
SelfIn(a, key) ==
  LET f == freeexp(a.fs, a.e)
  IN  SelfOf(luaK_exp2RK(luaK_reserveregs(f, 2), key), f.freereg, a.e)
luaK_self(fs, e, key) == SelfIn(luaK_exp2anyreg(fs, e), key)
--------------------------------------------------------------------------------
(* Conditions *)
invertjump(fs, e) ==
  LET i == getjumpcontrol(fs, e.info) + 1
  IN  [Must(fs, fs.code[i].op \in {"EQ", "LT", "LE", "TFORLOOP"}) EXCEPT !.code[i].a = 1 - @]

(* [fs, l, e]: l is the jump taken when e is cond. *)
JumpOn(j, e) == [fs |-> j.fs, l |-> j.l, e |-> e]
TestReg(d, cond) == JumpOn(condjump(freeexp(d.fs, d.e), "TESTSET", NO_REG, d.e.info, cond), d.e)
jumponcond(fs, e, cond) ==
  LET ie == getcode(fs, e)
      pop == [fs EXCEPT !.code = SubSeq(@, 1, Len(@) - 1)]
  IN  IF e.k = "VRELOCABLE" /\ ie.op = "NOT"
      THEN JumpOn(condjump(pop, "TEST", ie.b, 0, 1 - cond), e)
      ELSE TestReg(discharge2anyreg(fs, e), cond)

NoJump(fs, e)     == [fs |-> fs, l |-> NO_JUMP, e |-> e]
AlwaysJump(fs, e) == JumpOn(luaK_jump(fs), e)
JumpOf(fs, e)     == [fs |-> fs, l |-> e.info, e |-> e]

JumpIfFalse(d) ==
  CASE d.e.k \in {"VK", "VKNUM", "VTRUE"} -> NoJump(d.fs, d.e)
    [] d.e.k = "VFALSE" -> AlwaysJump(d.fs, d.e)
    [] d.e.k = "VJMP" -> JumpOf(invertjump(d.fs, d.e), d.e)
    [] OTHER -> jumponcond(d.fs, d.e, 0)
TrueGoesOn(j) ==
  LET c == luaK_concat(j.fs, j.e.f, j.l)
  IN  P(luaK_patchtohere(c.fs, j.e.t), [j.e EXCEPT !.f = c.l, !.t = NO_JUMP])
luaK_goiftrue(fs, e) == TrueGoesOn(JumpIfFalse(luaK_dischargevars(fs, e)))

JumpIfTrue(d) ==
  CASE d.e.k \in {"VNIL", "VFALSE"} -> NoJump(d.fs, d.e)
    [] d.e.k = "VTRUE" -> AlwaysJump(d.fs, d.e)
    [] d.e.k = "VJMP" -> JumpOf(d.fs, d.e)
    [] OTHER -> jumponcond(d.fs, d.e, 1)
FalseGoesOn(j) ==
  LET c == luaK_concat(j.fs, j.e.t, j.l)
  IN  P(luaK_patchtohere(c.fs, j.e.f), [j.e EXCEPT !.t = c.l, !.f = NO_JUMP])
luaK_goiffalse(fs, e) == FalseGoesOn(JumpIfTrue(luaK_dischargevars(fs, e)))

NotReg(r) == Relocable(luaK_codeABC(freeexp(r.fs, r.e), "NOT", 0, r.e.info, 0), r.e)
NotOf(d) ==
  CASE d.e.k \in {"VNIL", "VFALSE"} -> P(d.fs, [d.e EXCEPT !.k = "VTRUE"])
    [] d.e.k \in {"VK", "VKNUM", "VTRUE"} -> P(d.fs, [d.e EXCEPT !.k = "VFALSE"])
    [] d.e.k = "VJMP" -> P(invertjump(d.fs, d.e), d.e)
    [] d.e.k \in {"VRELOCABLE", "VNONRELOC"} -> NotReg(discharge2anyreg(d.fs, d.e))
    [] OTHER -> P(Must(d.fs, FALSE), d.e)
SwapLists(x) ==
  LET y == [x.e EXCEPT !.f = x.e.t, !.t = x.e.f]
  IN  P(removevalues(removevalues(x.fs, y.f), y.t), y)
codenot(fs, e) == SwapLists(NotOf(luaK_dischargevars(fs, e)))

IndexedBy(r, t) == P(r.fs, [t EXCEPT !.aux = r.rk, !.k = "VINDEXED"])
luaK_indexed(fs, t, k) == IndexedBy(luaK_exp2RK(fs, k), t)
--------------------------------------------------------------------------------
(* Operators.  Numbers are integers. *)
Arith(op, a, b) ==
  CASE op = "ADD" -> a + b
    [] op = "SUB" -> a - b
    [] op = "MUL" -> a * b
    [] op = "DIV" -> a \div b
    [] op = "MOD" -> a % b
    [] op = "POW" -> a ^ b
    [] op = "UNM" -> -a

constfolding(op, e1, e2) ==
  /\ isnumeral(e1) /\ isnumeral(e2)
  /\ op \in {"ADD", "SUB", "MUL", "DIV", "MOD", "POW", "UNM"}
  /\ op \in {"DIV", "MOD"} => e2.nval # 0

(* The operands r1 and r2, [fs, e, rk], of one operation; r1 is coded last. *)
ArithOn(r1, r2, op) ==
  LET g == IF r1.rk > r2.rk THEN freeexp(freeexp(r1.fs, r1.e), r2.e)
                            ELSE freeexp(freeexp(r1.fs, r2.e), r1.e)
  IN  Relocable(luaK_codeABC(g, op, 0, r1.rk, r2.rk), r1.e)
ArithWith(r2, op, e1) == ArithOn(luaK_exp2RK(r2.fs, e1), r2, op)
codearith(fs, op, e1, e2) ==
  LET unary == op \in {"UNM", "LEN"}
  IN  IF constfolding(op, e1, e2) THEN P(fs, [e1 EXCEPT !.nval = Arith(op, e1.nval, e2.nval)])
      ELSE ArithWith(IF unary THEN [fs |-> fs, e |-> e2, rk |-> 0] ELSE luaK_exp2RK(fs, e2), op, e1)

CompJump(j, e) == P(j.fs, [e EXCEPT !.k = "VJMP", !.info = j.l])
CompOn(r1, r2, op, cond) ==
  LET g == freeexp(freeexp(r2.fs, r2.e), r1.e)
      swap == cond = 0 /\ op # "EQ"
  IN  CompJump(IF swap THEN condjump(g, op, 1, r2.rk, r1.rk) ELSE condjump(g, op, cond, r1.rk, r2.rk),
               r1.e)
CompWith(r1, op, cond, e2) == CompOn(r1, luaK_exp2RK(r1.fs, e2), op, cond)
codecomp(fs, op, cond, e1, e2) == CompWith(luaK_exp2RK(fs, e1), op, cond, e2)

UnaryOn(r, op) == codearith(r.fs, op, r.e, init_exp("VKNUM", 0))
luaK_prefix(fs, op, e) ==
  CASE op = "OPR_NOT" -> codenot(fs, e)
    [] op = "OPR_LEN" -> UnaryOn(luaK_exp2anyreg(fs, e), "LEN")
    [] op = "OPR_MINUS" -> UnaryOn(IF isnumeral(e) THEN P(fs, e) ELSE luaK_exp2anyreg(fs, e), "UNM")

ArithOp(op) == op \in {"ADD", "SUB", "MUL", "DIV", "MOD", "POW"}

FsAndExp(r) == P(r.fs, r.e)
luaK_infix(fs, op, v) ==
  CASE op = "AND" -> luaK_goiftrue(fs, v)
    [] op = "OR"  -> luaK_goiffalse(fs, v)
    [] op = "CONCAT" -> luaK_exp2nextreg(fs, v)
    [] ArithOp(op) /\ isnumeral(v) -> P(fs, v)
    [] OTHER -> FsAndExp(luaK_exp2RK(fs, v))

AndAfter(d, e1) ==
  LET c == luaK_concat(d.fs, d.e.f, e1.f) IN P(Must(c.fs, e1.t = NO_JUMP), [d.e EXCEPT !.f = c.l])
OrAfter(d, e1) ==
  LET c == luaK_concat(d.fs, d.e.t, e1.t) IN P(Must(c.fs, e1.f = NO_JUMP), [d.e EXCEPT !.t = c.l])
ConcatReg(r, e1) == codearith(r.fs, "CONCAT", e1, r.e)
ConcatAfter(v, e1) ==
  LET i == v.e.info
  IN  IF v.e.k = "VRELOCABLE" /\ getcode(v.fs, v.e).op = "CONCAT"
      THEN P([freeexp(Must(v.fs, e1.info = v.fs.code[i + 1].b - 1), e1)
                EXCEPT !.code[i + 1].b = e1.info],
             [e1 EXCEPT !.k = "VRELOCABLE", !.info = i])
      ELSE ConcatReg(luaK_exp2nextreg(v.fs, v.e), e1)

(* The instruction and the condition of a comparison *)
Comparison(op) ==
  CASE op \in {"EQ", "LT", "LE"} -> [op |-> op, cond |-> 1]
    [] op = "NE" -> [op |-> "EQ", cond |-> 0]
    [] op = "GT" -> [op |-> "LT", cond |-> 0]
    [] op = "GE" -> [op |-> "LE", cond |-> 0]

luaK_posfix(fs, op, e1, e2) ==
  CASE op = "AND" -> AndAfter(luaK_dischargevars(fs, e2), e1)
    [] op = "OR"  -> OrAfter(luaK_dischargevars(fs, e2), e1)
    [] op = "CONCAT" -> ConcatAfter(luaK_exp2val(fs, e2), e1)
    [] ArithOp(op) -> codearith(fs, op, e1, e2)
    [] OTHER -> codecomp(fs, Comparison(op).op, Comparison(op).cond, e1, e2)

LUA_MULTRET == -1
MAXARG_C    == 511

luaK_setlist(fs, base, nelems, tostore) ==
  LET c == (nelems - 1) \div FieldsPerFlush + 1
      b == IF tostore = LUA_MULTRET THEN 0 ELSE tostore
      g == Must(fs, tostore # 0)
      wide == luaK_codeABC(luaK_codeABC(g, "SETLIST", base, b, 0), "DATA", 0, c, 0)
  IN  [(IF c <= MAXARG_C THEN luaK_codeABC(g, "SETLIST", base, b, c) ELSE wide)
         EXCEPT !.freereg = base + 1]
================================================================================
