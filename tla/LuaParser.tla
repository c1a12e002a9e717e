------------------------------- MODULE LuaParser -------------------------------
(***************************************************************************)
(* The parser of the Lua compiler (src/jni/lua/lparser.c): one operator    *)
(* for each grammar rule, reading tokens and driving the code generator.   *)
(* Rules that contain one another do so through Rule, by name.             *)
(*                                                                         *)
(* The lexer's state is kept in the FuncState that is being filled:        *)
(*   src, p    the tokens, [t |-> kind, v |-> name, string or number], and *)
(*             the current one (the last token is EOS)                     *)
(*   level     the nesting level (L->nCcalls)                              *)
(*   prev      <<>>, or the FuncState of the enclosing function            *)
(*   bl        the open blocks, the innermost last                         *)
(*   actvar    the declared local variables                                *)
(*   upvalues  the upvalues, [k, info]                                     *)
(*   f         the rest of the Proto: [p, numparams, is_vararg]            *)
(* luaX_syntaxerror leaves the parser: here it skips to the end of the     *)
(* tokens, where every rule stops.  Lines are left out, and with them the  *)
(* error for a call whose arguments start on a new line.                   *)
(***************************************************************************)
EXTENDS LuaCode

CONSTANTS MaxVars,       \* LUAI_MAXVARS
          MaxUpvalues,   \* LUAI_MAXUPVALUES
          MaxCCalls      \* LUAI_MAXCCALLS

RECURSIVE Rule(_, _, _)
expr(fs)        == Rule("subexpr", fs, 0)
primaryexp(fs)  == Rule("primaryexp", fs, 0)
constructor(fs) == Rule("constructor", fs, 0)
chunk(fs)       == Rule("chunk", fs, 0)

token(fs)     == fs.src[fs.p].t
lookahead(fs) == fs.src[fs.p + 1].t
luaX_next(fs) == [fs EXCEPT !.p = IF @ < Len(fs.src) THEN @ + 1 ELSE @]

Error(fs) == [fs EXCEPT !.err = TRUE, !.p = Len(fs.src)]

luaY_checklimit(fs, v, l) == IF v > l THEN Error(fs) ELSE fs

enterlevel(fs) == luaY_checklimit([fs EXCEPT !.level = @ + 1], fs.level + 1, MaxCCalls)
leavelevel(fs) == [fs EXCEPT !.level = @ - 1]

testnext(fs, c)  == IF token(fs) = c THEN luaX_next(fs) ELSE fs
checknext(fs, c) == IF token(fs) = c THEN luaX_next(fs) ELSE Error(fs)

(* [fs, s] *)
str_checkname(fs) ==
  IF token(fs) = "NAME" THEN [fs |-> luaX_next(fs), s |-> fs.src[fs.p].v]
  ELSE [fs |-> Error(fs), s |-> ""]

codestring(fs, s) == LET c == luaK_stringK(fs, s) IN P(c.fs, init_exp("VK", c.i))
checkname(fs)     == LET n == str_checkname(fs) IN codestring(n.fs, n.s)
--------------------------------------------------------------------------------
(* Local variables and upvalues *)
new_localvar(fs, name, n) ==
  [luaY_checklimit(fs, fs.nactvar + n + 1, MaxVars)
     EXCEPT !.actvar = Append(SubSeq(@, 1, fs.nactvar + n), name)]

adjustlocalvars(fs, nvars) == [fs EXCEPT !.nactvar = @ + nvars]

removevars(fs, tolevel) == [fs EXCEPT !.nactvar = tolevel, !.actvar = SubSeq(@, 1, tolevel)]

(* [fs, i] *)
indexupvalue(fs, v) ==
  LET u    == [k |-> v.k, info |-> v.info]
      same == {i \in DOMAIN fs.upvalues : fs.upvalues[i] = u}
      g    == Must(luaY_checklimit(fs, Len(fs.upvalues) + 1, MaxUpvalues), v.k \in {"VLOCAL", "VUPVAL"})
  IN  IF same # {} THEN [fs |-> fs, i |-> (CHOOSE i \in same : TRUE) - 1]
      ELSE [fs |-> [g EXCEPT !.upvalues = Append(@, u)], i |-> Len(fs.upvalues)]

(* The innermost variable with the name, or -1. *)
searchvar(fs, n) ==
  LET at == {i \in 1..fs.nactvar : fs.actvar[i] = n}
  IN  IF at = {} THEN -1 ELSE (CHOOSE i \in at : \A j \in at : j <= i) - 1

markupval(fs, level) ==
  LET in == {i \in DOMAIN fs.bl : fs.bl[i].nactvar <= level}
  IN  IF in = {} THEN fs
      ELSE [fs EXCEPT !.bl[CHOOSE i \in in : \A j \in in : j <= i].upval = TRUE]

RECURSIVE singlevaraux(_, _, _)
singlevaraux(fs, n, base) ==
  LET v  == searchvar(fs, n)
      up == singlevaraux(fs.prev[1], n, FALSE)
      g  == [fs EXCEPT !.prev = <<up.fs>>]
      i  == indexupvalue(g, up.e)
  IN CASE v >= 0 -> P(IF base THEN fs ELSE markupval(fs, v), init_exp("VLOCAL", v))
       [] v < 0 /\ fs.prev = <<>> -> P(fs, init_exp("VGLOBAL", NO_REG))
       [] OTHER -> IF up.e.k = "VGLOBAL" THEN P(g, up.e)
                   ELSE P(i.fs, [up.e EXCEPT !.info = i.i, !.k = "VUPVAL"])

singlevar(fs) ==
  LET n == str_checkname(fs)
      v == singlevaraux(n.fs, n.s, TRUE)
      c == luaK_stringK(v.fs, n.s)
  IN  IF v.e.k = "VGLOBAL" THEN P(c.fs, [v.e EXCEPT !.info = c.i]) ELSE v

Nils(fs, n) == IF n > 0 THEN luaK_nil(luaK_reserveregs(fs, n), fs.freereg, n) ELSE fs

adjust_assign(fs, nvars, nexps, e) ==
  LET more  == nvars - nexps
      extra == IF more + 1 < 0 THEN 0 ELSE more + 1
      multi == luaK_setreturns(fs, e, extra)
  IN  IF hasmultret(e.k) THEN (IF extra > 1 THEN luaK_reserveregs(multi, extra - 1) ELSE multi)
      ELSE Nils(IF e.k # "VVOID" THEN luaK_exp2nextreg(fs, e).fs ELSE fs, more)
--------------------------------------------------------------------------------
(* Blocks and functions *)
Block(fs) == fs.bl[Len(fs.bl)]

enterblock(fs, isbreakable) ==
  [Must(fs, fs.freereg = fs.nactvar) EXCEPT !.bl = Append(@,
     [breaklist |-> NO_JUMP, isbreakable |-> isbreakable, nactvar |-> fs.nactvar, upval |-> FALSE])]

leaveblock(fs) ==
  LET bl == Block(fs)
      g  == removevars([fs EXCEPT !.bl = SubSeq(@, 1, Len(@) - 1)], bl.nactvar)
      h  == IF bl.upval THEN luaK_codeABC(g, "CLOSE", bl.nactvar, 0, 0) ELSE g
  IN  luaK_patchtohere([Must(h, ~bl.isbreakable \/ ~bl.upval) EXCEPT !.freereg = h.nactvar],
                       bl.breaklist)

(* What the inner of two FuncStates knows of the tokens and of the errors. *)
Carry(fs, from) ==
  [fs EXCEPT !.p = from.p, !.level = from.level, !.err = @ \/ from.err, !.bad = @ \/ from.bad]

NewFunc(src) ==
  [src |-> src, p |-> 1, level |-> 0, err |-> FALSE, bad |-> FALSE,
   prev |-> <<>>, code |-> <<>>, k |-> <<>>, lasttarget |-> -1, jpc |-> NO_JUMP,
   freereg |-> 0, nactvar |-> 0, bl |-> <<>>, actvar |-> <<>>, upvalues |-> <<>>, maxstack |-> 2,
   f |-> [p |-> <<>>, numparams |-> 0, is_vararg |-> {}]]

open_func(fs) == [Carry(NewFunc(fs.src), fs) EXCEPT !.prev = <<fs>>]

close_func(fs) == LET g == luaK_ret(removevars(fs, 0), 0, 0) IN Must(g, g.bl = <<>>)

Proto(fs) ==
  [code |-> fs.code, k |-> fs.k, p |-> fs.f.p, nups |-> Len(fs.upvalues), maxstack |-> fs.maxstack,
   numparams |-> fs.f.numparams, is_vararg |-> fs.f.is_vararg]

pushclosure(fs, func) ==
  LET g == [fs EXCEPT !.f.p = Append(@, Proto(func))]
      c == luaK_codeABx(g, "CLOSURE", 0, Len(g.f.p) - 1)
      Capture(h, u) ==
        luaK_codeABC(h, IF u.k = "VLOCAL" THEN "MOVE" ELSE "GETUPVAL", 0, u.info, 0)
  IN  P(FoldLeft(Capture, c, func.upvalues), init_exp("VRELOCABLE", LastPc(c)))

EndOfSource(main) == close_func(IF token(main) = "EOS" THEN main ELSE Error(main))
luaY_parser(src)  == EndOfSource(chunk([NewFunc(src) EXCEPT !.f.is_vararg = {"ISVARARG"}]))

RECURSIVE parameters(_, _)
parameters(fs, n) ==
  LET name == str_checkname(fs)
      g == new_localvar(name.fs, name.s, n)
      dots == new_localvar(luaX_next(fs), "arg", n)
  IN CASE token(fs) = "NAME" ->
            IF token(g) = "," THEN parameters(luaX_next(g), n + 1) ELSE [fs |-> g, n |-> n + 1]
       [] token(fs) = "..." ->
            [fs |-> [dots EXCEPT !.f.is_vararg = {"HASARG", "NEEDSARG", "ISVARARG"}], n |-> n + 1]
       [] OTHER -> [fs |-> Error(fs), n |-> n]

parlist(fs) ==
  LET r == IF token(fs) = ")" THEN [fs |-> fs, n |-> 0] ELSE parameters(fs, 0)
      g == adjustlocalvars(r.fs, r.n)
      arg == IF "HASARG" \in g.f.is_vararg THEN 1 ELSE 0
  IN  luaK_reserveregs([g EXCEPT !.f.numparams = g.nactvar - arg], g.nactvar)

Closed(func) == pushclosure(Carry(func.prev[1], func), func)
body(fs, needself) ==
  LET o == checknext(open_func(fs), "(")
      s == IF needself THEN adjustlocalvars(new_localvar(o, "self", 0), 1) ELSE o
  IN  Closed(close_func(checknext(chunk(checknext(parlist(s), ")")), "end")))
--------------------------------------------------------------------------------
(* Table constructors.  cc is [v, t, nh, na, tostore], with fs. *)
ItemOf(key, t) == luaK_indexed(key.fs, t, key.e)
FieldOf(t)     == ItemOf(checkname(luaX_next(t.fs)), t.e)
field(fs, v)   == FieldOf(luaK_exp2anyreg(fs, v))

CloseIndex(x) == P(checknext(x.fs, "]"), x.e)
yindex(fs) == LET v == expr(luaX_next(fs)) IN CloseIndex(luaK_exp2val(v.fs, v.e))

StoreField(cc, key, val) ==
  [cc EXCEPT !.fs = [luaK_codeABC(val.fs, "SETTABLE", cc.t.info, key.rk, val.rk) EXCEPT !.freereg = cc.fs.freereg],
             !.nh = @ + 1]
ValueField(cc, key) == LET val == expr(key.fs) IN StoreField(cc, key, luaK_exp2RK(val.fs, val.e))
KeyField(cc, key)   == ValueField(cc, luaK_exp2RK(checknext(key.fs, "="), key.e))
recfield(cc) == KeyField(cc, IF token(cc.fs) = "NAME" THEN checkname(cc.fs) ELSE yindex(cc.fs))

ListItem(cc, item) ==
  LET d == [cc EXCEPT !.fs = item.fs, !.v = [item.e EXCEPT !.k = "VVOID"]]
  IN  IF cc.tostore = FieldsPerFlush
      THEN [d EXCEPT !.fs = luaK_setlist(@, cc.t.info, cc.na, cc.tostore), !.tostore = 0]
      ELSE d
closelistfield(cc) == IF cc.v.k = "VVOID" THEN cc ELSE ListItem(cc, luaK_exp2nextreg(cc.fs, cc.v))

lastlistfield(cc) ==
  LET fs == cc.fs IN
  CASE cc.tostore = 0 -> cc
    [] cc.tostore # 0 /\ hasmultret(cc.v.k) ->
         [cc EXCEPT !.fs = luaK_setlist(luaK_setreturns(fs, cc.v, LUA_MULTRET),
                                        cc.t.info, cc.na, LUA_MULTRET),
                    !.na = @ - 1]
    [] OTHER ->
         LET g == IF cc.v.k = "VVOID" THEN fs ELSE luaK_exp2nextreg(fs, cc.v).fs
         IN  [cc EXCEPT !.fs = luaK_setlist(g, cc.t.info, cc.na, cc.tostore)]

listfield(cc) ==
  LET v == expr(cc.fs)
  IN  [cc EXCEPT !.fs = v.fs, !.v = v.e, !.na = @ + 1, !.tostore = @ + 1]

onefield(cc) ==
  LET rec == token(cc.fs) = "[" \/ (token(cc.fs) = "NAME" /\ lookahead(cc.fs) = "=")
  IN  IF rec THEN recfield(cc) ELSE listfield(cc)

RECURSIVE fields(_)
MoreFields(cc) == IF token(cc.fs) \in {",", ";"} THEN fields([cc EXCEPT !.fs = luaX_next(@)]) ELSE cc
fields(cc) ==
  IF token(cc.fs) = "}" THEN cc
  ELSE MoreFields(onefield(closelistfield([cc EXCEPT !.fs = Must(@, cc.v.k = "VVOID" \/ cc.tostore > 0)])))

Sizes(cc, at) == P([cc.fs EXCEPT !.code[at + 1].b = cc.na, !.code[at + 1].c = cc.nh], cc.t)
Fill(t, at) ==
  LET cc == fields([fs |-> checknext(t.fs, "{"), t |-> t.e, v |-> init_exp("VVOID", 0),
                    nh |-> 0, na |-> 0, tostore |-> 0])
  IN  Sizes(lastlistfield([cc EXCEPT !.fs = checknext(@, "}")]), at)
NewTable(fs) == Fill(luaK_exp2nextreg(fs, init_exp("VRELOCABLE", LastPc(fs))), LastPc(fs))
--------------------------------------------------------------------------------
(* Expressions *)
RECURSIVE explist(_, _)
explist(r, n) ==      \* [fs, e, n]: the expressions after r, the n-th
  LET g == luaK_exp2nextreg(luaX_next(r.fs), r.e).fs
  IN  IF token(r.fs) = "," THEN explist(expr(g), n + 1)
      ELSE [fs |-> r.fs, e |-> r.e, n |-> n]

explist1(fs) == explist(expr(fs), 1)

(* The arguments of a call: a list, a table or a string *)
ListArgs(list) ==
  P(checknext(IF hasmultret(list.e.k) THEN luaK_setreturns(list.fs, list.e, LUA_MULTRET) ELSE list.fs, ")"),
    list.e)
callargs(fs) ==
  LET next == luaX_next(fs)
      str  == codestring(fs, fs.src[fs.p].v)
  IN CASE token(fs) = "(" /\ token(next) = ")" -> P(luaX_next(next), init_exp("VVOID", 0))
       [] token(fs) = "(" /\ token(next) # ")" -> ListArgs(explist1(next))
       [] token(fs) = "{" -> constructor(fs)
       [] token(fs) = "STRING" -> P(luaX_next(str.fs), str.e)
       [] OTHER -> P(Error(fs), init_exp("VVOID", 0))

CallOn(fs, f, open) ==
  LET nparams == IF open THEN LUA_MULTRET ELSE fs.freereg - (f.info + 1)
      call == luaK_codeABC(Must(fs, f.k = "VNONRELOC"), "CALL", f.info, nparams + 1, 2)
  IN  P([call EXCEPT !.freereg = f.info + 1], init_exp("VCALL", LastPc(call)))
CallWith(a, f) ==
  LET open == hasmultret(a.e.k)
  IN  CallOn(IF open \/ a.e.k = "VVOID" THEN a.fs ELSE luaK_exp2nextreg(a.fs, a.e).fs, f, open)
funcargs(f) == CallWith(callargs(f.fs), f.e)

prefixexp(fs) ==
  LET v == expr(luaX_next(fs))
  IN CASE token(fs) = "(" -> luaK_dischargevars(checknext(v.fs, ")"), v.e)
       [] token(fs) = "NAME" -> singlevar(fs)
       [] OTHER -> P(Error(fs), init_exp("VVOID", 0))

IndexIn(t) == ItemOf(yindex(t.fs), t.e)

RECURSIVE suffixes(_)
suffixes(r) ==
  LET name == checkname(luaX_next(r.fs))
  IN CASE token(r.fs) = "." -> suffixes(field(r.fs, r.e))
       [] token(r.fs) = "[" -> suffixes(IndexIn(luaK_exp2anyreg(r.fs, r.e)))
       [] token(r.fs) = ":" -> suffixes(funcargs(luaK_self(name.fs, r.e, name.e)))
       [] token(r.fs) \in {"(", "STRING", "{"} -> suffixes(funcargs(luaK_exp2nextreg(r.fs, r.e)))
       [] OTHER -> r

vararg(fs) ==
  LET g == IF fs.f.is_vararg = {} THEN Error(fs)
           ELSE luaX_next([fs EXCEPT !.f.is_vararg = @ \ {"NEEDSARG"}])
      c == luaK_codeABC(g, "VARARG", 0, 1, 0)
  IN  P(c, init_exp("VVARARG", LastPc(c)))

simpleexp(fs) ==
  LET next == luaX_next(fs)
      str  == codestring(fs, fs.src[fs.p].v)
  IN CASE token(fs) = "NUMBER" -> P(next, [init_exp("VKNUM", 0) EXCEPT !.nval = fs.src[fs.p].v])
       [] token(fs) = "STRING" -> P(luaX_next(str.fs), str.e)
       [] token(fs) = "nil"    -> P(next, init_exp("VNIL", 0))
       [] token(fs) = "true"   -> P(next, init_exp("VTRUE", 0))
       [] token(fs) = "false"  -> P(next, init_exp("VFALSE", 0))
       [] token(fs) = "..."    -> vararg(fs)
       [] token(fs) = "{"      -> constructor(fs)
       [] token(fs) = "function" -> body(next, FALSE)
       [] OTHER -> primaryexp(fs)

getunopr == [t \in {"not", "-", "#"} |->
  CASE t = "not" -> "OPR_NOT" [] t = "-" -> "OPR_MINUS" [] t = "#" -> "OPR_LEN"]

Binary(op, left, right) == [op |-> op, left |-> left, right |-> right]

getbinopr ==
  "+" :> Binary("ADD", 6, 6) @@ "-" :> Binary("SUB", 6, 6) @@ "*" :> Binary("MUL", 7, 7) @@
  "/" :> Binary("DIV", 7, 7) @@ "%" :> Binary("MOD", 7, 7) @@ "^" :> Binary("POW", 10, 9) @@
  ".." :> Binary("CONCAT", 5, 4) @@ "~=" :> Binary("NE", 3, 3) @@ "==" :> Binary("EQ", 3, 3) @@
  "<" :> Binary("LT", 3, 3) @@ "<=" :> Binary("LE", 3, 3) @@ ">" :> Binary("GT", 3, 3) @@
  ">=" :> Binary("GE", 3, 3) @@ "and" :> Binary("AND", 2, 2) @@ "or" :> Binary("OR", 1, 1)

UNARY_PRIORITY == 8

(* The operators after r that bind tighter than limit. *)
RightOperand(left, b) ==
  LET v2 == Rule("subexpr", left.fs, b.right) IN luaK_posfix(v2.fs, b.op, left.e, v2.e)

RECURSIVE operators(_, _)
operators(r, limit) ==
  LET t == token(r.fs)
      b == getbinopr[t]
  IN  IF t \in DOMAIN getbinopr /\ b.left > limit
      THEN operators(RightOperand(luaK_infix(luaX_next(r.fs), b.op, r.e), b), limit)
      ELSE r

LeaveExp(r) == P(leavelevel(r.fs), r.e)
subexpr(fs, limit) ==
  LET g == enterlevel(fs)
      u == Rule("subexpr", luaX_next(g), UNARY_PRIORITY)
      v == IF token(g) \in DOMAIN getunopr THEN luaK_prefix(u.fs, getunopr[token(g)], u.e)
           ELSE simpleexp(g)
  IN  LeaveExp(operators(v, limit))
--------------------------------------------------------------------------------
(* Statements *)
block_follow(t) == t \in {"else", "elseif", "end", "until", "EOS"}

block(fs) ==
  LET g == chunk(enterblock(fs, FALSE)) IN leaveblock(Must(g, Block(g).breaklist = NO_JUMP))

\* Mutant: the local that is assigned to is not copied first.
NoConflict(fs, lh, v) == [fs |-> fs, lh |-> lh]
(* [fs, lh]: assignments to tables that still need the local v use a copy. *)
check_conflict(fs, lh, v) ==
  LET extra == fs.freereg
      Uses(x) == x.k = "VINDEXED" /\ (x.info = v.info \/ x.aux = v.info)
      Safe(r) == IF r = v.info THEN extra ELSE r
      safe == [i \in DOMAIN lh |-> IF Uses(lh[i])
                 THEN [lh[i] EXCEPT !.info = Safe(@), !.aux = Safe(@)] ELSE lh[i]]
      copy == luaK_reserveregs(luaK_codeABC(fs, "MOVE", fs.freereg, v.info, 0), 1)
  IN  IF \E i \in DOMAIN lh : Uses(lh[i]) THEN [fs |-> copy, lh |-> safe] ELSE [fs |-> fs, lh |-> lh]

(* The variables of lh from the last to the first take the topmost registers. *)
StoreTop(fs, var) == luaK_storevar(fs, var, init_exp("VNONRELOC", fs.freereg - 1))

StoreAll(fs, lh) == FoldRight(LAMBDA x, h : StoreTop(h, x), lh, fs)

DropSurplus(fs, n) == IF n > 0 THEN [fs EXCEPT !.freereg = @ - n] ELSE fs
AssignList(es, lh) ==
  LET nvars == Len(lh)
      one == luaK_setoneret(es.fs, es.e)
  IN  IF es.n = nvars THEN StoreAll(luaK_storevar(one.fs, lh[nvars], one.e), SubSeq(lh, 1, nvars - 1))
      ELSE StoreAll(DropSurplus(adjust_assign(es.fs, nvars, es.n, es.e), es.n - nvars), lh)

RECURSIVE assignment(_, _)
NextTarget(nv, lh) ==
  LET cc == IF nv.e.k = "VLOCAL" THEN check_conflict(nv.fs, lh, nv.e) ELSE [fs |-> nv.fs, lh |-> lh]
  IN  assignment(luaY_checklimit(cc.fs, Len(lh), MaxCCalls - cc.fs.level), Append(cc.lh, nv.e))
assignment(fs, lh) ==
  LET var == lh[Len(lh)].k \in {"VLOCAL", "VUPVAL", "VGLOBAL", "VINDEXED"}
      g  == IF var THEN fs ELSE Error(fs)
  IN  IF token(g) = "," THEN NextTarget(primaryexp(luaX_next(g)), lh)
      ELSE AssignList(explist1(checknext(g, "=")), lh)

(* [fs, l]: l is the list of jumps taken when the condition is false. *)
FalseJump(g) == [fs |-> g.fs, l |-> g.e.f]
cond(fs) ==
  LET v == expr(fs)
  IN  FalseJump(luaK_goiftrue(v.fs, [v.e EXCEPT !.k = IF @ = "VNIL" THEN "VFALSE" ELSE @]))

breakstat(fs) ==
  LET loops == {i \in DOMAIN fs.bl : fs.bl[i].isbreakable}
      at == CHOOSE i \in loops : \A j \in loops : j <= i
      upval == \E j \in DOMAIN fs.bl : j > at /\ fs.bl[j].upval
      g == IF upval THEN luaK_codeABC(fs, "CLOSE", fs.bl[at].nactvar, 0, 0) ELSE fs
      j == luaK_jump(g)
      c == luaK_concat(j.fs, j.fs.bl[at].breaklist, j.l)
  IN  IF loops = {} THEN Error(fs) ELSE [c.fs EXCEPT !.bl[at].breaklist = c.l]

JumpBack(fs, target) == LET j == luaK_jump(fs) IN luaK_patchlist(j.fs, j.l, target)

\* Mutant: the exits of the condition are patched to the start of the loop.
WhileForever(fs) ==
  LET g == luaK_getlabel(luaX_next(fs))
      c == cond(g)
      b == block(checknext(enterblock(c.fs, TRUE), "do"))
      e == leaveblock(checknext(JumpBack(b, pc(g)), "end"))
  IN  luaK_patchlist(e, c.l, pc(g))
whilestat(fs) ==
  LET g == luaK_getlabel(luaX_next(fs))
      c == cond(g)
      b == block(checknext(enterblock(c.fs, TRUE), "do"))
      e == leaveblock(checknext(JumpBack(b, pc(g)), "end"))
  IN  luaK_patchtohere(e, c.l)

RepeatFrom(c, start) ==
  LET simple == luaK_patchlist(leaveblock(c.fs), c.l, start)
      full == JumpBack(leaveblock(luaK_patchtohere(breakstat(c.fs), c.l)), start)
  IN  leaveblock(IF Block(c.fs).upval THEN full ELSE simple)
repeatstat(fs) ==
  LET b == chunk(luaX_next(enterblock(enterblock(luaK_getlabel(fs), TRUE), FALSE)))
  IN  RepeatFrom(cond(checknext(b, "until")), pc(fs))

exp1(fs) == LET v == expr(fs) IN luaK_exp2nextreg(v.fs, v.e).fs

ItsJump(fs) == [fs |-> fs, l |-> LastPc(fs)]
LoopTo(j, target) == luaK_patchlist(j.fs, j.l, target)
ForLoop(fs, base, nvars, isnum) ==
  IF isnum THEN ItsJump(luaK_codeABx(fs, "FORLOOP", base, NO_JUMP))
  ELSE luaK_jump(luaK_codeABC(fs, "TFORLOOP", base, 0, nvars))
ForFrom(prep, base, nvars, isnum) ==
  LET b == block(luaK_reserveregs(adjustlocalvars(enterblock(prep.fs, FALSE), nvars), nvars))
  IN  LoopTo(ForLoop(luaK_patchtohere(leaveblock(b), prep.l), base, nvars, isnum), prep.l + 1)
forbody(fs, base, nvars, isnum) ==
  LET g == checknext(adjustlocalvars(fs, 3), "do")
  IN  ForFrom(IF isnum THEN ItsJump(luaK_codeABx(g, "FORPREP", base, NO_JUMP)) ELSE luaK_jump(g),
              base, nvars, isnum)

ForStep(fs) ==
  LET one == luaK_numberK(fs, 1)
  IN  IF token(fs) = "," THEN exp1(luaX_next(fs))
      ELSE luaK_reserveregs(luaK_codeABx(one.fs, "LOADK", fs.freereg, one.i), 1)
fornum(fs, varname) ==
  LET vars == new_localvar(new_localvar(new_localvar(new_localvar(fs,
                "(for index)", 0), "(for limit)", 1), "(for step)", 2), varname, 3)
  IN  forbody(ForStep(exp1(checknext(exp1(checknext(vars, "=")), ","))), fs.freereg, 1, TRUE)

RECURSIVE names(_, _)
names(fs, n) ==        \* [fs, n]: the names after the n-th, declared
  LET name == str_checkname(luaX_next(fs))
  IN  IF token(fs) = "," THEN names(new_localvar(name.fs, name.s, n), n + 1) ELSE [fs |-> fs, n |-> n]

ForExps(es) == luaK_checkstack(adjust_assign(es.fs, 3, es.n, es.e), 3)
forlist(fs, indexname) ==
  LET control == new_localvar(new_localvar(new_localvar(fs, "(for generator)", 0),
                                           "(for state)", 1), "(for control)", 2)
      vars == names(new_localvar(control, indexname, 3), 4)
  IN  forbody(ForExps(explist1(checknext(vars.fs, "in"))), fs.freereg, vars.n - 3, FALSE)

forstat(fs) ==
  LET name == str_checkname(luaX_next(enterblock(fs, TRUE)))
      g == CASE token(name.fs) = "=" -> fornum(name.fs, name.s)
             [] token(name.fs) \in {",", "in"} -> forlist(name.fs, name.s)
             [] OTHER -> Error(name.fs)
  IN  leaveblock(checknext(g, "end"))

Then(c) == [fs |-> block(checknext(c.fs, "then")), l |-> c.l]
test_then_block(fs) == Then(cond(luaX_next(fs)))

(* The branches after t, [fs, l]; l are the jumps taken when none was taken yet. *)
RECURSIVE branches(_, _)
Escape(j, escapelist) == luaK_concat(j.fs, escapelist, j.l)
Else(c, flist) ==
  LET else == luaK_patchtohere(c.fs, flist)
  IN  IF token(c.fs) = "elseif" THEN branches(test_then_block(else), c.l)
      ELSE luaK_patchtohere(block(luaX_next(else)), c.l)
branches(t, escapelist) ==
  LET n == luaK_concat(t.fs, escapelist, t.l)
  IN  IF token(t.fs) \in {"elseif", "else"} THEN Else(Escape(luaK_jump(t.fs), escapelist), t.l)
      ELSE luaK_patchtohere(n.fs, n.l)

ifstat(fs) == checknext(branches(test_then_block(fs), NO_JUMP), "end")

StoreIn(var, v) == luaK_storevar(v.fs, var, v.e)

localfunc(fs) ==
  LET name == str_checkname(fs)
      g == new_localvar(name.fs, name.s, 0)
  IN  StoreIn(init_exp("VLOCAL", g.freereg), body(adjustlocalvars(luaK_reserveregs(g, 1), 1), FALSE))

Declare(es, n) == adjustlocalvars(adjust_assign(es.fs, n, es.n, es.e), n)
localstat(fs) ==
  LET name == str_checkname(fs)
      vars == names(new_localvar(name.fs, name.s, 0), 1)
      es == IF token(vars.fs) = "=" THEN explist1(luaX_next(vars.fs))
            ELSE [fs |-> vars.fs, e |-> init_exp("VVOID", 0), n |-> 0]
  IN  Declare(es, vars.n)

RECURSIVE fieldnames(_)
fieldnames(r) == IF token(r.fs) = "." THEN fieldnames(field(r.fs, r.e)) ELSE r

FunctionIn(var, needself) == StoreIn(var.e, body(var.fs, needself))
FunctionNamed(v) ==
  LET needself == token(v.fs) = ":" IN FunctionIn(IF needself THEN field(v.fs, v.e) ELSE v, needself)
funcstat(fs) == FunctionNamed(fieldnames(singlevar(luaX_next(fs))))

exprstat(fs) ==
  LET v == primaryexp(fs)
  IN  IF v.e.k = "VCALL" THEN [v.fs EXCEPT !.code[v.e.info + 1].c = 1]
      ELSE assignment(v.fs, <<v.e>>)

ReturnOne(r)     == luaK_ret(r.fs, r.e.info, 1)
ReturnMany(fs, n) == luaK_ret(Must(fs, n = fs.freereg - fs.nactvar), fs.nactvar, n)
ReturnList(es) ==
  LET multi == luaK_setreturns(es.fs, es.e, LUA_MULTRET)
      tail == [Must(multi, getcode(multi, es.e).a = multi.nactvar)
                 EXCEPT !.code[es.e.info + 1].op = "TAILCALL"]
  IN CASE hasmultret(es.e.k) ->
            luaK_ret(IF es.e.k = "VCALL" /\ es.n = 1 THEN tail ELSE multi, multi.nactvar, LUA_MULTRET)
       [] ~hasmultret(es.e.k) /\ es.n = 1 -> ReturnOne(luaK_exp2anyreg(es.fs, es.e))
       [] OTHER -> ReturnMany(luaK_exp2nextreg(es.fs, es.e).fs, es.n)
retstat(fs) ==
  LET g == luaX_next(fs)
  IN  IF block_follow(token(g)) \/ token(g) = ";" THEN luaK_ret(g, 0, 0) ELSE ReturnList(explist1(g))

statement(fs) ==
  CASE token(fs) = "if"     -> ifstat(fs)
    [] token(fs) = "while"  -> whilestat(fs)
    [] token(fs) = "do"     -> checknext(block(luaX_next(fs)), "end")
    [] token(fs) = "for"    -> forstat(fs)
    [] token(fs) = "repeat" -> repeatstat(fs)
    [] token(fs) = "function" -> funcstat(fs)
    [] token(fs) = "local"  -> LET g == luaX_next(fs)
                               IN  IF token(g) = "function" THEN localfunc(luaX_next(g)) ELSE localstat(g)
    [] token(fs) = "return" -> retstat(fs)
    [] token(fs) = "break"  -> breakstat(luaX_next(fs))
    [] OTHER -> exprstat(fs)

FreeRegs(fs) ==
  [Must(fs, fs.maxstack >= fs.freereg /\ fs.freereg >= fs.nactvar) EXCEPT !.freereg = fs.nactvar]

RECURSIVE statements(_)
MoreStatements(fs, islast) == IF islast THEN fs ELSE statements(fs)
statements(fs) ==
  IF block_follow(token(fs)) THEN fs
  ELSE MoreStatements(FreeRegs(testnext(statement(fs), ";")), token(fs) \in {"return", "break"})

Rule(name, fs, limit) ==
  CASE name = "subexpr"     -> subexpr(fs, limit)
    [] name = "primaryexp"  -> suffixes(prefixexp(fs))
    [] name = "constructor" -> NewTable(luaK_codeABC(fs, "NEWTABLE", 0, 0, 0))
    [] name = "chunk"       -> leavelevel(statements(enterlevel(fs)))
================================================================================
