------------------------------- MODULE LuaMeaning -------------------------------
(***************************************************************************)
(* A reference for the compiler and the interpreter: what a Lua program    *)
(* means, defined on its syntax tree, and the tokens it is written with.   *)
(* No code is modelled here.                                               *)
(*                                                                         *)
(* Expressions: <<"nil">>, <<"true">>, <<"false">>, <<"num", n>>,          *)
(*   <<"str", s>>, <<"var", x>>, <<"...">>, <<"un", op, e>>,               *)
(*   <<"bin", op, a, b>>, <<"call", f, args>>, <<"method", o, x, args>>,   *)
(*   <<"index", t, k>>, <<"fn", params, dots, body>>, <<"table", items>>   *)
(*   with items <<"item", e>> and <<"rec", k, e>>                          *)
(* Statements: <<"local", xs, es>>, <<"assign", vs, es>>, <<"do", e>> (a   *)
(*   call), <<"block", b>>, <<"while", e, b>>, <<"repeat", b, e>>,         *)
(*   <<"if", <<<<e, b>>, ...>>, b>>, <<"for", x, a, z, step, b>>,          *)
(*   <<"forin", xs, es, b>>, <<"localfn", x, f>>, <<"return", es>>,        *)
(*   <<"break">>                                                           *)
(* A variable is a cell of the store; two closures that see one variable   *)
(* have one cell.                                                          *)
(***************************************************************************)
EXTENDS Integers, Sequences, SequencesExt

LOCAL W(t) == [t |-> t, v |-> 0]
LOCAL Name(x) == [t |-> "NAME", v |-> x]

RECURSIVE Tokens(_), Block_(_), Statement_(_)

(* The sequences of ss with sep between them. *)
LOCAL Joined(ss, sep) ==
  FoldLeft(LAMBDA acc, s : IF acc = <<>> THEN s ELSE acc \o <<W(sep)>> \o s, <<>>, ss)
LOCAL Each(Op(_), s) == [n \in DOMAIN s |-> Op(s[n])]
LOCAL List(es) == Joined(Each(Tokens, es), ",")
LOCAL Names(xs) == Joined(Each(LAMBDA x : <<Name(x)>>, xs), ",")
LOCAL Paren(e) == <<W("(")>> \o Tokens(e) \o <<W(")")>>

(* How tightly an expression binds, as the manual lists the operators. *)
LOCAL Level(e) ==
  CASE e[1] = "un" -> 7
    [] e[1] = "bin" -> (CASE e[2] = "or" -> 1 [] e[2] = "and" -> 2
                          [] e[2] \in {"<", "<=", ">", ">=", "==", "~="} -> 3
                          [] e[2] = ".." -> 4 [] e[2] \in {"+", "-"} -> 5
                          [] e[2] \in {"*", "/", "%"} -> 6 [] e[2] = "^" -> 8)
    [] OTHER -> 9
LOCAL RightAssociative(op) == op \in {"..", "^"}
LOCAL At(e, level) == IF Level(e) >= level THEN Tokens(e) ELSE Paren(e)
LOCAL Prefix(e) == IF e[1] \in {"var", "call", "method", "index"} THEN Tokens(e) ELSE Paren(e)

LOCAL Body(params, dots, body) ==
  <<W("(")>> \o Joined(Each(LAMBDA x : <<Name(x)>>, params) \o (IF dots THEN <<<<W("...")>>>> ELSE <<>>), ",")
    \o <<W(")")>> \o Block_(body) \o <<W("end")>>

Tokens(e) ==
  CASE e[1] \in {"nil", "true", "false", "..."} -> <<W(e[1])>>
    [] e[1] = "num" -> <<[t |-> "NUMBER", v |-> e[2]]>>
    [] e[1] = "str" -> <<[t |-> "STRING", v |-> e[2]]>>
    [] e[1] = "var" -> <<Name(e[2])>>
    [] e[1] = "un"  -> <<W(e[2])>> \o At(e[3], 7)
    [] e[1] = "bin" -> LET l == Level(e) IN
         At(e[3], IF RightAssociative(e[2]) THEN l + 1 ELSE l) \o <<W(e[2])>>
           \o (IF e[2] = "^" /\ e[4][1] = "un" THEN Tokens(e[4])
               ELSE At(e[4], IF RightAssociative(e[2]) THEN l ELSE l + 1))
    [] e[1] = "paren" -> Paren(e[2])
    [] e[1] = "call" -> Prefix(e[2]) \o <<W("(")>> \o List(e[3]) \o <<W(")")>>
    [] e[1] = "method" -> Prefix(e[2]) \o <<W(":"), Name(e[3]), W("(")>> \o List(e[4]) \o <<W(")")>>
    [] e[1] = "index" -> Prefix(e[2]) \o (IF e[3][1] = "str" THEN <<W("."), Name(e[3][2])>>
                                          ELSE <<W("[")>> \o Tokens(e[3]) \o <<W("]")>>)
    [] e[1] = "fn" -> <<W("function")>> \o Body(e[2], e[3], e[4])
    [] e[1] = "table" ->
         LET Item(i) == CASE i[1] = "item" -> Tokens(i[2])
                          [] i[1] = "rec" /\ i[2][1] = "str" -> <<Name(i[2][2]), W("=")>> \o Tokens(i[3])
                          [] OTHER -> <<W("[")>> \o Tokens(i[2]) \o <<W("]"), W("=")>> \o Tokens(i[3])
         IN  <<W("{")>> \o Joined(Each(Item, e[2]), ",") \o <<W("}")>>

Statement_(s) ==
  CASE s[1] = "local" -> <<W("local")>> \o Names(s[2])
                           \o (IF s[3] = <<>> THEN <<>> ELSE <<W("=")>> \o List(s[3]))
    [] s[1] = "assign" -> List(s[2]) \o <<W("=")>> \o List(s[3])
    [] s[1] = "do" -> Tokens(s[2])
    [] s[1] = "block" -> <<W("do")>> \o Block_(s[2]) \o <<W("end")>>
    [] s[1] = "while" -> <<W("while")>> \o Tokens(s[2]) \o <<W("do")>> \o Block_(s[3]) \o <<W("end")>>
    [] s[1] = "repeat" -> <<W("repeat")>> \o Block_(s[2]) \o <<W("until")>> \o Tokens(s[3])
    [] s[1] = "if" ->
         LET Arm(n) == <<W(IF n = 1 THEN "if" ELSE "elseif")>> \o Tokens(s[2][n][1]) \o <<W("then")>>
                         \o Block_(s[2][n][2])
         IN  FlattenSeq([n \in DOMAIN s[2] |-> Arm(n)])
               \o (IF s[3] = <<>> THEN <<>> ELSE <<W("else")>> \o Block_(s[3])) \o <<W("end")>>
    [] s[1] = "for" -> <<W("for"), Name(s[2]), W("=")>>
                         \o List(<<s[3], s[4]>> \o (IF s[5] = <<>> THEN <<>> ELSE <<s[5]>>))
                         \o <<W("do")>> \o Block_(s[6]) \o <<W("end")>>
    [] s[1] = "forin" -> <<W("for")>> \o Names(s[2]) \o <<W("in")>> \o List(s[3])
                           \o <<W("do")>> \o Block_(s[4]) \o <<W("end")>>
    [] s[1] = "localfn" -> <<W("local"), W("function"), Name(s[2])>> \o Body(s[3][2], s[3][3], s[3][4])
    [] s[1] = "fnstat" -> <<W("function")>>
         \o (IF s[2][1] = "method" THEN Tokens(s[2][2]) \o <<W(":"), Name(s[2][3])>> ELSE Tokens(s[2]))
         \o Body(s[3][2], s[3][3], s[3][4])
    [] s[1] = "return" -> <<W("return")>> \o List(s[2])
    [] s[1] = "break" -> <<W("break")>>

Block_(b) == FlattenSeq(Each(LAMBDA s : Statement_(s) \o <<W(";")>>, b))

(* The tokens of a program. *)
Source(b) == Block_(b) \o <<W("EOS")>>
--------------------------------------------------------------------------------
(* The store s: [cells, tabs, fns, trace, err].  Ev returns [v, s], the    *)
(* values of an expression; Run returns [env, s, sig, v].                  *)
LOCAL Nil_ == <<"nil">>
LOCAL B(b) == <<"bool", b>>
LOCAL No(v) == v \in {Nil_, B(FALSE)}
LOCAL First(vs) == IF vs = <<>> THEN Nil_ ELSE vs[1]
LOCAL V(vs, s) == [v |-> vs, s |-> s]
LOCAL Err(s) == V(<<Nil_>>, [s EXCEPT !.err = TRUE])

RECURSIVE Means(_, _, _, _)      \* what an expression, a statement, a block or a call means
LOCAL Ev(e, env, s)       == Means("exp", e, env, s)
LOCAL Run(x, env, s)      == Means("stat", x, env, s)
LOCAL RunBlock(b, env, s) == Means("block", b, env, s)
LOCAL Apply(f, args, s)   == Means("call", f, args, s)

LOCAL One(e, env, s) == LET r == Ev(e, env, s) IN [v |-> First(r.v), s |-> r.s]
LOCAL Multi(e) == e[1] \in {"call", "method", "..."}

(* The values of a list: the last expression may give many. *)
RECURSIVE EvList(_, _, _)
EvList(es, env, s) ==
  LET r == Ev(es[1], env, s)
      q == EvList(Tail(es), env, r.s)
  IN  IF es = <<>> THEN V(<<>>, s)
      ELSE IF Len(es) = 1 THEN (IF Multi(es[1]) THEN r ELSE V(<<First(r.v)>>, r.s))
      ELSE V(<<First(r.v)>> \o q.v, q.s)

LOCAL Nth(vs, n) == IF n <= Len(vs) THEN vs[n] ELSE Nil_
LOCAL Fill(vs, n) == [i \in 1..n |-> Nth(vs, i)]

(* env with the names xs in new cells that hold vs. *)
LOCAL Bind(xs, vs, env, s) ==
  [env |-> [x \in DOMAIN env \cup {xs[i] : i \in DOMAIN xs} |->
              IF \E i \in DOMAIN xs : xs[i] = x
              THEN Len(s.cells) + (CHOOSE i \in DOMAIN xs : xs[i] = x /\ \A j \in DOMAIN xs : xs[j] = x => j <= i)
              ELSE env[x]],
   s |-> [s EXCEPT !.cells = @ \o Fill(vs, Len(xs))]]

LOCAL Number(v) == v[1] = "num"
LOCAL Text(v) == IF Number(v) THEN ToString(v[2]) ELSE v[2]
LOCAL Binop(op, a, b, s) ==
  CASE op = "==" -> V(<<B(a = b)>>, s)
    [] op = "~=" -> V(<<B(a # b)>>, s)
    [] op = ".." -> IF {a[1], b[1]} \subseteq {"num", "str"} THEN V(<<<<"str", Text(a) \o Text(b)>>>>, s) ELSE Err(s)
    [] OTHER ->
         IF ~(Number(a) /\ Number(b)) THEN Err(s)
         ELSE LET x == a[2]
                  y == b[2]
                  N(n) == V(<<<<"num", n>>>>, s)
              IN CASE op = "<" -> V(<<B(x < y)>>, s) [] op = "<=" -> V(<<B(x <= y)>>, s)
                   [] op = ">" -> V(<<B(x > y)>>, s) [] op = ">=" -> V(<<B(x >= y)>>, s)
                   [] op = "+" -> N(x + y) [] op = "-" -> N(x - y) [] op = "*" -> N(x * y)
                   [] op = "/" -> N(x \div y) [] op = "%" -> N(x % y) [] op = "^" -> N(x ^ y)

LOCAL Lookup(t, k, s) == IF k \in DOMAIN s.tabs[t] THEN s.tabs[t][k] ELSE Nil_
LOCAL Update(t, k, v, s) ==
  [s EXCEPT !.tabs[t] = [x \in (IF v = Nil_ THEN DOMAIN @ \ {k} ELSE DOMAIN @ \cup {k}) |->
                           IF x = k THEN v ELSE @[x]]]
LOCAL Count(t) == CHOOSE n \in 0..Cardinality(DOMAIN t) :
                    <<"num", n + 1>> \notin DOMAIN t /\ \A m \in 1..n : <<"num", m>> \in DOMAIN t

LOCAL Builtin(name, args, s) ==
  CASE name = "echo" -> V(args, [s EXCEPT !.trace = Append(@, args)])
    [] name = "upto" -> LET n == IF args[2] = Nil_ THEN 1 ELSE args[2][2] + 1
                        IN  V(IF n > args[1][2] THEN <<>> ELSE <<<<"num", n>>, <<"num", n * 10>>>>, s)

LOCAL Call_(f, args, s) ==
  IF s.err THEN V(<<>>, s)
  ELSE IF f[1] = "c" THEN Builtin(f[2], args, s)
  ELSE IF f[1] # "fn" THEN Err(s)
  ELSE LET fn == s.fns[f[2]]
           n  == Len(fn.params)
           env == [fn.env EXCEPT !["..."] = SubSeq(args, n + 1, Len(args))]
           b  == Bind(fn.params, args, env, s)
           r  == RunBlock(fn.body, b.env, b.s)
       IN  V(r.v, r.s)

LOCAL Exp(e, env, s) ==
  IF s.err THEN V(<<Nil_>>, s) ELSE
  CASE e[1] = "nil" -> V(<<Nil_>>, s)
    [] e[1] = "true" -> V(<<B(TRUE)>>, s)
    [] e[1] = "false" -> V(<<B(FALSE)>>, s)
    [] e[1] \in {"num", "str"} -> V(<<e>>, s)
    [] e[1] = "..." -> V(env["..."], s)
    [] e[1] = "var" -> V(<<IF e[2] \in DOMAIN env THEN s.cells[env[e[2]]] ELSE Lookup(1, <<"str", e[2]>>, s)>>, s)
    [] e[1] = "paren" -> LET r == One(e[2], env, s) IN V(<<r.v>>, r.s)
    [] e[1] = "un" ->
         LET r == One(e[3], env, s)
         IN  IF r.s.err THEN Err(r.s)
             ELSE (CASE e[2] = "not" -> V(<<B(No(r.v))>>, r.s)
                     [] e[2] = "-" -> IF Number(r.v) THEN V(<<<<"num", -r.v[2]>>>>, r.s) ELSE Err(r.s)
                     [] e[2] = "#" -> IF r.v[1] = "tab" THEN V(<<<<"num", Count(r.s.tabs[r.v[2]])>>>>, r.s)
                                      ELSE IF r.v[1] = "str" THEN V(<<<<"num", Len(r.v[2])>>>>, r.s) ELSE Err(r.s))
    [] e[1] = "bin" ->
         LET a == One(e[3], env, s)
             b == One(e[4], env, a.s)
         IN  IF e[2] \in {"and", "or"}
             THEN IF No(a.v) = (e[2] = "and") THEN V(<<a.v>>, a.s) ELSE V(<<b.v>>, b.s)
             ELSE IF b.s.err THEN V(<<Nil_>>, b.s) ELSE Binop(e[2], a.v, b.v, b.s)
    [] e[1] = "call" ->
         LET f == One(e[2], env, s)
             a == EvList(e[3], env, f.s)
         IN  Apply(f.v, a.v, a.s)
    [] e[1] = "method" ->
         LET o == One(e[2], env, s)
             ok == ~o.s.err /\ o.v[1] = "tab"
             a == EvList(e[4], env, o.s)
         IN  IF ok THEN Apply(Lookup(o.v[2], <<"str", e[3]>>, o.s), <<o.v>> \o a.v, a.s) ELSE Err(o.s)
    [] e[1] = "index" ->
         LET t == One(e[2], env, s)
             k == One(e[3], env, t.s)
         IN  IF k.s.err \/ t.v[1] # "tab" THEN Err(k.s) ELSE V(<<Lookup(t.v[2], k.v, k.s)>>, k.s)
    [] e[1] = "fn" ->
         V(<<<<"fn", Len(s.fns) + 1>>>>,
           [s EXCEPT !.fns = Append(@, [params |-> e[2], body |-> e[4], env |-> env])])
    [] e[1] = "table" ->
         LET t == Len(s.tabs) + 1
             new == [s EXCEPT !.tabs = Append(@, [k \in {} |-> Nil_])]
             Add(acc, i) ==
               LET k == One(i[2], env, acc.s)
                   v == IF i[1] = "rec" THEN One(i[3], env, k.s) ELSE k
                   vs == Ev(i[2], env, acc.s)
                   last == i = e[2][Len(e[2])] /\ Multi(i[2])
                   Put(st, m, x) == Update(t, <<"num", m>>, x, st)
               IN CASE i[1] = "rec" -> [acc EXCEPT !.s = Update(t, k.v, v.v, v.s)]
                    [] i[1] = "item" /\ ~last -> [n |-> acc.n + 1, s |-> Put(k.s, acc.n + 1, k.v)]
                    [] OTHER -> [n |-> acc.n + Len(vs.v),
                                 s |-> FoldLeft(LAMBDA st, m : Put(st, acc.n + m, vs.v[m]), vs.s,
                                                [m \in DOMAIN vs.v |-> m])]
         IN  V(<<<<"tab", t>>>>, FoldLeft(Add, [n |-> 0, s |-> new], e[2]).s)

LOCAL Going(env, s) == [env |-> env, s |-> s, sig |-> "go", v |-> <<>>]

(* Where an assignment goes: a cell, or an entry of a table. *)
LOCAL Place(e, env, s) ==
  LET t == One(e[2], env, s)
      k == One(e[3], env, t.s)
  IN CASE e[1] = "var" /\ e[2] \in DOMAIN env -> [p |-> <<"cell", env[e[2]]>>, s |-> s]
       [] e[1] = "var" /\ e[2] \notin DOMAIN env -> [p |-> <<"entry", <<"tab", 1>>, <<"str", e[2]>>>>, s |-> s]
       [] OTHER -> [p |-> <<"entry", t.v, k.v>>, s |-> k.s]

LOCAL Assign(p, v, s) ==
  CASE s.err -> s
    [] ~s.err /\ p[1] = "cell" -> [s EXCEPT !.cells[p[2]] = v]
    [] OTHER -> IF p[2][1] = "tab" /\ p[3] # Nil_ THEN Update(p[2][2], p[3], v, s) ELSE [s EXCEPT !.err = TRUE]

RECURSIVE Loop(_, _, _, _)
Loop(kind, x, env, s) ==      \* kind "while" and "repeat": x is the statement
  LET c == One(x[2], env, s)
      b == RunBlock(x[3], env, c.s)
      r == RunBlock(x[2], env, s)
      u == One(x[3], r.env, r.s)
  IN  CASE s.err -> Going(env, s)
        [] ~s.err /\ kind = "while" ->
             IF No(c.v) THEN Going(env, c.s)
             ELSE IF b.sig = "break" THEN Going(env, b.s)
             ELSE IF b.sig = "ret" THEN b ELSE Loop(kind, x, env, b.s)
        [] OTHER ->
             IF r.sig = "break" THEN Going(env, r.s)
             ELSE IF r.sig = "ret" THEN r
             ELSE IF No(u.v) THEN Loop(kind, x, env, u.s) ELSE Going(env, u.s)

RECURSIVE For(_, _, _, _, _, _)
For(x, at, limit, step, env, s) ==
  LET b == Bind(<<x[2]>>, <<<<"num", at>>>>, env, s)
      r == RunBlock(x[6], b.env, b.s)
  IN  IF s.err \/ (IF step > 0 THEN at > limit ELSE at < limit) THEN Going(env, s)
      ELSE IF r.sig = "break" THEN Going(env, r.s)
      ELSE IF r.sig = "ret" THEN r ELSE For(x, at + step, limit, step, env, r.s)

RECURSIVE ForIn(_, _, _, _, _, _)
ForIn(x, f, st, ctl, env, s) ==
  LET a == Apply(f, <<st, ctl>>, s)
      b == Bind(x[2], a.v, env, a.s)
      r == RunBlock(x[4], b.env, b.s)
  IN  IF a.s.err \/ First(a.v) = Nil_ THEN Going(env, a.s)
      ELSE IF r.sig = "break" THEN Going(env, r.s)
      ELSE IF r.sig = "ret" THEN r ELSE ForIn(x, f, st, First(a.v), env, r.s)

LOCAL Stat(x, env, s) ==
  CASE x[1] = "local" ->
         LET vs == EvList(x[3], env, s)
             b  == Bind(x[2], vs.v, env, vs.s)
         IN  Going(b.env, b.s)
    [] x[1] = "assign" ->
         LET places == FoldLeft(LAMBDA r, e : LET p == Place(e, env, r.s)
                                              IN  [ps |-> Append(r.ps, p.p), s |-> p.s],
                                [ps |-> <<>>, s |-> s], x[2])
             vs == EvList(x[3], env, places.s)
             to == [n \in DOMAIN places.ps |-> <<places.ps[n], Nth(vs.v, n)>>]
         IN  IF vs.s.err THEN Going(env, vs.s)
             ELSE Going(env, FoldRight(LAMBDA p, st : Assign(p[1], p[2], st), to, vs.s))
    [] x[1] = "do" -> Going(env, Ev(x[2], env, s).s)
    [] x[1] = "block" -> [RunBlock(x[2], env, s) EXCEPT !.env = env]
    [] x[1] \in {"while", "repeat"} -> [Loop(x[1], x, env, s) EXCEPT !.env = env]
    [] x[1] = "if" ->
         LET c == One(x[2][1][1], env, s)
             rest == <<"if", Tail(x[2]), x[3]>>
         IN  IF x[2] = <<>> THEN [RunBlock(x[3], env, s) EXCEPT !.env = env]
             ELSE IF No(c.v) THEN Run(rest, env, c.s)
             ELSE [RunBlock(x[2][1][2], env, c.s) EXCEPT !.env = env]
    [] x[1] = "for" ->
         LET vs == EvList(<<x[3], x[4]>> \o (IF x[5] = <<>> THEN <<>> ELSE <<x[5]>>), env, s)
             step == IF x[5] = <<>> THEN 1 ELSE vs.v[3][2]
         IN  IF vs.s.err \/ ~(\A n \in DOMAIN vs.v : Number(vs.v[n])) THEN Going(env, Err(vs.s).s)
             ELSE [For(x, vs.v[1][2], vs.v[2][2], step, env, vs.s) EXCEPT !.env = env]
    [] x[1] = "forin" ->
         LET vs == EvList(x[3], env, s)
         IN  [ForIn(x, Nth(vs.v, 1), Nth(vs.v, 2), Nth(vs.v, 3), env, vs.s) EXCEPT !.env = env]
    [] x[1] = "localfn" ->
         LET b == Bind(<<x[2]>>, <<>>, env, s)
             f == Ev(x[3], b.env, b.s)
         IN  Going(b.env, [f.s EXCEPT !.cells[b.env[x[2]]] = f.v[1]])
    [] x[1] = "fnstat" ->
         LET self == x[2][1] = "method"
             p == Place(IF self THEN <<"index", x[2][2], <<"str", x[2][3]>>>> ELSE x[2], env, s)
             f == Ev(IF self THEN [x[3] EXCEPT ![2] = <<"self">> \o @] ELSE x[3], env, p.s)
         IN  Going(env, Assign(p.p, f.v[1], f.s))
    [] x[1] = "return" -> LET vs == EvList(x[2], env, s) IN [env |-> env, s |-> vs.s, sig |-> "ret", v |-> vs.v]
    [] x[1] = "break" -> [Going(env, s) EXCEPT !.sig = "break"]
LOCAL Rest(b, r) == IF r.sig = "go" THEN RunBlock(Tail(b), r.env, r.s) ELSE r

Means(kind, x, env, s) ==
  CASE kind = "exp" -> Exp(x, env, s)
    [] kind = "stat" -> Stat(x, env, s)
    [] kind = "call" -> Call_(x, env, s)
    [] kind = "block" -> IF x = <<>> \/ s.err THEN Going(env, s) ELSE Rest(x, Run(x[1], env, s))

(* What a program does: its calls of echo, and what it returns. *)
Meaning(b, globals) ==
  LET r == RunBlock(b, "..." :> <<>>,
                    [cells |-> <<>>, tabs |-> <<globals>>, fns |-> <<>>, trace |-> <<>>, err |-> FALSE])
  IN  [trace |-> r.s.trace, err |-> r.s.err, v |-> r.v]
================================================================================
