------------------------------- MODULE LuaSamples -------------------------------
(***************************************************************************)
(* Programs for the compiler: expressions of one operator over a few       *)
(* leaves, and of two logical operators over fewer, in the places where    *)
(* the code generator treats them differently, and for each statement the  *)
(* combinations of scopes, closures and exits that its code must get right.*)
(***************************************************************************)
EXTENDS LuaMeaning

x == <<"var", "x">>
y == <<"var", "y">>
z == <<"var", "z">>
f == <<"var", "f">>
t == <<"var", "t">>
Null == <<"nil">>
True == <<"true">>
False == <<"false">>
N(n) == <<"num", n>>
S(s) == <<"str", s>>
Fn(params, body) == <<"fn", params, FALSE, body>>
Dots(params, body) == <<"fn", params, TRUE, body>>
Call(fn, args) == <<"call", fn, args>>
Echo(es) == Call(<<"var", "echo">>, es)
Do(es) == <<"do", Echo(es)>>
Run_(fn) == <<"do", Call(fn, <<>>)>>
Let(v, e) == <<"local", <<v>>, <<e>>>>
Put(v, e) == <<"assign", <<v>>, <<e>>>>
Bin(op, a, b) == <<"bin", op, a, b>>
Not(e) == <<"un", "not", e>>
Ix(e, k) == <<"index", e, k>>
Return(es) == <<"return", es>>
If(e, then, else) == <<"if", <<<<e, then>>>>, else>>
Break == <<"break">>
Table(es) == <<"table", [n \in DOMAIN es |-> <<"item", es[n]>>]>>
--------------------------------------------------------------------------------
(* Expressions.  A call of echo shows when it is evaluated. *)
Leaves == {Null, False, True, N(1), x, Echo(<<N(2)>>)}
Few    == {False, N(1), Echo(<<x>>)}
Logic  == {"and", "or", "=="}
Depth1 == {Bin(op, a, b) : op \in Logic \cup {"~="}, a \in Leaves, b \in Leaves}
            \cup {Bin(op, a, b) : op \in {"+", "-", "*", "<", ">=", ".."},
                                  a \in {N(1), N(3), x, S("s")}, b \in {N(2), x, Echo(<<N(3)>>)}}
Depth2 == {Bin(op, Bin(p, a, b), c) : op \in Logic, p \in Logic, a \in Few, b \in Few, c \in Few}
            \cup {Bin(op, a, Bin(p, b, c)) : op \in Logic, p \in Logic, a \in Few, b \in Few, c \in Few}
Depth2Not == {Bin(op, Not(Bin(p, a, b)), c) : op \in {"and", "or"}, p \in Logic, a \in Few, b \in Few, c \in Few}
            \cup {Bin(op, c, Not(Bin(p, a, b))) : op \in {"and", "or"}, p \in Logic, a \in Few, b \in Few, c \in Few}
(* Arithmetic with every pair of operators, for the priorities. *)
Chains == {Bin(op, Bin(p, N(7), x), N(2)) : op \in {"+", "-", "*", "%", ".."}, p \in {"+", "-", "*", "..", "^"}}
            \cup {Bin(op, x, Bin(p, N(3), x)) : op \in {"+", "-", "*", ".."}, p \in {"+", "*", "^", ".."}}
            \cup {Bin("^", N(2), Bin(p, x, N(1))) : p \in {"+", "*", "^"}}
            \cup {<<"un", "-", Bin("^", x, N(2))>>, Bin("^", <<"un", "-", x>>, N(2)),
                  Bin("^", N(2), <<"un", "#", S("abc")>>), Not(Bin("==", x, <<"un", "-", N(2)>>))}
(* Places for an expression. *)
Places(e, n) ==
  CASE n = 0 -> << Let("x", N(7)), Let("y", e), Do(<<y, x>>) >>
    [] n = 1 -> << Let("x", False), If(e, <<Do(<<N(1)>>)>>, <<Do(<<N(2)>>)>>) >>
    [] n = 2 -> << Let("x", Null), Put(x, e), Return(<<x>>) >>
    [] n = 3 -> << Let("x", N(4)), Return(<<e>>) >>
InPlaces == {Places(e, n) : e \in Depth1 \cup Chains, n \in 0..3}
              \cup {Places(Not(e), n) : e \in Depth1, n \in {1, 3}}
              \cup {Places(e, n) : e \in Depth2, n \in 0..1}
              \cup {Places(e, n) : e \in Depth2Not, n \in 2..3}

(* Three operators over constants: the jumps of the first reach past a jump that is always taken. *)
Constants == {Null, False, True, N(1)}
Depth3 == {Places(Bin("and", Bin("or", Bin("and", a, b), c), d), 3) : a, b, c, d \in Constants}

--------------------------------------------------------------------------------
(* Statements.  Every loop runs its body three times, the body declares a  *)
(* local that a closure may capture, and may break; the closures that were *)
(* kept are called afterwards. *)
Keep(captured) == IF captured THEN <<"assign", <<Ix(t, x)>>, <<Fn(<<>>, <<Put(y, Bin("+", y, N(1))), Return(<<y>>)>>)>>>>
                  ELSE Put(Ix(t, x), y)
LoopBody(captured, exits) ==
  << Let("y", Bin("*", x, N(10))), Keep(captured),
     If(exits, <<Do(<<y>>), Break>>, <<>>), Put(y, Bin("+", y, N(5))) >>
Loops(captured, exits, kind) ==
  LET body == LoopBody(captured, exits) IN
  CASE kind = 0 -> << Let("x", N(0)),
                      <<"while", Bin("<", x, N(3)), <<Put(x, Bin("+", x, N(1)))>> \o body>> >>
    [] kind = 1 -> << Let("x", N(0)),
                      <<"repeat", <<Put(x, Bin("+", x, N(1)))>> \o body, Bin(">=", y, N(35))>> >>
    [] kind = 2 -> << <<"for", "x", N(1), N(3), <<>>, body>> >>
    [] kind = 3 -> << <<"for", "x", N(3), N(1), N(-1), body>> >>
    [] kind = 4 -> << <<"forin", <<"x", "z">>, <<<<"var", "upto">>, N(3)>>, body \o <<Do(<<z>>)>>>> >>
    [] kind = 5 -> << <<"localfn", "f", Fn(<<"a", "c">>, <<If(Bin("==", <<"var", "c">>, N(3)), <<Return(<<>>)>>, <<>>),
                         Return(<<Bin("+", Bin("or", <<"var", "c">>, N(0)), N(1)), <<"var", "a">>>>)>>)>>,
                      <<"forin", <<"x">>, <<f, N(9)>>, body>> >>
Use(captured) ==
  <<"for", "x", N(1), <<"un", "#", t>>, <<>>,
     << IF captured THEN Do(<<Call(Ix(t, x), <<>>), Call(Ix(t, x), <<>>)>>) ELSE Do(<<Ix(t, x)>>) >> >>
LoopPrograms ==
  { << Let("t", Table(<<>>)), <<"block", Loops(c, e, k)>>, Use(c) >> :
      c \in BOOLEAN, e \in {False, True, Bin("==", x, N(2))}, k \in 0..5 }
  
Args == <<"...">>
Statements ==
  { \* multiple assignment, with a local that is also a table and an index
    << <<"local", <<"x", "y">>, <<Table(<<N(5), N(6)>>), N(1)>>>>,
       <<"assign", <<Ix(x, y), y>>, <<N(8), N(2)>>>>, Do(<<y, Ix(x, N(1)), Ix(x, N(2))>>) >>,
    << <<"local", <<"x", "y">>, <<Table(<<N(5), N(6)>>), N(1)>>>>, Let("z", x),
       <<"assign", <<y, Ix(x, y), x>>, <<N(2), N(8), N(3)>>>>, Do(<<x, y, Ix(z, N(1)), Ix(z, N(2))>>) >>,
    << <<"local", <<"x", "y", "z">>, <<N(1), N(2), N(3)>>>>,
       <<"assign", <<x, y, z>>, <<z, x>>>>, Do(<<x, y, z>>),
       <<"assign", <<x, y>>, <<y, x, Echo(<<N(1)>>)>>>>, Do(<<x, y>>),
       <<"assign", <<x, y>>, <<Echo(<<N(4), N(5), N(6)>>)>>>>, Return(<<x, y>>) >>,
    \* upvalues of upvalues, shared by two closures; a recursive function; a tail call
    << Let("x", N(1)),
       Let("f", Fn(<<>>, <<Let("y", N(10)), Return(<<Fn(<<>>, <<Put(x, Bin("+", x, y)), Put(y, Bin("+", y, N(1))), Return(<<x>>)>>),
                                                     Fn(<<>>, <<Return(<<y>>)>>)>>)>>)),
       <<"local", <<"y", "z">>, <<Call(f, <<>>)>>>>,
       Do(<<Call(y, <<>>), Call(y, <<>>), Call(z, <<>>), x>>) >>,
    << <<"localfn", "f", Fn(<<"x">>, <<If(Bin("<", x, N(1)), <<Return(<<N(1)>>)>>, <<>>),
                                       Return(<<Bin("*", x, Call(f, <<Bin("-", x, N(1))>>))>>)>>)>>,
       Return(<<Call(f, <<N(3)>>)>>) >>,
    << <<"localfn", "f", Fn(<<"x", "y">>, <<Let("z", Fn(<<>>, <<Return(<<x>>)>>)),
                              If(Bin("==", x, N(0)), <<Return(<<y, Echo(<<y>>)>>)>>, <<>>),
                              Return(<<Call(f, <<Bin("-", x, N(1)), Call(z, <<>>)>>)>>)>>)>>,
       Return(<<Call(f, <<N(3)>>)>>) >>,
    << Let("f", Fn(<<"x">>, <<Return(<<Echo(<<x, x>>)>>)>>)), Do(<<Call(f, <<N(1)>>), Call(f, <<N(2)>>)>>),
       Do(<<<<"paren", Call(f, <<N(3)>>)>>>>) >>,
    \* varargs
    << Let("f", Dots(<<"x">>, <<<<"local", <<"y", "z">>, <<Args>>>>, Do(<<x, y, z>>), Return(<<x, Args>>)>>)),
       Do(<<Call(f, <<>>)>>), Do(<<Call(f, <<N(1)>>)>>), Do(<<Call(f, <<N(1), N(2), N(3), N(4)>>), N(5)>>),
       Do(<<N(0), Call(f, <<N(1), N(2), N(3), N(4)>>)>>) >>,
    << Let("f", Dots(<<>>, <<Return(<<Table(<<N(9), Args>>), <<"un", "#", Table(<<Args>>)>>, <<"paren", Args>>>>)>>)),
       <<"local", <<"x", "y", "z">>, <<Call(f, <<N(4), N(5), N(6)>>)>>>>,
       Do(<<<<"un", "#", x>>, Ix(x, N(4)), y, z>>) >>,
    \* constructors longer than a flush, with records and open calls
    << Let("x", <<"table", <<<<"item", N(1)>>, <<"rec", S("x"), N(7)>>, <<"item", N(2)>>, <<"item", N(3)>>,
                             <<"rec", N(9), Echo(<<N(8)>>)>>, <<"item", Echo(<<N(4), N(5)>>)>>>>>>),
       Do(<<<<"un", "#", x>>, Ix(x, S("x")), Ix(x, N(9)), Ix(x, N(3)), Ix(x, N(5))>>) >>,
    << Let("x", Table(<<Table(<<N(1), N(2)>>), Table(<<>>), Echo(<<>>)>>)), Do(<<<<"un", "#", x>>, Ix(Ix(x, N(1)), N(2))>>) >>,
    \* methods, fields and globals
    << <<"assign", <<t>>, <<Table(<<>>)>>>>, Put(Ix(t, S("x")), N(3)),
       <<"fnstat", <<"method", t, "f">>, Fn(<<"y">>, <<Put(Ix(<<"var", "self">>, S("x")), Bin("+", Ix(<<"var", "self">>, S("x")), y)),
                                                       Return(<<<<"var", "self">>>>)>>)>>,
       <<"fnstat", Ix(t, S("z")), Fn(<<"y">>, <<Return(<<y>>)>>)>>,
       Do(<<Ix(<<"method", <<"method", t, "f", <<N(1)>>>>, "f", <<N(2)>>>>, S("x")), <<"method", t, "z", <<>>>>>>) >>
       \o << Put(t, N(1)), <<"fnstat", f, Fn(<<>>, <<Return(<<t>>)>>)>>, Do(<<Call(f, <<>>)>>) >>,
    \* nested blocks that shadow, elseif, and more constants than RK operands reach
    << Let("x", N(1)), <<"block", <<Let("x", Bin("+", x, N(1))), Do(<<x>>), <<"block", <<Let("x", N(3)), Let("y", x)>>>>>>>>, Do(<<x>>),
       <<"for", "x", N(1), N(4), <<>>, <<<<"if", << <<Bin("==", x, N(1)), <<Do(<<N(11)>>)>>>>, <<Bin("==", x, N(2)), <<Do(<<N(12)>>)>>>>,
                                   <<Bin("or", Bin("==", x, N(3)), False), <<Let("y", x), Do(<<y>>)>>>> >>, <<Do(<<N(13)>>)>>>>>>>> >>,
    << Let("x", Table(<<>>)), Put(Ix(x, S("a")), True), Put(Ix(x, S("b")), N(30)), Put(Ix(x, S("c")), Null), Put(Ix(x, S("d")), S("e")),
       Do(<<Ix(x, S("a")), Bin("..", Ix(x, S("d")), Bin("..", N(1), S("z"))), Bin("==", Ix(x, S("b")), N(31))>>) >>,
    \* a loop left by return through open upvalues; break out of two scopes
    << Let("f", Fn(<<>>, <<<<"for", "x", N(1), N(3), <<>>, <<Let("y", Fn(<<>>, <<Return(<<x>>)>>)),
                             If(Bin("==", x, N(2)), <<Return(<<y, Call(y, <<>>)>>)>>, <<>>)>>>>>>)),
       <<"local", <<"y", "z">>, <<Call(f, <<>>)>>>>, Do(<<Call(y, <<>>), z>>) >>,
    << <<"while", True, <<Let("x", N(1)), <<"while", True, <<Let("y", N(2)), Put(z, Fn(<<>>, <<Return(<<Bin("+", x, y)>>)>>)),
                             <<"block", <<Let("y", N(5)), Put(f, Fn(<<>>, <<Return(<<y>>)>>)), Break>>>>>>>>, Put(x, N(6)), Break>>>>,
       Let("w", N(9)), Do(<<Call(z, <<>>), Call(f, <<>>)>>) >>,
    \* failures: a call of nil, an index of nil, arithmetic on nil
    << Do(<<N(1)>>), Run_(<<"var", "none">>), Do(<<N(2)>>) >>,
    << Let("x", Null), Do(<<Ix(x, N(1))>>) >>,
    << Let("x", Null), Do(<<N(1)>>), Let("y", Bin("+", x, N(1))), Do(<<y>>) >>,
    << <<"for", "x", N(1), Null, <<>>, <<Do(<<x>>)>>>> >>,
    << <<"forin", <<"x">>, <<N(1)>>, <<Do(<<x>>)>>>> >>,
    << Put(Ix(Table(<<>>), Null), N(1)) >>, << Put(Ix(N(1), N(2)), N(1)) >>,
    << Do(<<Bin("<", N(1), Null)>>) >>, << Do(<<Bin("<=", Null, N(1))>>) >>,
    << Do(<<<<"un", "-", Null>>>>) >>, << Do(<<<<"un", "#", N(1)>>>>) >>, << Do(<<Bin("..", S("a"), Null)>>) >>,
    << Return(<<Call(Null, <<>>)>>) >>, << Let("x", N(1)), <<"do", <<"method", x, "f", <<>>>>>> >> }
--------------------------------------------------------------------------------
(* Programs at a limit of the compiler: with n locals, a function that     *)
(* captures n of them, n nested parentheses, and a call with n arguments.  *)
V(n) == <<"var", ToString(n)>>
Locals(n) == [i \in 1..n |-> Let(ToString(i), N(i))]
Captures(n) == Append(Locals(n), Return(<<Call(Fn(<<>>, <<Return([i \in 1..n |-> V(i)])>>), <<>>)>>))
Nested[n \in Nat] == IF n = 0 THEN N(1) ELSE <<"paren", Nested[n - 1]>>
Deep(n) == << Return(<<Nested[n]>>) >>
Wide(n) == << Do([i \in 1..n |-> N(i)]) >>
Targets(n) == << <<"assign", [i \in 1..n |-> V(i)], <<N(7)>>>> >>
AtLimits(vars, ups, calls, stack) ==
  {Locals(vars), Captures(ups), Deep(calls - 2), Wide(stack - 2), Targets(calls)}
PastLimits(vars, ups, calls, stack) ==
  {Locals(vars + 1), Captures(ups + 1), Deep(calls - 1), Wide(stack - 1), Targets(calls + 1)}

(* What the grammar does not allow. *)
Broken == { <<Break>>, << <<"while", True, <<Run_(Fn(<<>>, <<Break>>))>>>> >>,
            << Let("f", Fn(<<>>, <<Return(<<Args>>)>>)) >> }
LOCAL T(w) == [t |-> w, v |-> 0]
LOCAL X == [t |-> "NAME", v |-> "x"]
BrokenText ==
  { <<X>>, <<X, T("=")>>, <<X, T("("), T(")"), T("="), X>>, <<X, T("."), T("=")>>, <<X, T("["), X, T("="), X>>,
    <<T("("), X>>, <<T("return"), X, T(";"), X, T("("), T(")")>>, <<X, T("="), X, T("+")>>,
    <<T("local"), T("=")>>, <<T("local"), T("function"), T("(")>>, <<T("for"), X, T("do")>>,
    <<T("for"), X, T("="), X, T("do"), T("end")>>, <<T("for"), X, T(","), T("in")>>,
    <<T("if"), X, T("then"), T("else"), T("elseif"), X, T("then"), T("end")>>, <<T("if"), X, T("end")>>,
    <<T("while"), X, T("do")>>, <<T("repeat"), T("end")>>, <<T("end")>>,
    <<X, T("="), T("{"), X, X, T("}")>>, <<X, T("="), T("{"), T("["), X, T("]"), X>>,
    <<X, T(":"), X>>, <<X, T("="), T("function"), T("("), X, T(","), T(")"), T("end")>>,
    <<X, T("="), T("function"), T("("), T("..."), T(","), X, T(")"), T("end")>> }
================================================================================
