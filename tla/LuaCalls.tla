-------------------------------- MODULE LuaCalls --------------------------------
(***************************************************************************)
(* Calls, errors and coroutines of the Lua runtime (src/jni/lua/ldo.c,     *)
(* with the library functions of lbaselib.c that use them): what the       *)
(* CallInfo arrays, the counters and the chain of longjmp targets of all   *)
(* threads are while scripts call, fail, yield and resume in any order.    *)
(*                                                                         *)
(* th[t] is the lua_State of thread t:                                     *)
(*   status     "ok", "yield" or the error that killed it                  *)
(*   ci         the CallInfos, [kind, base]; kind is "host", "lua" or "C"  *)
(*   sizeci     size_ci                                                    *)
(*   nCcalls, baseCcalls                                                   *)
(*   errfunc    whether an error function is set                           *)
(*   open       the stack positions of its open upvalues                   *)
(*   left       the values on the stack of its base level (lua_gettop)     *)
(*   life       "none", "fresh", "started", "finished": how far it got     *)
(* cs is the C stack, the activations of C functions that wait for what is *)
(* above them:                                                             *)
(*   host                       the game, outside Lua                      *)
(*   exec, t, n                 luaV_execute with nexeccalls n             *)
(*   call, t                    luaD_call                                  *)
(*   cfun, t, f, at, co         a C function that a script called          *)
(*   pcall, t, old              luaD_pcall and what it saved               *)
(*   resume, t                  lua_resume of t                            *)
(*   raise, t                   luaG_errormsg, with the message on top     *)
(*   handler, t                 luaG_errormsg, waiting for the error func. *)
(*   throw, t, code             luaD_throw                                 *)
(* Values are left out, and hooks; a frame takes two positions of the      *)
(* stack, the function and one register.                                   *)
(***************************************************************************)
EXTENDS Integers, Sequences, FiniteSets, FiniteSetsExt

CONSTANTS Threads,      \* main and the coroutines that memory suffices for
          Main,
          MaxCCalls,    \* LUAI_MAXCCALLS
          Slack,        \* LUAI_MAXCCALLS >> 3
          BasicCI,      \* BASIC_CI_SIZE
          MaxCalls,     \* LUAI_MAXCALLS
          MaxCStack,    \* LUAI_MAXCSTACK
          MaxOpen,      \* bound: open upvalues of one thread
          MaxFrames,    \* bound: CallInfos of all threads together
          Results       \* how many values a coroutine may return

ASSUME ThreadsAssumption == Main \in Threads
ASSUME BoundsAssumption ==
  /\ {MaxCCalls, Slack, BasicCI, MaxCalls, MaxCStack, MaxOpen, MaxFrames} \subseteq Nat
  /\ Slack > 0 /\ Results \subseteq Nat

VARIABLES th, cs
vars == <<th, cs>>

Fresh == [status |-> "ok", ci |-> <<[kind |-> "host", base |-> 1]>>, sizeci |-> BasicCI,
          nCcalls |-> 0, baseCcalls |-> 0, errfunc |-> FALSE, open |-> {}, left |-> 0, life |-> "none"]

(* A state is [th, cs]: the operators below take and return them. *)
Now == [th |-> th, cs |-> cs]
Becomes(s) == th' = s.th /\ cs' = s.cs
--------------------------------------------------------------------------------
A(k, t) == [k |-> k, t |-> t]
Exec(t, n)  == [k |-> "exec", t |-> t, n |-> n]
CFun(t, f)  == [k |-> "cfun", t |-> t, f |-> f, at |-> "start", co |-> t]
TopA == cs[Len(cs)]
Active(k) == TopA.k = k
In(f, at) == Active("cfun") /\ TopA.f = f /\ TopA.at = at
Me == TopA.t

Push(s, a) == [s EXCEPT !.cs = Append(@, a)]
Pop(s)     == [s EXCEPT !.cs = SubSeq(@, 1, Len(@) - 1)]
At(s, at)  == [s EXCEPT !.cs[Len(s.cs)].at = at]

Frame(T)   == T.ci[Len(T.ci)]
NextBase(T) == Frame(T).base + 2
Enter(T, kind)  == [T EXCEPT !.ci = Append(@, [kind |-> kind, base |-> NextBase(T)])]
luaD_poscall(T) == [T EXCEPT !.ci = SubSeq(@, 1, Len(@) - 1)]
luaF_close(T, level) == [T EXCEPT !.open = {p \in @ : p < level}]

luaG_runerror(s, t)    == Push(s, A("raise", t))
luaD_throw(s, t, code) == Push(s, [k |-> "throw", t |-> t, code |-> code])

(* inc_ci and growCI; then the frame is entered and its activation pushed. *)

EnterCI(s, t, kind, a) ==
  LET T    == s.th[t]
      full == Len(T.ci) = T.sizeci
      grown == [s EXCEPT !.th[t].sizeci = 2 * @]
      g    == IF full THEN grown ELSE s IN
  CASE full /\ T.sizeci > MaxCalls -> luaD_throw(s, t, "ERRERR")
    [] full /\ T.sizeci <= MaxCalls /\ 2 * T.sizeci > MaxCalls -> luaG_runerror(grown, t)
    [] OTHER -> Push([g EXCEPT !.th[t] = Enter(@, kind)], a)

(* The activation is that of the callee: a C function, or a luaV_execute. *)
luaD_precall(s, t, callee) ==
  IF callee = "lua" THEN EnterCI(s, t, "lua", Exec(t, 1)) ELSE EnterCI(s, t, "C", CFun(t, callee))

CallWithoutLimit(s, t, callee) ==
  LET n == s.th[t].nCcalls + 1
      g == Push([s EXCEPT !.th[t].nCcalls = n], A("call", t))
  IN  IF n = MaxCCalls THEN luaG_runerror(g, t) ELSE luaD_precall(g, t, callee)

luaD_call(s, t, callee) ==
  LET n == s.th[t].nCcalls + 1
      g == Push([s EXCEPT !.th[t].nCcalls = n], A("call", t))
  IN CASE n = MaxCCalls -> luaG_runerror(g, t)
       [] n >= MaxCCalls + Slack -> luaD_throw(g, t, "ERRERR")
       [] OTHER -> luaD_precall(g, t, callee)

CallDone ==
  /\ Active("call")
  /\ Becomes(Pop([Now EXCEPT !.th[Me].nCcalls = @ - 1]))
--------------------------------------------------------------------------------
(* Protected calls *)
luaD_pcall(s, t, callee, ef) ==
  LET T   == s.th[t]
      old == [nCcalls |-> T.nCcalls, ci |-> Len(T.ci), top |-> NextBase(T) - 1, errfunc |-> T.errfunc]
      a   == [k |-> "pcall", t |-> t, old |-> old]
  IN  luaD_call(Push([s EXCEPT !.th[t].errfunc = ef], a), t, callee)

PcallKeepsHandler == Active("pcall") /\ Becomes(Pop(Now))

PcallDone ==
  /\ Active("pcall")
  /\ Becomes(Pop([Now EXCEPT !.th[Me].errfunc = TopA.old.errfunc]))

restore_stack_limit(T) ==
  [T EXCEPT !.sizeci = IF @ > MaxCalls /\ Len(T.ci) < MaxCalls THEN MaxCalls ELSE @]

(* The targets of longjmp for thread t (errorJmp and its chain). *)
Targets(t) == {i \in DOMAIN cs : cs[i].k \in {"pcall", "resume"} /\ cs[i].t = t}
ErrorJmp(t) == CHOOSE i \in Targets(t) : \A j \in Targets(t) : j <= i

Recover(T, old) ==
  restore_stack_limit([luaF_close(T, old.top) EXCEPT
    !.nCcalls = old.nCcalls, !.ci = SubSeq(@, 1, old.ci), !.errfunc = old.errfunc])

(* luaD_throw: the C stack is cut back to the target, which goes on: the   *)
(* end of luaD_pcall, or that of lua_resume, which marks the thread dead.  *)
Land ==
  LET at == ErrorJmp(Me)
      a  == cs[at]
      cut == SubSeq(cs, 1, at - 1)
      dead == [th[Me] EXCEPT !.status = TopA.code, !.nCcalls = @ - 1, !.life = "finished"] IN
  /\ Active("throw") /\ Targets(Me) # {}
  /\ IF a.k = "pcall" THEN th' = [th EXCEPT ![Me] = Recover(@, a.old)] ELSE th' = [th EXCEPT ![Me] = dead]
  /\ cs' = IF Len(cut) > 0 /\ cut[Len(cut)].k = "cfun" THEN [cut EXCEPT ![Len(cut)].at = "failed"] ELSE cut

(* luaG_errormsg: the error function is called first, if there is one. *)
ErrorMsg ==
  /\ Active("raise")
  /\ Becomes(IF th[Me].errfunc THEN luaD_call(Push(Pop(Now), A("handler", Me)), Me, "lua")
             ELSE luaD_throw(Pop(Now), Me, "ERRRUN"))
HandlerDone == Active("handler") /\ Becomes(luaD_throw(Pop(Now), Me, "ERRRUN"))
--------------------------------------------------------------------------------
(* A Lua function runs: what its instructions may do to the calls. *)
CFunctions == {"pcall", "xpcall", "resume", "yield", "create", "error"}

Frames == FoldSet(LAMBDA t, n : n + Len(th[t].ci), 0, Threads)
Runs == Active("exec") /\ Frames < MaxFrames

OpCall ==
  /\ Runs
  /\ LET s == EnterCI(Now, Me, "lua", A("exec", Me))
     IN  Becomes(IF s.cs[Len(s.cs)].k = "exec"
                 THEN Pop([s EXCEPT !.cs[Len(cs)].n = @ + 1]) ELSE s)
OpCallC == \E f \in CFunctions : Runs /\ Becomes(luaD_precall(Now, Me, f))
OpTailCall ==
  /\ Active("exec")
  /\ LET s == EnterCI(Now, Me, "lua", A("exec", Me))
         base == Frame(th[Me]).base
     IN  Becomes(IF s.cs[Len(s.cs)].k = "exec"
                 THEN Pop([s EXCEPT !.th[Me] = luaD_poscall(luaF_close(@, base))]) ELSE s)
OpMeta    == Runs /\ Becomes(luaD_call(Now, Me, "lua"))
OpFault   == Active("exec") /\ Becomes(luaG_runerror(Now, Me))
OpClosure ==
  /\ Active("exec") /\ Cardinality(th[Me].open) < MaxOpen
  /\ Becomes([Now EXCEPT !.th[Me].open = @ \cup {Frame(th[Me]).base}])
OpReturn ==
  /\ Active("exec")
  /\ LET T == th[Me]
         g == [Now EXCEPT !.th[Me] = luaD_poscall(luaF_close(T, Frame(T).base))]
     IN  Becomes(IF TopA.n = 1 THEN Pop(g) ELSE [g EXCEPT !.cs[Len(cs)].n = @ - 1])
--------------------------------------------------------------------------------
(* C functions *)
CReturn(s, t) == Pop([s EXCEPT !.th[t] = luaD_poscall(@)])

Error == In("error", "start") /\ Becomes(luaG_runerror(Now, Me))

PCall ==
  \/ /\ In("pcall", "start")
     /\ \E f \in {"lua", "yield"} : Becomes(luaD_pcall(At(Now, "done"), Me, f, FALSE))
  \/ In("xpcall", "start") /\ Becomes(luaD_pcall(At(Now, "done"), Me, "lua", TRUE))
  \/ /\ TopA.k = "cfun" /\ TopA.f \in {"pcall", "xpcall"} /\ TopA.at \in {"done", "failed"}
     /\ Becomes(CReturn(Now, Me))

luaB_cocreate ==
  /\ In("create", "start")
  /\ \/ \E co \in Threads \ {Main} :
          /\ th[co].life = "none"
          /\ Becomes(CReturn([Now EXCEPT !.th[co].life = "fresh", !.th[co].left = 1], Me))
     \/ /\ \A co \in Threads : th[co].life # "none"
        /\ Becomes(luaD_throw(Now, Me, "ERRMEM"))

StatusByFrames(t, co) ==
  LET T == th[co] IN
  CASE t = co -> "running"
    [] t # co /\ (T.status = "yield" \/ (T.status = "ok" /\ Len(T.ci) = 1)) -> "suspended"
    [] t # co /\ T.status = "ok" /\ Len(T.ci) > 1 -> "normal"
    [] OTHER -> "dead"

costatus(t, co) ==
  LET T == th[co] IN
  CASE t = co -> "running"
    [] t # co /\ T.status = "yield" -> "suspended"
    [] t # co /\ T.status = "ok" ->
         (IF Len(T.ci) > 1 THEN "normal" ELSE IF T.left = 0 THEN "dead" ELSE "suspended")
    [] OTHER -> "dead"

(* lua_resume of co, called from t: the message that refuses, or its start. *)
Refuses(T) == [T EXCEPT !.left = 0, !.life = IF @ = "fresh" THEN "finished" ELSE @]
Resumes(T) == [T EXCEPT !.nCcalls = T.nCcalls + 1, !.baseCcalls = T.nCcalls + 1,
                        !.left = 0, !.status = "ok", !.life = "started"]

resume_error(s, t, co) == At([s EXCEPT !.th[co] = Refuses(@)], "failed")
ResumeCountsAll(s, t, co) ==
  LET T == s.th[co]
      h == Push([At(s, "done") EXCEPT !.th[co] = Resumes(@)], A("resume", co))
  IN  IF T.status = "yield" THEN Push([h EXCEPT !.th[co] = luaD_poscall(@)], Exec(co, Len(T.ci) - 1))
      ELSE luaD_precall(h, co, "lua")

lua_resume(s, t, co) ==
  LET T == s.th[co]
      h == Push([At(s, "done") EXCEPT !.th[co] = Resumes(@)], A("resume", co))
  IN CASE \/ T.status # "yield" /\ (T.status # "ok" \/ Len(T.ci) # 1)
          \/ T.nCcalls >= MaxCCalls -> resume_error(s, t, co)
       [] OTHER ->
            IF T.status = "yield"
            THEN Push([h EXCEPT !.th[co] = luaD_poscall(@)], Exec(co, Len(T.ci) - 2))
            ELSE luaD_precall(h, co, "lua")

auxresume ==
  /\ In("resume", "start")
  /\ \/ (\A co \in Threads \ {Main} : th[co].life = "none") /\ Becomes(luaG_runerror(Now, Me))  \* luaL_argcheck
     \/ \E co \in Threads \ {Main} :
          LET s == [Now EXCEPT !.cs[Len(cs)].co = co] IN
          /\ th[co].life # "none"
          /\ Becomes(IF costatus(Me, co) # "suspended" THEN At(s, "failed")
                     ELSE lua_resume([s EXCEPT !.th[co].nCcalls = th[Me].nCcalls], Me, co))

(* resume() returned: the body finished, or it yielded. *)
Leaves(T, n) ==
  [T EXCEPT !.nCcalls = @ - 1, !.life = IF T.status = "ok" THEN "finished" ELSE @, !.left = n]
ResumeDone ==
  /\ Active("resume")
  /\ \E n \in Results : Becomes(Pop([Now EXCEPT !.th[Me] = Leaves(@, n)]))

(* The rest of auxresume: results or the message are moved to the caller;  *)
(* coroutine.wrap raises the message again.                                *)
Transfer ==
  LET co == TopA.co IN
  \/ /\ In("resume", "done")
     /\ Becomes(IF th[co].left + 1 > MaxCStack THEN luaG_runerror(Now, Me)
                ELSE CReturn([Now EXCEPT !.th[co].left = 0], Me))
  \/ /\ In("resume", "failed")
     /\ (Becomes(CReturn(Now, Me)) \/ Becomes(luaG_runerror(Now, Me)))

YieldAnywhere == In("yield", "start") /\ Becomes(Pop(Pop([Now EXCEPT !.th[Me].status = "yield"])))
(* lua_yield; luaD_precall, luaV_execute and resume return at once. *)
luaB_yield ==
  LET T == th[Me] IN
  /\ In("yield", "start")
  /\ Becomes(IF T.nCcalls > T.baseCcalls THEN luaG_runerror(Now, Me)
             ELSE Pop(Pop([Now EXCEPT !.th[Me].status = "yield"])))
--------------------------------------------------------------------------------
(* The game calls a script under lua_pcall. *)
Host == Active("host") /\ Becomes(luaD_pcall(Now, Main, "lua", FALSE))

Init ==
  /\ th = [t \in Threads |-> IF t = Main THEN [Fresh EXCEPT !.life = "started"] ELSE Fresh]
  /\ cs = <<A("host", Main)>>

Next ==
  \/ CallDone \/ PcallDone \/ Land \/ ErrorMsg \/ HandlerDone
  \/ OpCall \/ OpCallC \/ OpTailCall \/ OpMeta \/ OpFault \/ OpClosure \/ OpReturn
  \/ Error \/ PCall \/ luaB_cocreate \/ auxresume \/ ResumeDone \/ Transfer \/ luaB_yield
  \/ Host

Spec == Init /\ [][Next]_vars
--------------------------------------------------------------------------------
On(t) == {i \in DOMAIN cs : cs[i].k # "host" /\ cs[i].t = t}

(* The C stack is bounded: nested calls of C, resumes of coroutines and    *)
(* handlers of errors that fail again count together, whatever thread they *)
(* are in (ldo.c:369, luaD_call).                                          *)
Depth == Cardinality({i \in DOMAIN cs : cs[i].k \in {"call", "resume"}})
CStackBounded == Depth <= MaxCCalls + Slack

(* nCcalls of a thread on the C stack counts the calls up to its last      *)
(* activation, those of the threads that resumed it included.              *)
CountsRight ==
  \A i \in DOMAIN cs :
    cs[i].k # "host" /\ (\A j \in (i + 1)..Len(cs) : cs[j].t # cs[i].t) =>
      th[cs[i].t].nCcalls = Cardinality({j \in 1..i : cs[j].k \in {"call", "resume"}})

(* The activations on the C stack account for every frame of their thread, *)
(* in order: luaV_execute for as many Lua functions as its nexeccalls,     *)
(* each C function for one, from the frame below the first call (1) on.  A *)
(* thread that has yielded has Lua functions only, and the C function that *)
(* did: a resume relies on it when it takes all frames of the coroutine    *)
(* for Lua functions (ldo.c:404).                                          *)
Width(a) == CASE a.k = "exec" -> a.n [] a.k = "cfun" -> 1 [] OTHER -> 0
KindOf(a) == IF a.k = "exec" THEN "lua" ELSE "C"
Levels ==
  LET l[i \in DOMAIN cs] == IF i = 1 THEN 1 ELSE (IF cs[i].k = "resume" THEN 1 ELSE l[i - 1]) + Width(cs[i])
  IN  l
FramesAccounted ==
  /\ \A t \in Threads :
       LET ci == th[t].ci
       IN  th[t].status = "yield" => \A p \in 2..Len(ci) : ci[p].kind = IF p = Len(ci) THEN "C" ELSE "lua"
  /\ \A i \in DOMAIN cs :
       LET T == th[cs[i].t]
           l == Levels[i]
       IN  T.status # "yield" =>
             /\ l <= Len(T.ci) /\ \A p \in (l - Width(cs[i]) + 1)..l : T.ci[p].kind = KindOf(cs[i])
             /\ (\A j \in (i + 1)..Len(cs) : cs[j].t # cs[i].t) => l = Len(T.ci)

Talking(co) == Active("cfun") /\ TopA.f = "resume" /\ TopA.at # "start" /\ TopA.co = co

(* What a coroutine is said to be is what it is: running on top of the C   *)
(* stack, further down, suspended at a yield or before its start, or dead  *)
(* (lbaselib.c:490).                                                       *)
StatusIsTrue ==
  \A co \in Threads \ {Main} : th[co].life # "none" /\ Me # co /\ ~Talking(co) =>
    costatus(Me, co) = CASE On(co) # {} -> "normal"
                         [] On(co) = {} /\ th[co].life = "finished" -> "dead"
                         [] OTHER -> "suspended"

(* A protected call leaves its thread as it found it, whether it fails or  *)
(* not: the frames, the count of calls and the error function, so that an  *)
(* outer handler is in force again (ldo.c:455).                            *)
PcallRestores ==
  [][Active("pcall") \/ Active("throw") =>
       \A i \in DOMAIN cs : cs[i].k = "pcall" /\ Len(cs') = i - 1 =>
         LET T == th'[cs[i].t]
         IN  /\ T.nCcalls = cs[i].old.nCcalls /\ Len(T.ci) = cs[i].old.ci
             /\ T.errfunc = cs[i].old.errfunc
             /\ \A p \in T.open : p < cs[i].old.top]_vars
================================================================================
