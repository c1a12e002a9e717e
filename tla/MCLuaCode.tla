------------------------------- MODULE MCLuaCode -------------------------------
(***************************************************************************)
(* Programs for the compiler and the interpreter, and what they mean.      *)
(***************************************************************************)
EXTENDS LuaVM

S == INSTANCE LuaSamples

Right  == S!Statements \cup S!LoopPrograms \cup S!InPlaces \cup S!AtLimits(MaxVars, MaxUpvalues, MaxCCalls, MaxStack)
Wrong  == S!Broken \cup S!PastLimits(MaxVars, MaxUpvalues, MaxCCalls, MaxStack)

(* A program is a syntax tree, or a text that has none. *)
MCSources   == {<<"right", p>> : p \in Right} \cup {<<"wrong", p>> : p \in Wrong} \cup {<<"text", p>> : p \in S!BrokenText}
MCConstants == {<<"right", p>> : p \in S!Depth3}
MCTokens(p) == IF p[1] = "text" THEN Append(p[2], [t |-> "EOS", v |-> 0]) ELSE S!Source(p[2])
MCGlobals   == [k \in {<<"str", "echo">>, <<"str", "upto">>} |-> <<"c", k[2]>>]

EndsAs(m) ==
  /\ L.trace = m.trace
  /\ m.err <=> L.status = "error"
  /\ L.status = "done" => SubSeq(L.stack, 1, L.top) = m.v
(* The compiler refuses what the grammar or a limit rules out.  A program  *)
(* that it accepts does what it means: it calls C in the same order with   *)
(* the same arguments, fails when it means to, and returns the same values *)
(* (lcode.c:539-626, where conditions and their values are coded).         *)
MeansWhatItSays ==
  /\ L.status = "rejected" <=> prog[1] # "right"
  /\ L.status \in {"done", "error"} => EndsAs(S!Meaning(prog[2], MCGlobals))

(* Every program comes to its end: no jump of the code it was compiled to  *)
(* leads back to where a loop has been left (lvm.c:373, luaV_execute).     *)
Finishes == <>Over
================================================================================
