-------------------------------- MODULE LuaCheck --------------------------------
(***************************************************************************)
(* The bytecode checker (luaG_checkcode, src/jni/lua/ldebug.c): what the   *)
(* compiler asserts of every function it makes and luaU_undump demands of  *)
(* precompiled code.  A Proto is the record Proto of LuaParser.            *)
(***************************************************************************)
EXTENDS LuaParser

(* luaP_opmodes: whether the instruction sets register A, and its operands. *)
setsA == {"MOVE", "LOADK", "LOADBOOL", "LOADNIL", "GETUPVAL", "GETGLOBAL", "GETTABLE", "NEWTABLE",
          "SELF", "ADD", "SUB", "MUL", "DIV", "MOD", "POW", "UNM", "NOT", "LEN", "CONCAT", "TEST",
          "TESTSET", "CALL", "TAILCALL", "FORLOOP", "FORPREP", "CLOSURE", "VARARG"}
argBReg == {"MOVE", "LOADNIL", "GETTABLE", "SELF", "UNM", "NOT", "LEN", "CONCAT", "TEST", "TESTSET"}
argCReg == {"CONCAT"}
argBNone == {"TFORLOOP", "CLOSE"}
argCNone == {"MOVE", "LOADNIL", "GETUPVAL", "SETUPVAL", "UNM", "NOT", "LEN", "RETURN", "CLOSE", "VARARG"}
argBK   == {"SETTABLE", "ADD", "SUB", "MUL", "DIV", "MOD", "POW", "EQ", "LT", "LE"}
argCK   == argBK \cup {"GETTABLE", "SELF"}
argBxK  == {"LOADK", "GETGLOBAL", "SETGLOBAL"}
jumps   == {"JMP", "FORLOOP", "FORPREP"}
opcodes == setsA \cup argBK \cup argBxK \cup jumps
             \cup {"SETUPVAL", "RETURN", "TFORLOOP", "SETLIST", "CLOSE"}

precheck(pt) ==
  LET hasarg == IF "HASARG" \in pt.is_vararg THEN 1 ELSE 0 IN
  /\ pt.maxstack <= MaxStack
  /\ pt.numparams + hasarg <= pt.maxstack
  /\ "NEEDSARG" \in pt.is_vararg => "HASARG" \in pt.is_vararg
  /\ Len(pt.code) > 0
  /\ pt.code[Len(pt.code)].op = "RETURN"

luaG_checkopenop(i) == i.op \in {"CALL", "TAILCALL", "RETURN", "SETLIST"} /\ i.b = 0

checkreg(pt, r) == r < pt.maxstack
checkRK(pt, r)  == IF ISK(r) THEN r - BITRK < Len(pt.k) ELSE checkreg(pt, r)

(* The word at "at" is the count of the SETLIST before it, not an instruction. *)
IsCount(pt, at) == at >= 1 /\ pt.code[at].op = "SETLIST" /\ pt.code[at].c = 0

checkInstruction(pt, at) ==
  LET i    == pt.code[at + 1]
      next == pt.code[at + 2]
      dest == at + 1 + i.b
      size == Len(pt.code)
  IN
  /\ i.op \in opcodes
  /\ checkreg(pt, i.a)
  /\ i.op \in argBReg => checkreg(pt, i.b)
  /\ i.op \in argCReg => checkreg(pt, i.c)
  /\ i.op \in argBNone => i.b = 0
  /\ i.op \in argCNone => i.c = 0
  /\ i.op \in argBK => checkRK(pt, i.b)
  /\ i.op \in argCK => checkRK(pt, i.c)
  /\ i.op \in argBxK => i.b < Len(pt.k)
  /\ i.op \in jumps => 0 <= dest /\ dest < size /\ ~IsCount(pt, dest)
  /\ testTMode(i.op) => at + 2 < size /\ next.op = "JMP"
  /\ i.op = "LOADBOOL" /\ i.c = 1 => at + 2 < size /\ ~(next.op = "SETLIST" /\ next.c = 0)
  /\ i.op \in {"GETUPVAL", "SETUPVAL"} => i.b < pt.nups
  /\ i.op \in {"GETGLOBAL", "SETGLOBAL"} => pt.k[i.b + 1][1] = "str"
  /\ i.op = "SELF" => checkreg(pt, i.a + 1)
  /\ i.op = "CONCAT" => i.b < i.c
  /\ i.op = "TFORLOOP" => i.c >= 1 /\ checkreg(pt, i.a + 2 + i.c)
  /\ i.op \in {"FORLOOP", "FORPREP"} => checkreg(pt, i.a + 3)
  /\ i.op \in {"CALL", "TAILCALL"} =>
       /\ i.b # 0 => checkreg(pt, i.a + i.b - 1)
       /\ i.c = 0 => luaG_checkopenop(next)
       /\ i.c > 1 => checkreg(pt, i.a + i.c - 2)
  /\ i.op = "RETURN" /\ i.b > 1 => checkreg(pt, i.a + i.b - 2)
  /\ i.op = "SETLIST" =>
       /\ i.b > 0 => checkreg(pt, i.a + i.b)
       /\ i.c = 0 => at + 1 < size - 1
  /\ i.op = "CLOSURE" =>
       /\ i.b < Len(pt.p)
       /\ at + pt.p[i.b + 1].nups < size
       /\ \A j \in 1..pt.p[i.b + 1].nups : pt.code[at + 1 + j].op \in {"GETUPVAL", "MOVE"}
  /\ i.op = "VARARG" =>
       /\ "ISVARARG" \in pt.is_vararg /\ "NEEDSARG" \notin pt.is_vararg
       /\ i.b = 0 => luaG_checkopenop(next)
       /\ checkreg(pt, i.a + i.b - 2)

luaG_checkcode(pt) ==
  /\ precheck(pt)
  /\ \A at \in 0..(Len(pt.code) - 1) : IsCount(pt, at) \/ checkInstruction(pt, at)

(* The function and the functions inside it. *)
RECURSIVE checkAll(_)
checkAll(pt) == luaG_checkcode(pt) /\ \A i \in DOMAIN pt.p : checkAll(pt.p[i])
================================================================================
