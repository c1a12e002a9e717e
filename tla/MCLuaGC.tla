------------------------------- MODULE MCLuaGC -------------------------------
EXTENDS LuaGC

MCKind == [M |-> "thread", G |-> "table", T |-> "table", U |-> "udata", F |-> "function",
           V |-> "upval", C |-> "thread", S |-> "string"]
MCSlots == [M |-> 1, C |-> 1]
Pool(objects, modes, keys, closures) ==
  [objects |-> objects, modes |-> modes, keys |-> keys, closures |-> closures, full |-> "U" \in objects /\ keys = {}]
MCPools == {
  Pool({"T", "U"}, {{"v"}}, {}, "M"),                   \* finalizers, weak values
  Pool({"T", "U"}, {{"k"}}, {"T"}, "M"),                \* finalizers, weak keys
  Pool({"T", "S"}, {{"k", "v"}}, {"T"}, "M"),           \* strings
  Pool({"T"}, {{}}, {"G", "T"}, "M"),                   \* tables that change while they are marked
  Pool({"F", "V", "U"}, {{}}, {}, "M"),                 \* closures
  Pool({"C", "F", "V"}, {{}}, {}, "C")}                \* closures of coroutines
================================================================================
