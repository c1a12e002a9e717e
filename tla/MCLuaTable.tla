------------------------------- MODULE MCLuaTable -------------------------------
EXTENDS LuaTable

(* Small integers with the bits of their doubles, and objects whose hashes *)
(* meet theirs in tables of two and four nodes.                            *)
MCHash == [k \in {<<"n", 1>>, <<"n", 2>>, <<"n", 3>>, <<"s", 1>>, <<"o", 1>>} |->
  CASE k = <<"n", 1>> -> 1072693248 [] k = <<"n", 2>> -> 1073741824
    [] k = <<"n", 3>> -> 1074266112
    [] k = <<"s", 1>> -> 3 [] k = <<"o", 1>> -> 0]
MCKeys == DOMAIN MCHash
================================================================================
