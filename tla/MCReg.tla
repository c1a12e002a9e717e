------------------------------- MODULE MCReg -------------------------------
(***************************************************************************)
(* Instances of Reg.  A script passes the string "1", the number 1 (the    *)
(* same bytes), another string, the empty string, or a table (no bytes).   *)
(***************************************************************************)
EXTENDS Reg

CONSTANTS String1, Number1, String2, StringEmpty, Table,
          One, Two

MCLuaValues == {String1, Number1, String2, StringEmpty, Table}

MCToString ==
    [a \in MCLuaValues |->
        CASE a \in {String1, Number1} -> One
          [] a = String2     -> Two
          [] a = StringEmpty -> EmptyBlob
          [] a = Table       -> NoBlob]

\* Bounds: what the calls are given.
NoValues   == {}
OneString  == {String1}
TwoKeys    == {String1, Number1, String2, Table}
TwoValues  == {String1, String2}
WithEmpty  == {String1, StringEmpty}
==============================================================================
