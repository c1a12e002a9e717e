---------------------------- MODULE MCLeafHook ----------------------------
(***************************************************************************)
(* Two functions: one whose first four words are any of the kinds the      *)
(* rewriting tells apart, the other one word of each PC-relative kind.     *)
(* Behind the first words every word is a literal of its own.              *)
(***************************************************************************)
EXTENDS LeafHook

MCFunctions == {"load", "pressed"}
MCHook == [f \in MCFunctions |-> IF f = "load" THEN "ResManLoadHook" ELSE "KNReload"]

\* Long enough for a literal read at the wrong index to be another literal.
MCFnSize == 14
\* Bound: exactly the longest trampoline twice.
MCRwxSize == 32
MCStreamMax == 64

Plain == [op |-> "plain", rd |-> 1, imm |-> 0, base |-> "none"]
Kind(op, rd, imm) == [op |-> op, rd |-> rd, imm |-> imm, base |-> "none"]
\* The immediate that stands for 1024: 1, rotated right by 2 * 11.
Rotated == 11 * 256 + 1
FirstWords(a) ==
    {Plain, Kind("adr", 0, 21), Kind("ldr", 2, 4), Kind("rel", 0, 6)}
        \cup IF a = "AArch64"
             THEN {Kind("adr", 1, -4), Kind("adrp", 0, 2), Kind("ldrw", 3, 4)}
             ELSE {Kind("adr", 1, Rotated), Kind("adrsub", 3, 8), Kind("ldr", 1, -1)}

Body(first) ==
    [n \in 0..(MCFnSize - 1) |-> IF n < 4 THEN first[n + 1] ELSE Kind("lit", 0, n)]

Other(a) ==
    IF a = "AArch64" THEN <<Kind("ldr", 0, 5), Kind("adr", 1, 8), Kind("adrp", 2, 1), Kind("ldrw", 1, 3)>>
    ELSE <<Kind("ldr", 0, 5), Kind("adr", 1, 8), Kind("ldr", 1, 0), Kind("lit", 0, 3)>>

MCPrograms ==
    [a \in Archs |->
        {[f \in MCFunctions |-> Body(IF f = "load" THEN first ELSE Other(a))]
         : first \in [1..4 -> FirstWords(a)]}]
==============================================================================
