------------------------------- MODULE MCShim -------------------------------
(***************************************************************************)
(* A library of 22 words for each build: four of code, the symbol table,   *)
(* init_array and fini_array with a NULL, a word of data, and zero words   *)
(* that only relocations fill, the last one an absolute address.  Two      *)
(* needed libraries, both of which export malloc.                          *)
(***************************************************************************)
EXTENDS Shim

MCLibs == {"libc", "libm"}
MCProvides == "libc" :> ("malloc" :> 501 @@ "__cxa_atexit" :> 503) @@ "libm" :> ("malloc" :> 601)

Phdr(type, offset, vaddr, filesz, memsz) ==
    [type |-> type, offset |-> offset, vaddr |-> vaddr, filesz |-> filesz, memsz |-> memsz]
Sym(name, shndx, val, func) == [name |-> name, shndx |-> shndx, value |-> val, func |-> func]
Rel(where, type, sym, addend) == [where |-> where, type |-> type, sym |-> sym, addend |-> addend]

\* 902 is a conditional branch, 903 and 904 are not.
Code == <<901, 903, 902, 904>>

Symbols ==
    <<Sym("android_main", "TEXT", 0, TRUE), Sym(Hit, "TEXT", 2, TRUE),
      Sym("thumb", "TEXT", 3, TRUE), Sym("table", "DATA", 16, FALSE),
      Sym("malloc", "UNDEF", 0, TRUE), Sym("__cxa_atexit", "UNDEF", 0, TRUE),
      Sym("weak", "UNDEF", 0, TRUE), Sym("abs", "ABS", 77, FALSE)>>

Good(b) ==
    [header |-> "ok", readable |-> 4,
     phdrs |-> <<Phdr("LOAD", 0, 0, 12, 12), Phdr("other", 0, 0, 0, 0), Phdr("DYNAMIC", 12, 12, 1, 1),
                 Phdr("LOAD", 12, 12, 5, 10)>>,
     contents |-> Code \o [n \in DOMAIN Symbols |-> Symbols[n].value]
                      \o IF b = "aarch64" THEN <<0, 0, 0, 0, 4>> ELSE <<1, 0, 3, 1, 4>>,
     tables |-> Tables, needed |-> <<"libc", "libm">>, syms |-> Symbols, symtab |-> 4,
     pltrel |-> IF b = "aarch64" THEN "RELA" ELSE "REL",
     relocs |-> <<Rel(12, "RELATIVE", 1, 1), Rel(13, "NONE", 1, 0), Rel(14, "RELATIVE", 1, 3),
                  Rel(15, "RELATIVE", 1, 1), Rel(16, "GLOB_DAT", 4, 4), Rel(17, "GLOB_DAT", 3, 0),
                  Rel(21, "ABS", 4, 0)>>,
     plt |-> <<Rel(18, "JUMP_SLOT", 5, 0), Rel(19, "JUMP_SLOT", 6, 0), Rel(20, "GLOB_DAT", 7, 0)>>,
     init |-> [at |-> 12, count |-> 2], fini |-> [at |-> 14, count |-> 2]]

BadHeaders == Headers \ {"ok"}
Variant(g, n) ==
    CASE n = "good"       -> g
      [] n = "no main"    -> [g EXCEPT !.syms[1].name = "main", !.needed = <<"libm", "libc">>]
      [] n = "no dynamic" -> [g EXCEPT !.phdrs[3].type = "other"]
      [] n = "cut"        -> [g EXCEPT !.readable = 3]
      [] n \in Tables     -> [g EXCEPT !.tables = @ \ {n}, !.needed = IF n = "HASH" THEN << >> ELSE @]
      [] n \in BadHeaders    -> [g EXCEPT !.header = n]

\* Bound: the game runs in the build for ARM only, the others load a library without
\* android_main.
MCFiles ==
    [b \in Builds |->
        [n \in (IF b = "arm" THEN {"good"} \cup Tables \cup BadHeaders ELSE {}) \cup {"no main", "no dynamic", "cut"}
            |-> Variant(Good(b), n)]]

ASSUME FilesAssumption ==
    GamesHaveHit /\ \A b \in Builds : \A l \in DOMAIN MCFiles[b] : WellFormed(b, MCFiles[b][l])

MCOpposite == 902 :> 912 @@ 912 :> 902
MCZips == "zip1" :> {"levels/a", "menu/b.mp3"}
MCObfuscated == {"levels/a.mp3", "menu/b"}
MCAssets == {"menu/b"}
==============================================================================
