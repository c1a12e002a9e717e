------------------------------ MODULE ElfLoad ------------------------------
(***************************************************************************)
(* jni/andrleaf.h: the loader that maps the library of the game into       *)
(* memory without the system linker.  LeafLoadFromBuffer is cut where it   *)
(* calls something that can fail (malloc, mmap, dlopen) or that can look   *)
(* at what it has done (the functions of init_array), and at every turn of *)
(* the loops that write the image.  Addresses count words from Base, where *)
(* the image is mapped; an odd value is an address in Thumb state or, for  *)
(* data, in the middle of a word.                                          *)
(***************************************************************************)
EXTENDS Integers, Sequences, FiniteSets, SequencesExt

CONSTANTS Files,      \* for each build, the libraries it may be given
          Libs,       \* the needed libraries
          Provides,   \* what each of them exports, and where
          Base,       \* where mmap puts the image: even, not 0
          Stub,       \* the address of Leaf__cxa_atexit
          MapFails,   \* may mmap fail?
          ReadFails   \* may reading the file fail, or malloc?

Builds == {"aarch64", "arm", "i386"}
NULL == 0
None == "none"
Atexit == {"__cxa_atexit", "__aeabi_atexit"}
Tables == {"STRTAB", "REL", "SYMTAB", "JMPREL", "INIT_ARRAY", "FINI_ARRAY", "HASH"}

\* A file: what its header is like, its program headers (or how many can be read), its
\* contents, which tables its dynamic section names, and those tables.  The tables of
\* addresses are words of the image, and so are the st_values of the symbols, from symtab
\* on, one word for each.  The size of a table is there when the table is
\* ("mandatory if" in the gABI): the sizes that LeafLoadFromBuffer does not initialise.
\* ABS is R_ARM_ABS32, R_AARCH64_ABS64 or R_386_32.
Headers == {"ok", "short", "magic", "class", "data", "version", "type"}
RelocTypes == {"RELATIVE", "GLOB_DAT", "JUMP_SLOT", "ABS", "NONE"}
Segment == [type : STRING, offset : Nat, vaddr : Nat, filesz : Nat, memsz : Nat]
Symbol == [name : STRING, shndx : STRING, value : Nat, func : BOOLEAN]

IsFile(f) ==
    LET Entry == [where : Nat, type : RelocTypes, sym : DOMAIN f.syms, addend : Nat]
    IN  /\ f.header \in Headers
        /\ f.needed \in Seq(Libs) /\ f.contents \in Seq(Nat) /\ f.phdrs \in Seq(Segment)
        /\ f.syms \in Seq(Symbol) /\ f.symtab \in Nat /\ f.relocs \in Seq(Entry) /\ f.plt \in Seq(Entry)
        /\ \A table \in {f.init, f.fini} : table.at \in Nat /\ table.count \in Nat

ASSUME ElfLoadAssumption ==
    /\ DOMAIN Files = Builds /\ \A b \in Builds : \A l \in DOMAIN Files[b] : IsFile(Files[b][l])
    /\ Base \in Nat /\ Base > 0 /\ Base % 2 = 0 /\ Stub \in Nat /\ Stub > 0
    /\ \A l \in Libs : \A name \in DOMAIN Provides[l] : Provides[l][name] \in Nat \ {0}
    /\ None \notin Libs
    /\ MapFails \in BOOLEAN /\ ReadFails \in BOOLEAN

VARIABLES build, lib,   \* the platform, and which library it is given
          caller,         \* android_main, or a program that uses the interface of Leaf
          pc, error,      \* where the loader is, and what it returned
          mem, len,       \* the image and its length: blob, blob_length
          handles,        \* dl_handles: a library, or None where dlopen failed
          i,              \* how far the loop is that runs: over program headers, relocations,
                    \* or the functions of init_array or fini_array
          opened,         \* how many handles of each library are open
          ran,            \* the functions called so far
          heap            \* the blocks that are allocated

elfVars == <<build, lib, caller, pc, error, mem, len, handles, i, opened, ran, heap>>

file == Files[build][lib]
NoMem == << >>
ElfInit ==
    /\ build \in Builds /\ lib \in DOMAIN Files[build]
    /\ caller \in {"android_main", "program"}
    /\ pc = IF caller = "program" THEN "file" ELSE "header"
    /\ error = None /\ mem = NoMem /\ len = 0 /\ handles = << >>
    /\ i = 0 /\ opened = [l \in Libs |-> 0] /\ ran = << >> /\ heap = {"self"}

\* LeafLoadFromBuffer returns: the buffer of LeafLoadFromFile is freed.
Return(what) ==
    /\ error' = what
    /\ pc' = IF what = None THEN "loaded" ELSE "failed"

Fail(what) == Return(what) /\ heap' = heap \ {"data"}

------------------------------------------------------------------------------
\* LeafLoadFromFile up to its call of LeafLoadFromBuffer.
ReadFile ==
    /\ pc = "file"
    /\ \/ pc' = "header" /\ heap' = heap \cup {"data"} /\ UNCHANGED error
       \/ ReadFails /\ \E what \in {"open", "data", "read"} : Fail(what)
    /\ UNCHANGED <<build, lib, caller, mem, len, handles, i, opened, ran>>

\* The header is read if the file is long enough, and must be that of a shared object
\* for this platform.
ReadHeader ==
    /\ pc = "header"
    /\ IF file.header = "ok"
       THEN pc' = "phdrs" /\ heap' = heap \cup {"stream", "ehdr"} /\ UNCHANGED error
       ELSE /\ Return(file.header)
            /\ heap' = (heap \ {"data"}) \cup {"stream"}
                           \cup IF file.header = "short" THEN {} ELSE {"ehdr"}
    /\ UNCHANGED <<build, lib, caller, mem, len, handles, i, opened, ran>>

\* phdrs[phnum] is set before the entries are: until they are read, they are garbage.
ReadPhdrs ==
    /\ pc = "phdrs"
    /\ \/ ReadFails /\ Fail("alloc")
       \/ IF file.readable < Len(file.phdrs)
          THEN Return("phdr") /\ heap' = (heap \ {"data"}) \cup {"phdrs"}
          ELSE pc' = "map" /\ heap' = heap \cup {"phdrs"} /\ UNCHANGED error
    /\ UNCHANGED <<build, lib, caller, mem, len, handles, i, opened, ran>>

Loads(f) == {n \in DOMAIN f.phdrs : f.phdrs[n].type = "LOAD"}
LastLoad(f) == CHOOSE n \in Loads(f) : \A m \in Loads(f) : m <= n

\* The last PT_LOAD, which should be the highest.
Highest(f) == LET p == f.phdrs[LastLoad(f)] IN p.vaddr + p.memsz

\* Memory is zero but for the segments.
Map ==
    /\ pc = "map" /\ len' = Highest(file)
    /\ \/ /\ pc' = "copy" /\ mem' = [a \in 0..(Highest(file) - 1) |-> 0]
          /\ UNCHANGED <<error, heap>>
       \/ MapFails /\ Fail("mmap") /\ UNCHANGED mem
    /\ UNCHANGED <<build, lib, caller, handles, i, opened, ran>>

InSegment(p, a) == p.type = "LOAD" /\ a \in p.vaddr..(p.vaddr + p.filesz - 1)
ByteOf(f, p, a) == f.contents[p.offset + a - p.vaddr + 1]

CopySegment(m, p) == [a \in DOMAIN m |-> IF InSegment(p, a) THEN ByteOf(file, p, a) ELSE m[a]]

\* PT_LOAD is copied, PT_DYNAMIC is found, everything else is skipped.
Copy ==
    /\ pc = "copy"
    /\ IF i < Len(file.phdrs)
       THEN /\ mem' = CopySegment(mem, file.phdrs[i + 1]) /\ i' = i + 1
            /\ UNCHANGED <<pc, error, heap>>
       ELSE /\ IF \E n \in DOMAIN file.phdrs : file.phdrs[n].type = "DYNAMIC"
               THEN pc' = "dynamic" /\ UNCHANGED <<error, heap>> ELSE Fail("dynamic")
            /\ i' = 0 /\ UNCHANGED mem
    /\ UNCHANGED <<build, lib, caller, len, handles, opened, ran>>

\* One pass over the dynamic section; the tables that must be there are asked for after it.
ReadDynamic ==
    /\ pc = "dynamic"
    /\ LET needed == IF file.needed = << >> THEN {} ELSE {"dl_handles"}
       IN  IF Tables \subseteq file.tables
           THEN pc' = "open" /\ heap' = heap \cup needed /\ UNCHANGED error
           ELSE Return("table") /\ heap' = (heap \ {"data"}) \cup needed
    /\ UNCHANGED <<build, lib, caller, mem, len, handles, i, opened, ran>>

\* dlopen of the next needed library.  "Continuing anyways" when it fails.
Open ==
    /\ pc = "open" /\ Len(handles) < Len(file.needed)
    /\ LET l == file.needed[Len(handles) + 1]
       IN  \/ handles' = Append(handles, l) /\ opened' = [opened EXCEPT ![l] = @ + 1]
           \/ handles' = Append(handles, None) /\ UNCHANGED opened
    /\ UNCHANGED <<build, lib, caller, pc, error, mem, len, i, ran, heap>>

Providers(name) ==
    {j \in DOMAIN handles : handles[j] # None /\ name \in DOMAIN Provides[handles[j]]}
First(S) == CHOOSE j \in S : \A k \in S : j <= k

\* The words of the image in which the st_values are.
SymWord(n) == file.symtab + n - 1
SymbolTable == {SymWord(n) : n \in DOMAIN file.syms}
SymbolAt(a) == a - file.symtab + 1

\* st_value of symbol n after the loop over the symbol table.
Fixed(n) ==
    LET s == file.syms[n]
        st_value == mem[SymWord(n)]
    IN  CASE s.shndx \in {"ABS", "COMMON"} -> st_value
          [] s.shndx = "UNDEF" /\ Providers(s.name) # {} ->
                 Provides[handles[First(Providers(s.name))]][s.name]
          [] s.shndx = "UNDEF" /\ Providers(s.name) = {} -> st_value
          [] OTHER -> st_value + Base

\* LeafSymbolInfo and LeafSymbolAddr: the first symbol of that name, or nothing.
Named(name) == {n \in DOMAIN file.syms : file.syms[n].name = name}
LeafSymbolAddr(name) == IF Named(name) = {} THEN NULL ELSE mem[SymWord(First(Named(name)))]

\* The first symbol of each of these names is replaced at last.
FixedOrStub(n) ==
    IF \E name \in Atexit : Named(name) # {} /\ n = First(Named(name)) THEN Stub ELSE Fixed(n)

FixSymbols ==
    /\ pc = "open" /\ Len(handles) = Len(file.needed) /\ pc' = "relocs"
    /\ mem' = [a \in DOMAIN mem |-> IF a \in SymbolTable THEN FixedOrStub(SymbolAt(a)) ELSE mem[a]]
    /\ UNCHANGED <<build, lib, caller, error, len, handles, i, opened, ran, heap>>

------------------------------------------------------------------------------
Or1(x) == IF x % 2 = 0 THEN x + 1 ELSE x
Even(x) == x - (x % 2)

\* What LeafDoRela and LeafDoRel store for a type their build knows; they skip the others.
Known(r) ==
    /\ file.pltrel = IF build = "aarch64" THEN "RELA" ELSE "REL"
    /\ r.type \in {"RELATIVE", "GLOB_DAT", "JUMP_SLOT"}

LeafDoRela(r) == IF r.type = "RELATIVE" THEN Base + r.addend ELSE mem[SymWord(r.sym)] + r.addend

LeafDoRel(r) ==
    LET S == mem[SymWord(r.sym)]
        T == build = "arm" /\ file.syms[r.sym].func /\ S % 2 = 1
    IN  CASE r.type = "RELATIVE" -> Base + mem[r.where]
          [] r.type = "GLOB_DAT" /\ build = "arm" ->
                 IF T THEN Or1(mem[r.where] + Even(S)) ELSE mem[r.where] + Even(S)
          [] OTHER -> S

DoReloc(r) ==
    IF ~Known(r) THEN mem
    ELSE [mem EXCEPT ![r.where] = IF file.pltrel = "RELA" THEN LeafDoRela(r) ELSE LeafDoRel(r)]

\* The main table, then the PLT.
Relocate ==
    /\ pc \in {"relocs", "plt"}
    /\ LET table == IF pc = "relocs" THEN file.relocs ELSE file.plt
       IN  IF i < Len(table)
           THEN mem' = DoReloc(table[i + 1]) /\ i' = i + 1 /\ UNCHANGED pc
           ELSE i' = 0 /\ pc' = (IF pc = "relocs" THEN "plt" ELSE "init") /\ UNCHANGED mem
    /\ UNCHANGED <<build, lib, caller, error, len, handles, opened, ran, heap>>

Call(f) == ran' = IF f = NULL THEN ran ELSE Append(ran, f)

CallInit ==
    /\ pc = "init"
    /\ IF i < file.init.count
       THEN /\ Call(mem[file.init.at + i]) /\ i' = i + 1
            /\ UNCHANGED <<pc, error, heap>>
       ELSE /\ Return(None) /\ heap' = heap \ {"stream", "data"} /\ i' = 0
            /\ UNCHANGED ran
    /\ UNCHANGED <<build, lib, caller, mem, len, handles, opened>>

\* LeafFree begins with LeafFinish, backwards; fini_count is 0 until the dynamic section
\* was read, so that only a library that was loaded has functions to call.
LeafFinish ==
    /\ pc = "loaded" /\ caller = "program" /\ i < file.fini.count
    /\ Call(mem[file.fini.at + file.fini.count - (i + 1)]) /\ i' = i + 1
    /\ UNCHANGED <<build, lib, caller, pc, error, mem, len, handles, opened, heap>>

\* Mutant: a handle that is NULL ends the loop.
ClosedUpToNull == {n \in DOMAIN handles : \A m \in 1..n : handles[m] # None}

\* The handles that are closed.
Closed == {n \in DOMAIN handles : handles[n] # None}

\* What LeafFree finds half built: program headers of which only some are set, and handles
\* that are still offsets of the names.  The outcome depends on what is in that memory.
HalfBuilt == error = "phdr" \/ (error = "table" /\ file.needed # << >>)

\* The rest of LeafFree, at any time: it reads through phdrs, which is NULL until the
\* program headers are read.  munmap of what was not mapped does nothing.
LeafFree ==
    /\ pc \in {"file", "loaded", "failed"} /\ caller = "program"
    /\ pc = "loaded" => i = file.fini.count
    /\ \/ /\ "phdrs" \in heap /\ pc' = "freed"
          /\ opened' = [l \in Libs |-> opened[l] - Cardinality({n \in Closed : handles[n] = l})]
          /\ heap' = heap \ {"self", "phdrs", "dl_handles"} /\ mem' = NoMem
       \/ /\ "phdrs" \notin heap \/ HalfBuilt
          /\ pc' = "crashed" /\ UNCHANGED <<opened, heap, mem>>
    /\ UNCHANGED <<build, lib, caller, error, len, handles, i, ran>>

ElfNext ==
    \/ ReadFile \/ ReadHeader \/ ReadPhdrs \/ Map \/ Copy \/ ReadDynamic \/ Open
    \/ FixSymbols \/ Relocate \/ CallInit \/ LeafFinish \/ LeafFree

------------------------------------------------------------------------------
\* What the gABI and the supplements for the three processors say of the image, worked
\* out word by word.
FileWord(a) ==
    LET S == {p \in ToSet(file.phdrs) : InSegment(p, a)}
    IN  IF S = {} THEN 0 ELSE ByteOf(file, CHOOSE p \in S : TRUE, a)

\* The libraries are searched in the order in which they are needed, those that are not
\* there passed over; what nobody exports is weak, and 0.
Exported(l, name) == l # None /\ name \in DOMAIN Provides[l]

SymbolMeaning(n) ==
    LET s == file.syms[n]
        Has(j) == Exported(handles[j], s.name)
    IN  IF s.name \in Atexit THEN Stub
        ELSE IF s.shndx \in {"ABS", "COMMON"} THEN s.value
        ELSE IF s.shndx # "UNDEF" THEN Base + s.value
        ELSE IF \A j \in DOMAIN handles : ~Has(j) THEN 0
        ELSE LET j == CHOOSE j \in DOMAIN handles : Has(j) /\ \A k \in 1..(j - 1) : ~Has(k)
             IN  Provides[handles[j]][s.name]

\* (S + A) | T, for x = S + A.
ThumbOr(x, T) == IF x % 2 = 0 THEN x + T ELSE x

RelocMeaning(r) ==
    LET A == IF file.pltrel = "RELA" THEN r.addend ELSE FileWord(r.where)
        S == SymbolMeaning(r.sym)
        T == IF file.syms[r.sym].func THEN S % 2 ELSE 0
    IN  CASE r.type = "RELATIVE" -> Base + A
          [] r.type = "GLOB_DAT" -> (IF build = "i386" THEN S
                                     ELSE IF build = "arm" THEN ThumbOr(S - T + A, T) ELSE S + A)
          [] r.type = "JUMP_SLOT" -> (IF build = "aarch64" THEN S + A ELSE S)
          [] r.type = "ABS" -> (IF build = "arm" THEN ThumbOr(S - T + A, T) ELSE S + A)
          [] r.type = "NONE" -> FileWord(r.where)

\* A word of the symbol table holds the address of its symbol: that is how this loader
\* keeps it, not what the gABI says.
Meaning(a) ==
    LET R == {r \in ToSet(file.relocs \o file.plt) : r.where = a}
    IN  IF a \in SymbolTable THEN SymbolMeaning(SymbolAt(a))
        ELSE IF R = {} THEN FileWord(a) ELSE RelocMeaning(CHOOSE r \in R : TRUE)

\* "only implemented what's from libsmashhit.so": the words for which a relocation asks
\* that the loader does not implement.
Unimplemented == {r.where : r \in {q \in ToSet(file.relocs \o file.plt) : q.type = "ABS"}}

\* A library as linkers make it for platform b: segments lie apart and inside of the
\* file, the symbol table is in one of them, no symbol is undefined and has a value, a word
\* is relocated once, by the kind of table of the platform, and not in the symbol table,
\* and the tables of functions lie in the image.  Beyond that: what R_ARM_GLOB_DAT asks
\* for, data at an even address; and no ABS relocates a table of functions.
WellFormed(b, f) ==
    LET all == f.relocs \o f.plt
        EvenSym(s) ==
            /\ (s.value + IF s.shndx \in {"ABS", "COMMON", "UNDEF"} THEN 0 ELSE Base) % 2 = 0
            /\ s.name \notin Atexit
            /\ \A l \in Libs : s.name \in DOMAIN Provides[l] => Provides[l][s.name] % 2 = 0
    IN  /\ Loads(f) # {}
        /\ \A p \in ToSet(f.phdrs) : p.type = "LOAD" => p.offset + p.filesz <= Len(f.contents)
        /\ \A a \in 0..(Highest(f) - 1) : \A p, q \in ToSet(f.phdrs) :
              InSegment(p, a) /\ InSegment(q, a) => p = q
        /\ \A n \in DOMAIN f.syms : f.syms[n].shndx = "UNDEF" => f.syms[n].value = 0
        /\ \A n, m \in DOMAIN f.syms :
              f.syms[n].name \in Atexit /\ f.syms[m].name = f.syms[n].name => n = m
        /\ \A n \in DOMAIN f.syms :
              LET a == f.symtab + n - 1
              IN  /\ a < Highest(f)
                  /\ \E p \in ToSet(f.phdrs) : InSegment(p, a) /\ ByteOf(f, p, a) = f.syms[n].value
                  /\ \A m \in DOMAIN all : all[m].where # a
        /\ f.pltrel = IF b = "aarch64" THEN "RELA" ELSE "REL"
        /\ \A n, m \in DOMAIN all : all[n].where = all[m].where => n = m
        /\ \A table \in {f.init, f.fini} :
              \A n \in 1..table.count : table.at + n <= Highest(f)
        /\ \A n \in DOMAIN all : b = "arm" /\ all[n].type = "GLOB_DAT" =>
              f.syms[all[n].sym].func \/ EvenSym(f.syms[all[n].sym])
        /\ \A n \in DOMAIN all, table \in {f.init, f.fini} :
              all[n].type = "ABS" => all[n].where \notin table.at..(table.at + table.count - 1)

LibrariesWellFormed == \A b \in Builds : \A l \in DOMAIN Files[b] : WellFormed(b, Files[b][l])

\* A function of init_array, the first code of the library that runs, finds the image
\* that the linker of the system would have made, but for the addresses in the symbol
\* table and for the relocations that the loader does not implement.
InitSeesImage == pc = "init" => \A a \in DOMAIN mem \ Unimplemented : mem[a] = Meaning(a)

\* The functions run in their order, those of fini_array in the reverse order, and
\* those that are NULL do not run.
Due(table) == {n \in 1..table.count : Meaning(table.at + n - 1) # NULL}

RanAsDue ==
    LET inits == Due(file.init)
        finis == Due(file.fini)
    IN  /\ Len(ran) = Cardinality(inits) + Cardinality(finis)
        /\ \A n \in inits :
              ran[Cardinality({m \in inits : m <= n})] = Meaning(file.init.at + n - 1)
        /\ \A n \in finis :
              ran[Cardinality(inits) + Cardinality({m \in finis : m >= n})]
                  = Meaning(file.fini.at + n - 1)

\* "Free a loaded binary and any associated resources": when a library is freed, loaded or
\* not, no needed library is left open, only ehdr and the stream of a load that failed are
\* left on the heap, and the functions have run if it was loaded, or else none of them.
\* LeafFree kills the process only where the program headers, or the names of the needed
\* libraries, were not yet processed.
FreedMeansUndone ==
    /\ pc = "freed" =>
           /\ \A l \in Libs : opened[l] = 0
           /\ heap \subseteq IF error = None THEN {"ehdr"} ELSE {"ehdr", "stream"}
           /\ IF error = None THEN RanAsDue ELSE ran = << >>
    /\ pc = "crashed" => len = 0 \/ (error = "table" /\ file.needed # << >>)
==============================================================================
