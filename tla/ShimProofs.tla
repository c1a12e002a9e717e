----------------------------- MODULE ShimProofs -----------------------------
(***************************************************************************)
(* Theorems about ElfLoad and Shim: the loader makes the image that the    *)
(* psABI describes and undoes what it did, for every well-formed library   *)
(* and every combination of failures; and whatever scripts do, noclip does *)
(* not lose the word it hides, and a zip reader is closed once.            *)
(***************************************************************************)
EXTENDS Shim, FiniteSetTheorems, WellFoundedInduction, TLAPS

------------------------------------------------------------------------------
(* Overlays *)

\* A zip reader is opened when no overlay is mounted, and closed with the overlay.
THEOREM OneReader == Spec => []OverlayOwned
<1>1. Init => OverlayOwned
  BY DEF Init, OverlayOwned
<1>2. ASSUME OverlayOwned, [Next]_vars
      PROVE  OverlayOwned'
  <2>1. CASE UNCHANGED playVars
    BY <1>2, <2>1 DEF OverlayOwned, playVars
  <2>2. ASSUME NEW zip \in DOMAIN Zips, knMountOverlay(zip)
        PROVE  OverlayOwned'
    <3>1. zip # None
      BY ShimAssumption
    <3>2. CASE gZip = None /\ gZip' = zip /\ readers' = readers + 1
      BY <1>2, <3>1, <3>2 DEF OverlayOwned
    <3>3. CASE UNCHANGED playVars
      BY <2>1, <3>3
    <3>4. QED BY <2>2, <3>2, <3>3 DEF knMountOverlay, playVars
  <2>3. CASE knUnmountOverlay
    BY <1>2, <2>3 DEF knUnmountOverlay, OverlayOwned
  <2>4. CASE (app = "boot" /\ ElfNext /\ UNCHANGED shimVars) \/ AndroidMain \/ UNCHANGED vars
    BY <2>1, <2>4 DEF AndroidMain, vars, shimVars, gameVars, playVars
  <2>5. CASE Game
    BY <2>1, <2>5 DEF Game, WasKeyPressed, ResManLoad, ScriptLoad, gameVars, playVars
  <2>6. CASE \/ \E on \in BOOLEAN : knSetNoclip(on)
             \/ \E word \in Pokes : knPoke(word)
             \/ knInvertBranch \/ knReload \/ knEnableReloading \/ knDownloadFile
    BY <2>1, <2>6 DEF knSetNoclip, knPoke, Write, knInvertBranch, knReload, knEnableReloading,
                      knDownloadFile, gameVars, playVars
  <2>7. QED BY <1>2, <2>2, <2>3, <2>4, <2>5, <2>6 DEF Next, Script
<1>3. QED BY <1>1, <1>2, PTL DEF Spec

------------------------------------------------------------------------------
(* The inductive invariants *)

Image == 0..(Highest(file) - 1)
Mapped == {"copy", "dynamic", "open", "relocs", "plt", "init", "loaded"}

\* Once it is mapped, the image has its length; and the game runs only after it was
\* loaded.
LayoutInv ==
    /\ build \in Builds /\ lib \in DOMAIN Files[build]
    /\ handles \in Seq(Libs \cup {None}) /\ i \in Nat
    /\ app \in {"boot", "running", "stopped"}
    /\ app # "boot" => pc \in {"loaded", "failed"}
    /\ app = "running" => pc = "loaded"
    /\ pc \in Mapped => DOMAIN mem = Image

\* Scripts see the image as it was when the game started, and do not write over the
\* address of hitSomething.
HitWord == SymWord(First(Named(Hit)))
NoclipInv ==
    /\ app = "boot" => gNoclipBufferedInstruction = Ret
    /\ app = "running" =>
          Named(Hit) # {} /\ HitAt = mem[HitWord] - Base /\ HitAt \in Image /\ HitAt # HitWord
    /\ NoclipIsCode

\* The first n program headers are copied; the first n relocations are done.
AllRelocs == file.relocs \o file.plt
nRelocs == Len(file.relocs)
nPlt == Len(file.plt)
Copied(n) ==
    \A a \in Image :
        mem[a] = IF \E m \in 1..n : InSegment(file.phdrs[m], a) THEN FileWord(a) ELSE 0
Relocated(n) ==
    \A a \in Image \ Unimplemented :
        mem[a] = IF a \in SymbolTable \/ \E m \in 1..n : AllRelocs[m].where = a
                 THEN Meaning(a) ELSE FileWord(a)

ImageInv ==
    /\ pc \in {"file", "header", "phdrs", "map", "dynamic", "open"} => i = 0
    /\ pc = "copy" => i <= Len(file.phdrs) /\ Copied(i)
    /\ pc \in {"dynamic", "open"} => \A a \in Image : mem[a] = FileWord(a)
    /\ pc = "relocs" => i <= nRelocs /\ Relocated(i)
    /\ pc = "plt" => i <= nPlt /\ Relocated(nRelocs + i)
    /\ app = "boot" /\ pc \in {"init", "loaded"} => \A a \in Image \ Unimplemented : mem[a] = Meaning(a)

\* What has run after n functions of init_array, and after n of fini_array.
Inits == Due(file.init)
Finis == Due(file.fini)
UpTo(S, n) == {m \in S : m <= n}
From(S, n) == {m \in S : m >= n}

InitsRan(n) ==
    \A m \in UpTo(Inits, n) :
        ran[Cardinality(UpTo(Inits, m))] = Meaning(file.init.at + m - 1)
FinisRan(n) ==
    \A m \in From(Finis, n) :
        ran[Cardinality(Inits) + Cardinality(From(Finis, m))] = Meaning(file.fini.at + m - 1)

\* What is allocated, and how far a load that failed had got.
HeapInv ==
    /\ heap \subseteq {"self", "data", "stream", "ehdr", "phdrs", "dl_handles"}
    /\ pc \notin {"failed", "freed", "crashed"} => error = None
    /\ pc \in {"file", "header", "phdrs", "map"} => len = 0
    /\ pc = "file" => "phdrs" \notin heap
    /\ pc \in Mapped \cup {"map"} => "phdrs" \in heap
    /\ pc = "loaded" => "data" \notin heap /\ "stream" \notin heap
    /\ pc = "failed" => /\ error # None /\ "data" \notin heap
                        /\ "phdrs" \notin heap \/ error = "phdr" => len = 0

UndoneInv ==
    /\ ran \in Seq(Int)
    /\ pc # "freed" => opened = [l \in Libs |-> Cardinality({n \in DOMAIN handles : handles[n] = l})]
    /\ pc \in {"file", "header", "phdrs", "map", "copy", "dynamic", "open", "relocs", "plt", "failed"} =>
          ran = << >>
    /\ pc = "init" =>
          /\ i <= file.init.count /\ Len(ran) = Cardinality(UpTo(Inits, i)) /\ InitsRan(i)
    /\ app = "boot" /\ pc = "loaded" =>
          LET n == file.fini.count - i + 1
          IN  /\ i <= file.fini.count
              /\ Len(ran) = Cardinality(Inits) + Cardinality(From(Finis, n))
              /\ InitsRan(file.init.count) /\ FinisRan(n)
    /\ FreedMeansUndone

------------------------------------------------------------------------------
(* The symbols of the library *)

\* What st_value and the image depend on does not change once the libraries are open.
LEMMA FileFrame ==
    ASSUME UNCHANGED <<build, lib>>
    PROVE  /\ file' = file
           /\ \A a : FileWord(a)' = FileWord(a)
           /\ \A name : Named(name)' = Named(name)
           /\ SymbolTable' = SymbolTable /\ Unimplemented' = Unimplemented
BY DEF file, FileWord, Named, SymbolTable, SymWord, Unimplemented

LEMMA SymbolFrame ==
    ASSUME UNCHANGED <<build, lib, handles>>
    PROVE  \A n : SymbolMeaning(n)' = SymbolMeaning(n)
BY DEF SymbolMeaning, file

LEMMA MeaningFrame ==
    ASSUME UNCHANGED <<build, lib, handles>>
    PROVE  /\ \A r : RelocMeaning(r)' = RelocMeaning(r)
           /\ \A a : Meaning(a)' = Meaning(a)
<1>1. /\ file' = file /\ build' = build /\ \A a : FileWord(a)' = FileWord(a)
      /\ SymbolTable' = SymbolTable
  BY FileFrame
<1>2. \A n : SymbolMeaning(n)' = SymbolMeaning(n)
  BY SymbolFrame
<1>3. \A r : RelocMeaning(r)' = RelocMeaning(r)
  BY <1>1, <1>2, ZenonT(30) DEF RelocMeaning
<1>4. \A a : Meaning(a)' = Meaning(a)
  BY <1>1, <1>2, <1>3 DEF Meaning, SymbolAt
<1>5. QED BY <1>3, <1>4

\* The first of a set of indexes is one of them.
LEMMA FirstInSet ==
    ASSUME NEW S \in SUBSET Nat, S # {}
    PROVE  First(S) \in S /\ \A n \in S : First(S) <= n
<1>1. PICK m \in S : \A y \in S : ~(<<y, m>> \in OpToRel(<, Nat))
  BY NatLessThanWellFounded, WFMin
<1>2. \A y \in S : y \in Nat /\ ~(y < m)
  BY <1>1, Zenon DEF OpToRel
<1>3. \A y \in S : m <= y
  BY <1>2
<1>4. QED BY <1>3 DEF First

------------------------------------------------------------------------------
(* The layout of the image *)

LEMMA LayoutInit ==
    ASSUME Init
    PROVE  LayoutInv
BY DEF Init, ElfInit, LayoutInv, Mapped, NoMem

\* Every step of the loader.
LEMMA LayoutLoads ==
    ASSUME LayoutInv, app = "boot", UNCHANGED app, ElfNext
    PROVE  LayoutInv'
<1>1. UNCHANGED <<build, lib>>
  BY DEF ElfNext, ReadFile, ReadHeader, ReadPhdrs, Map, Copy, ReadDynamic, Open, FixSymbols,
         Relocate, CallInit, LeafFinish, LeafFree
<1>2. file' = file /\ Image' = Image /\ IsFile(file)
  BY <1>1, ElfLoadAssumption DEF LayoutInv, file, Image
<1>3. CASE ReadFile
  BY <1>1, <1>2, <1>3 DEF LayoutInv, ReadFile, Fail, Return, None, Mapped
<1>4. CASE ReadHeader
  BY <1>1, <1>2, <1>4 DEF LayoutInv, ReadHeader, Return, None, Headers, IsFile, Mapped
<1>5. CASE ReadPhdrs
  BY <1>1, <1>2, <1>5 DEF LayoutInv, ReadPhdrs, Fail, Return, None, Mapped
<1>6. CASE Map
  BY <1>1, <1>2, <1>6 DEF LayoutInv, Map, Fail, Return, None, Mapped, Image
<1>7. CASE Copy
  BY <1>1, <1>2, <1>7 DEF LayoutInv, Copy, CopySegment, Fail, Return, None, Mapped
<1>8. CASE ReadDynamic
  BY <1>1, <1>2, <1>8 DEF LayoutInv, ReadDynamic, Return, None, Mapped
<1>9. CASE Open
  <2>1. file.needed[Len(handles) + 1] \in Libs
    BY <1>2, <1>9 DEF Open, IsFile, LayoutInv
  <2>2. handles' \in Seq(Libs \cup {None})
    BY <1>9, <2>1, SMTT(30) DEF Open, LayoutInv
  <2>3. QED BY <1>1, <1>2, <1>9, <2>2 DEF LayoutInv, Open, Mapped
<1>10. CASE FixSymbols
  BY <1>1, <1>2, <1>10 DEF LayoutInv, FixSymbols, Mapped
<1>11. CASE Relocate
  BY <1>1, <1>2, <1>11 DEF LayoutInv, Relocate, DoReloc, Mapped
<1>12. CASE CallInit
  BY <1>1, <1>2, <1>12 DEF LayoutInv, CallInit, Return, None, Mapped
<1>13. CASE LeafFinish
  BY <1>1, <1>2, <1>13 DEF LayoutInv, LeafFinish, Mapped
<1>14. CASE LeafFree
  BY <1>1, <1>2, <1>14 DEF LayoutInv, LeafFree, Mapped
<1>15. QED BY <1>3, <1>4, <1>5, <1>6, <1>7, <1>8, <1>9, <1>10, <1>11, <1>12, <1>13, <1>14 DEF ElfNext

\* Every step of a script or the game keeps the domain of the image.
LEMMA GameKeepsDomain ==
    ASSUME Script \/ Game
    PROVE  DOMAIN mem' = DOMAIN mem /\ UNCHANGED imageVars /\ app = "running"
BY DEF vars, shimVars, gameVars, elfVars, imageVars, Script, Game, knSetNoclip, knPoke,
       Write, knInvertBranch, knReload, knEnableReloading, knMountOverlay, knUnmountOverlay,
       knDownloadFile, WasKeyPressed, ResManLoad, ScriptLoad, noclipVars, frameVars, hookVars,
       playVars

LEMMA LayoutStep ==
    ASSUME LayoutInv, [Next]_vars
    PROVE  LayoutInv'
<1>1. CASE app = "boot" /\ ElfNext /\ UNCHANGED shimVars
  BY <1>1, LayoutLoads DEF shimVars
<1>2. ASSUME UNCHANGED <<build, lib, handles, i, pc>>, DOMAIN mem' = DOMAIN mem,
             app' \in {"boot", "running", "stopped"},
             app' # "boot" => pc \in {"loaded", "failed"}, app' = "running" => pc = "loaded"
      PROVE  LayoutInv'
  <2>1. file' = file /\ Image' = Image
    BY <1>2 DEF file, Image
  <2>2. QED BY <1>2, <2>1 DEF LayoutInv
<1>3. CASE AndroidMain
  BY <1>2, <1>3 DEF AndroidMain, elfVars
<1>4. CASE Script \/ Game
  BY <1>2, <1>4, GameKeepsDomain DEF LayoutInv, imageVars
<1>5. CASE UNCHANGED vars
  BY <1>2, <1>5 DEF LayoutInv, vars, elfVars, shimVars
<1>6. QED BY <1>1, <1>3, <1>4, <1>5 DEF Next

LEMMA Layout == Spec => []LayoutInv
BY LayoutInit, LayoutStep, PTL DEF Spec

LEMMA IsFileFacts ==
    ASSUME LayoutInv
    PROVE  /\ IsFile(file)
           /\ file.syms \in Seq(Symbol) /\ file.contents \in Seq(Nat) /\ file.phdrs \in Seq(Segment)
           /\ DOMAIN file.syms \subseteq Nat
           /\ \A n \in DOMAIN file.syms : file.syms[n].value \in Nat
<1>1. IsFile(file)
  BY ElfLoadAssumption DEF LayoutInv, file
<1>2. file.syms \in Seq(Symbol) /\ file.contents \in Seq(Nat) /\ file.phdrs \in Seq(Segment)
  BY <1>1, Zenon DEF IsFile
<1>3. DOMAIN file.syms \subseteq Nat /\ \A n \in DOMAIN file.syms : file.syms[n] \in Symbol
  BY <1>2
<1>4. \A s \in Symbol : s.value \in Nat
  BY DEF Symbol
<1>5. QED BY <1>1, <1>2, <1>3, <1>4

------------------------------------------------------------------------------
(* What the words of the image mean *)

FileWellFormed == WellFormed(build, file)

LEMMA WellFormedNow ==
    ASSUME LayoutInv, LibrariesWellFormed
    PROVE  FileWellFormed
BY ElfLoadAssumption DEF LayoutInv, LibrariesWellFormed, FileWellFormed, file

\* A word of the file is copied from one segment.
LEMMA SegmentWord ==
    ASSUME LayoutInv, FileWellFormed, NEW a \in Image,
           NEW n \in DOMAIN file.phdrs, InSegment(file.phdrs[n], a)
    PROVE  FileWord(a) = ByteOf(file, file.phdrs[n], a) /\ FileWord(a) \in Nat
<1> DEFINE p == file.phdrs[n]
<1>1. p \in ToSet(file.phdrs) /\ p \in Segment
  BY IsFileFacts DEF ToSet
<1>2. \A q \in ToSet(file.phdrs) : InSegment(q, a) => q = p
  BY <1>1, ZenonT(30) DEF FileWellFormed, WellFormed, Image
<1>3. p.type = "LOAD" => p.offset + p.filesz <= Len(file.contents)
  BY <1>1, ZenonT(30) DEF FileWellFormed, WellFormed
<1>4. FileWord(a) = ByteOf(file, p, a)
  <2> DEFINE S == {q \in ToSet(file.phdrs) : InSegment(q, a)}
  <2>1. S = {p}
    BY <1>1, <1>2
  <2>2. QED BY <2>1 DEF FileWord
<1>5. p.offset + a - p.vaddr + 1 \in 1..Len(file.contents)
  <2>1. p.offset \in Nat /\ p.vaddr \in Nat /\ p.filesz \in Nat
    BY <1>1 DEF Segment
  <2>2. a \in p.vaddr..(p.vaddr + p.filesz - 1) /\ p.offset + p.filesz <= Len(file.contents)
    BY <1>3 DEF InSegment
  <2>3. Len(file.contents) \in Nat
    BY IsFileFacts
  <2> DEFINE off == p.offset
             v == p.vaddr
             size == p.filesz
             z == Len(file.contents)
  <2>4. off \in Nat /\ v \in Nat /\ size \in Nat /\ z \in Nat /\ a \in v..(v + size - 1) /\ off + size <= z
    BY <2>1, <2>2, <2>3, Zenon
  <2> HIDE DEF off, v, size, z
  <2>5. off + a - v + 1 \in 1..z
    BY ONLY <2>4
  <2>6. QED BY <2>5, Zenon DEF off, v, z
<1>6. QED BY <1>4, <1>5, IsFileFacts DEF ByteOf

LEMMA OtherWord ==
    ASSUME NEW a, \A n \in DOMAIN file.phdrs : ~InSegment(file.phdrs[n], a)
    PROVE  FileWord(a) = 0
<1>1. {p \in ToSet(file.phdrs) : InSegment(p, a)} = {}
  BY DEF ToSet
<1>2. QED BY <1>1 DEF FileWord

LEMMA FileWordNat ==
    ASSUME LayoutInv, FileWellFormed, NEW a \in Image
    PROVE  FileWord(a) \in Nat
<1>1. CASE \E n \in DOMAIN file.phdrs : InSegment(file.phdrs[n], a)
  BY <1>1, SegmentWord
<1>2. CASE \A n \in DOMAIN file.phdrs : ~InSegment(file.phdrs[n], a)
  BY <1>2, OtherWord
<1>3. QED BY <1>1, <1>2

\* The last of a set of indexes is one of them.
LEMMA LastInSet ==
    ASSUME NEW n \in Nat, NEW S \in SUBSET (1..n), S # {}
    PROVE  (CHOOSE k \in S : \A m \in S : m <= k) \in S
<1> DEFINE D == {d \in Nat : \E k \in S : k = n - d}
<1>1. PICK k \in S : TRUE
  OBVIOUS
<1>2. n - k \in Nat /\ k = n - (n - k)
  BY <1>1
<1>3. D # {} /\ D \in SUBSET Nat
  BY <1>1, <1>2
<1>4. First(D) \in D /\ \A d \in D : First(D) <= d
  BY <1>3, FirstInSet
<1>5. n - First(D) \in S /\ First(D) \in Nat
  BY <1>4
<1>6. ASSUME NEW m \in S PROVE m <= n - First(D)
  <2>1. n - m \in Nat /\ m = n - (n - m) /\ m \in Nat
    BY <1>6
  <2>2. n - m \in D
    BY <2>1
  <2>3. First(D) <= n - m
    BY <1>4, <2>2
  <2>4. QED BY <1>5, <2>1, <2>3
<1>7. QED BY <1>5, <1>6

LEMMA HighestNat ==
    ASSUME LayoutInv, FileWellFormed
    PROVE  Highest(file) \in Nat
<1>1. Loads(file) # {} /\ Loads(file) \in SUBSET (1..Len(file.phdrs)) /\ Len(file.phdrs) \in Nat
  <2>1. DOMAIN file.phdrs = 1..Len(file.phdrs) /\ Len(file.phdrs) \in Nat
    BY IsFileFacts
  <2>2. Loads(file) # {}
    BY ZenonT(30) DEF FileWellFormed, WellFormed
  <2>3. QED BY <2>1, <2>2 DEF Loads
<1>2. LastLoad(file) \in Loads(file)
  BY <1>1, LastInSet DEF LastLoad
<1>3. file.phdrs[LastLoad(file)] \in Segment
  BY <1>1, <1>2, IsFileFacts
<1>4. \A p \in Segment : p.vaddr + p.memsz \in Nat
  BY DEF Segment
<1>5. QED BY <1>3, <1>4 DEF Highest

\* The order of the loops in which the loader looks for a symbol is the order in which
\* the libraries are needed.
LEMMA FirstProvider ==
    ASSUME LayoutInv, NEW name, Providers(name) # {}
    PROVE  LET f == First(Providers(name))
           IN  /\ f \in DOMAIN handles /\ Exported(handles[f], name)
               /\ f = CHOOSE j \in DOMAIN handles :
                         Exported(handles[j], name) /\ \A k \in 1..(j - 1) : ~Exported(handles[k], name)
<1> DEFINE f == First(Providers(name))
           Is(j) == Exported(handles[j], name) /\ \A k \in 1..(j - 1) : ~Exported(handles[k], name)
<1>1. DOMAIN handles = 1..Len(handles) /\ Len(handles) \in Nat
  BY DEF LayoutInv
<1>2. Providers(name) \in SUBSET Nat
  BY <1>1 DEF Providers
<1>3. f \in Providers(name) /\ \A k \in Providers(name) : f <= k
  BY <1>2, FirstInSet
<1>4. \A j \in DOMAIN handles : j \in Providers(name) <=> Exported(handles[j], name)
  BY DEF Providers, Exported
<1>5. f \in DOMAIN handles /\ Is(f)
  <2>1. f \in DOMAIN handles /\ Exported(handles[f], name)
    BY <1>3, <1>4 DEF Providers
  <2>2. \A k \in 1..(f - 1) : k \in DOMAIN handles /\ ~(f <= k)
    BY <2>1, <1>1
  <2>3. QED BY <2>1, <2>2, <1>3, <1>4
<1>6. \A j \in DOMAIN handles : Is(j) => j = f
  <2>1. SUFFICES ASSUME NEW j \in DOMAIN handles, Is(j)
                 PROVE  j = f
    OBVIOUS
  <2>2. f <= j
    BY <2>1, <1>3, <1>4
  <2>3. ~(f \in 1..(j - 1))
    BY <2>1, <1>5
  <2>4. QED BY <2>1, <2>2, <2>3, <1>1, <1>5
<1>7. f = CHOOSE j \in DOMAIN handles : Is(j)
  BY <1>5, <1>6
<1>8. QED BY <1>5, <1>7

\* The symbol table lies in a segment, and nothing relocates it.
LEMMA SymbolWord ==
    ASSUME LayoutInv, FileWellFormed, NEW n \in DOMAIN file.syms
    PROVE  LET a == SymWord(n)
           IN  /\ a \in Image /\ a \in SymbolTable /\ SymbolAt(a) = n
               /\ FileWord(a) = file.syms[n].value
               /\ a \notin Unimplemented /\ Meaning(a) = SymbolMeaning(n)
<1> DEFINE a == SymWord(n)
<1>1. n \in Nat /\ n >= 1 /\ file.symtab \in Nat
  <2>1. file.symtab \in Nat
    BY IsFileFacts, Zenon DEF IsFile
  <2>2. DOMAIN file.syms = 1..Len(file.syms) /\ Len(file.syms) \in Nat
    BY IsFileFacts
  <2>3. QED BY <2>1, <2>2
<1>2. a \in Nat /\ SymbolAt(a) = n
  BY <1>1 DEF SymWord, SymbolAt
<1>3. a \in SymbolTable
  BY DEF SymbolTable
<1>4. /\ a < Highest(file)
      /\ \E p \in ToSet(file.phdrs) : InSegment(p, a) /\ ByteOf(file, p, a) = file.syms[n].value
      /\ \A m \in DOMAIN AllRelocs : AllRelocs[m].where # a
  BY ZenonT(30) DEF FileWellFormed, WellFormed, SymWord, AllRelocs
<1>5. a \in Image
  BY <1>2, <1>4, HighestNat DEF Image
<1>6. PICK k \in DOMAIN file.phdrs :
          InSegment(file.phdrs[k], a) /\ ByteOf(file, file.phdrs[k], a) = file.syms[n].value
  BY <1>4, Zenon DEF ToSet
<1>7. FileWord(a) = file.syms[n].value
  BY <1>5, <1>6, SegmentWord
<1>8. a \notin Unimplemented
  BY <1>4 DEF Unimplemented, ToSet, AllRelocs
<1>9. Meaning(a) = SymbolMeaning(n)
  BY <1>2, <1>3 DEF Meaning
<1>10. QED BY <1>2, <1>3, <1>5, <1>7, <1>8, <1>9

\* st_value, when the loop over the symbol table has ended, is what the symbol means.
LEMMA SymbolIsMeant ==
    ASSUME LayoutInv, FileWellFormed, NEW n \in DOMAIN file.syms
    PROVE  /\ mem[SymWord(n)] = FileWord(SymWord(n)) => FixedOrStub(n) = SymbolMeaning(n)
           /\ SymbolMeaning(n) \in Nat
<1> DEFINE s == file.syms[n]
           loaded == mem[SymWord(n)] = FileWord(SymWord(n))
<1>0. loaded => mem[SymWord(n)] = s.value
  BY SymbolWord
<1> HIDE DEF loaded
<1>1. \A name \in Atexit : (Named(name) # {} /\ n = First(Named(name))) <=> s.name = name
  <2>1. SUFFICES ASSUME NEW name \in Atexit
                 PROVE  (Named(name) # {} /\ n = First(Named(name))) <=> s.name = name
    OBVIOUS
  <2>2. Named(name) \in SUBSET Nat
    BY IsFileFacts DEF Named
  <2>3. Named(name) # {} => First(Named(name)) \in Named(name)
    BY <2>2, FirstInSet
  <2>4. ASSUME s.name = name PROVE Named(name) = {n}
    BY <2>1, <2>4, ZenonT(30) DEF Named, FileWellFormed, WellFormed
  <2>5. QED BY <2>3, <2>4 DEF Named
<1>2. CASE s.name \in Atexit
  BY <1>1, <1>2, ElfLoadAssumption DEF FixedOrStub, SymbolMeaning
<1>3. CASE s.name \notin Atexit
  <2>1. FixedOrStub(n) = Fixed(n)
    BY <1>1, <1>3 DEF FixedOrStub
  <2>2. s.value \in Nat
    BY IsFileFacts, SMTT(30)
  <2>3. CASE s.shndx # "UNDEF"
    <3>1. /\ SymbolMeaning(n) = IF s.shndx \in {"ABS", "COMMON"} THEN s.value ELSE Base + s.value
          /\ loaded => Fixed(n) = IF s.shndx \in {"ABS", "COMMON"} THEN s.value ELSE s.value + Base
      BY <1>0, <1>3, <2>3, ZenonT(30) DEF Fixed, SymbolMeaning
    <3>2. QED BY <2>1, <2>2, <3>1, ElfLoadAssumption DEF loaded
  <2>4. CASE s.shndx = "UNDEF" /\ Providers(s.name) = {}
    <3>1. loaded => Fixed(n) = 0
      BY <1>0, <2>4, ZenonT(30) DEF Fixed, FileWellFormed, WellFormed
    <3>2. \A j \in DOMAIN handles : ~Exported(handles[j], s.name)
      BY <2>4 DEF Providers, Exported
    <3>3. QED BY <1>3, <2>1, <2>4, <3>1, <3>2 DEF SymbolMeaning, loaded
  <2>5. CASE s.shndx = "UNDEF" /\ Providers(s.name) # {}
    <3> DEFINE f == First(Providers(s.name))
    <3>1. /\ f \in DOMAIN handles /\ Exported(handles[f], s.name)
          /\ f = CHOOSE j \in DOMAIN handles :
                    Exported(handles[j], s.name) /\ \A k \in 1..(j - 1) : ~Exported(handles[k], s.name)
      BY <2>5, FirstProvider, SMTT(30)
    <3>2. Fixed(n) = Provides[handles[f]][s.name]
      BY <2>5, SMTT(30) DEF Fixed
    <3>3. SymbolMeaning(n) = Provides[handles[f]][s.name]
      BY <1>3, <2>5, <3>1, SMTT(30) DEF SymbolMeaning
    <3>4. handles[f] \in Libs
      BY <3>1 DEF LayoutInv, Exported
    <3>5. QED BY <2>1, <3>1, <3>2, <3>3, <3>4, ElfLoadAssumption, ZenonT(30) DEF Exported
  <2>6. QED BY <2>3, <2>4, <2>5
<1>4. QED BY <1>2, <1>3 DEF loaded

------------------------------------------------------------------------------
(* What a relocation stores *)

Reloc == [where : Nat, type : RelocTypes, sym : DOMAIN file.syms, addend : Nat]

LEMMA Concatenated ==
    ASSUME NEW T, NEW s \in Seq(T), NEW t \in Seq(T)
    PROVE  /\ s \o t \in Seq(T) /\ Len(s \o t) = Len(s) + Len(t)
           /\ \A n \in 1..Len(s) : n \in DOMAIN (s \o t) /\ (s \o t)[n] = s[n]
           /\ \A n \in 1..Len(t) : Len(s) + n \in DOMAIN (s \o t) /\ (s \o t)[Len(s) + n] = t[n]
           /\ Len(s) \in Nat /\ Len(t) \in Nat /\ DOMAIN (s \o t) = 1..Len(s \o t)
           /\ Len(s \o t) \in Nat
OBVIOUS

LEMMA RelocTables ==
    ASSUME LayoutInv
    PROVE  /\ file.relocs \in Seq(Reloc) /\ file.plt \in Seq(Reloc) /\ AllRelocs \in Seq(Reloc)
           /\ nRelocs \in Nat /\ nPlt \in Nat /\ Len(AllRelocs) \in Nat
           /\ Len(AllRelocs) = nRelocs + nPlt /\ DOMAIN AllRelocs = 1..Len(AllRelocs)
           /\ \A n \in 1..nRelocs : n \in DOMAIN AllRelocs /\ AllRelocs[n] = file.relocs[n]
           /\ \A n \in 1..nPlt :
                 nRelocs + n \in DOMAIN AllRelocs /\ AllRelocs[nRelocs + n] = file.plt[n]
<1> DEFINE s == file.relocs
           t == file.plt
<1>1. s \in Seq(Reloc) /\ t \in Seq(Reloc)
  BY IsFileFacts, Zenon DEF IsFile, Reloc
<1>2. AllRelocs = s \o t /\ nRelocs = Len(s) /\ nPlt = Len(t)
  BY DEF AllRelocs, nRelocs, nPlt
<1> HIDE DEF s, t
<1>3. /\ s \o t \in Seq(Reloc) /\ Len(s \o t) = Len(s) + Len(t)
      /\ \A n \in 1..Len(s) : n \in DOMAIN (s \o t) /\ (s \o t)[n] = s[n]
      /\ \A n \in 1..Len(t) : Len(s) + n \in DOMAIN (s \o t) /\ (s \o t)[Len(s) + n] = t[n]
      /\ Len(s) \in Nat /\ Len(t) \in Nat /\ DOMAIN (s \o t) = 1..Len(s \o t)
      /\ Len(s \o t) \in Nat
  BY <1>1, Concatenated
<1>4. QED BY <1>1, <1>2, <1>3 DEF s, t

\* One turn of the two loops, as one loop over both tables.
LEMMA RelocateTurns ==
    ASSUME LayoutInv, Relocate
    PROVE  \/ /\ pc = "relocs" /\ i < nRelocs /\ mem' = DoReloc(AllRelocs[i + 1]) /\ i' = i + 1
              /\ pc' = "relocs" /\ i + 1 \in DOMAIN AllRelocs
           \/ pc = "relocs" /\ ~(i < nRelocs) /\ mem' = mem /\ i' = 0 /\ pc' = "plt"
           \/ /\ pc = "plt" /\ i < nPlt /\ mem' = DoReloc(AllRelocs[nRelocs + (i + 1)]) /\ i' = i + 1
              /\ pc' = "plt" /\ nRelocs + (i + 1) \in DOMAIN AllRelocs
           \/ pc = "plt" /\ ~(i < nPlt) /\ mem' = mem /\ i' = 0 /\ pc' = "init"
<1>1. i \in Nat /\ nRelocs \in Nat /\ nPlt \in Nat
  BY RelocTables DEF LayoutInv
<1>2. CASE pc = "relocs" /\ i < nRelocs
  <2>1. i + 1 \in 1..nRelocs
    BY <1>1, <1>2
  <2>2. i + 1 \in DOMAIN AllRelocs /\ AllRelocs[i + 1] = file.relocs[i + 1]
    BY <2>1, RelocTables
  <2>3. mem' = DoReloc(file.relocs[i + 1]) /\ i' = i + 1 /\ pc' = "relocs"
    BY <1>2 DEF Relocate, nRelocs
  <2>4. QED BY <1>2, <2>2, <2>3
<1>3. CASE pc = "plt" /\ i < nPlt
  <2>1. i + 1 \in 1..nPlt
    BY <1>1, <1>3
  <2>2. nRelocs + (i + 1) \in DOMAIN AllRelocs /\ AllRelocs[nRelocs + (i + 1)] = file.plt[i + 1]
    BY <2>1, RelocTables
  <2>3. mem' = DoReloc(file.plt[i + 1]) /\ i' = i + 1 /\ pc' = "plt"
    BY <1>3 DEF Relocate, nPlt
  <2>4. QED BY <1>3, <2>2, <2>3
<1>4. CASE pc = "relocs" /\ ~(i < nRelocs)
  BY <1>4 DEF Relocate, nRelocs
<1>5. CASE pc = "plt" /\ ~(i < nPlt)
  BY <1>5 DEF Relocate, nPlt
<1>6. QED BY <1>2, <1>3, <1>4, <1>5 DEF Relocate

LEMMA RelocFields ==
    ASSUME LayoutInv, NEW k \in DOMAIN AllRelocs
    PROVE  LET r == AllRelocs[k]
           IN  /\ r.where \in Nat /\ r.type \in RelocTypes /\ r.sym \in DOMAIN file.syms /\ r.addend \in Nat
               /\ r \in ToSet(AllRelocs)
<1>1. AllRelocs \in Seq(Reloc)
  BY RelocTables
<1>2. AllRelocs[k] \in Reloc
  BY <1>1
<1>3. AllRelocs[k] \in ToSet(AllRelocs)
  BY DEF ToSet
<1>4. QED BY <1>2, <1>3 DEF Reloc

\* A word is relocated at most once.
LEMMA RelocatedOnce ==
    ASSUME LayoutInv, FileWellFormed, NEW k \in DOMAIN AllRelocs
    PROVE  /\ Meaning(AllRelocs[k].where) = RelocMeaning(AllRelocs[k])
           /\ AllRelocs[k].where \notin SymbolTable
           /\ \A m \in DOMAIN AllRelocs : AllRelocs[m].where = AllRelocs[k].where => m = k
<1> DEFINE r == AllRelocs[k]
           R == {q \in ToSet(AllRelocs) : q.where = r.where}
<1>1. \A m \in DOMAIN AllRelocs : AllRelocs[m].where = r.where => m = k
  BY ZenonT(30) DEF FileWellFormed, WellFormed, AllRelocs
<1>2. R = {r}
  BY <1>1 DEF ToSet
<1>3. r.where \notin SymbolTable
  BY ZenonT(30) DEF FileWellFormed, WellFormed, SymbolTable, SymWord, AllRelocs
<1>4. Meaning(r.where) = RelocMeaning(r)
  BY <1>2, <1>3 DEF Meaning, AllRelocs
<1>5. QED BY <1>1, <1>3, <1>4

LEMMA NotRelocated ==
    ASSUME NEW a, a \notin SymbolTable, \A m \in DOMAIN AllRelocs : AllRelocs[m].where # a
    PROVE  Meaning(a) = FileWord(a)
<1>1. {r \in ToSet(AllRelocs) : r.where = a} = {}
  BY DEF ToSet
<1>2. QED BY <1>1 DEF Meaning, AllRelocs

\* The data that R_ARM_GLOB_DAT reaches is at an even address.
LEMMA EvenData ==
    ASSUME LayoutInv, FileWellFormed, build = "arm", NEW k \in DOMAIN AllRelocs,
           AllRelocs[k].type = "GLOB_DAT", ~file.syms[AllRelocs[k].sym].func
    PROVE  SymbolMeaning(AllRelocs[k].sym) % 2 = 0
<1> DEFINE n == AllRelocs[k].sym
           s == file.syms[n]
<1>1. n \in DOMAIN file.syms
  BY RelocFields
<1>2. /\ (s.value + IF s.shndx \in {"ABS", "COMMON", "UNDEF"} THEN 0 ELSE Base) % 2 = 0
      /\ s.name \notin Atexit
      /\ \A l \in Libs : s.name \in DOMAIN Provides[l] => Provides[l][s.name] % 2 = 0
  BY ZenonT(30) DEF FileWellFormed, WellFormed, AllRelocs
<1>3. s.value \in Nat /\ Base \in Nat
  BY <1>1, IsFileFacts, ElfLoadAssumption
<1>4. CASE s.shndx # "UNDEF"
  <2>1. CASE s.shndx \in {"ABS", "COMMON"}
    <3>1. SymbolMeaning(n) = s.value /\ (s.value + 0) % 2 = 0
      BY <1>2, <2>1 DEF SymbolMeaning
    <3>2. QED BY <1>3, <3>1, SMTT(30)
  <2>2. CASE s.shndx \notin {"ABS", "COMMON"}
    <3>1. SymbolMeaning(n) = Base + s.value /\ (s.value + Base) % 2 = 0
      BY <1>2, <1>4, <2>2 DEF SymbolMeaning
    <3>2. QED BY <1>3, <3>1, SMTT(30)
  <2>3. QED BY <2>1, <2>2
<1>5. CASE s.shndx = "UNDEF" /\ \A j \in DOMAIN handles : ~Exported(handles[j], s.name)
  <2>1. SymbolMeaning(n) = 0
    BY <1>2, <1>5, ZenonT(30) DEF SymbolMeaning
  <2>2. QED BY <2>1
<1>6. CASE s.shndx = "UNDEF" /\ \E j \in DOMAIN handles : Exported(handles[j], s.name)
  <2>1. Providers(s.name) # {}
    BY <1>6 DEF Providers, Exported
  <2> DEFINE f == First(Providers(s.name))
  <2>2. /\ f \in DOMAIN handles /\ Exported(handles[f], s.name)
        /\ f = CHOOSE j \in DOMAIN handles :
                  Exported(handles[j], s.name) /\ \A m \in 1..(j - 1) : ~Exported(handles[m], s.name)
    BY <2>1, FirstProvider
  <2>3. SymbolMeaning(n) = Provides[handles[f]][s.name]
    BY <1>2, <1>6, <2>2, ZenonT(30) DEF SymbolMeaning
  <2> HIDE DEF f
  <2>4. handles[f] \in Libs
    <3>1. handles \in Seq(Libs \cup {None}) /\ f \in DOMAIN handles /\ handles[f] # None
      BY <2>2 DEF LayoutInv, Exported
    <3>2. handles[f] \in Libs \cup {None}
      <4>1. \A T, h : h \in Seq(T) => \A m \in DOMAIN h : h[m] \in T
        OBVIOUS
      <4>2. QED BY <3>1, <4>1, Zenon
    <3>3. QED BY <3>1, <3>2, Zenon
  <2>5. QED BY <1>2, <2>2, <2>3, <2>4, ZenonT(30) DEF Exported
<1>7. QED BY <1>4, <1>5, <1>6

\* LeafDoRela and LeafDoRel store what the supplement of the processor asks for.
LEMMA RelocStores ==
    ASSUME LayoutInv, FileWellFormed, pc \in Mapped, NEW k \in DOMAIN AllRelocs,
           AllRelocs[k].where \in Image \ Unimplemented,
           mem[AllRelocs[k].where] = FileWord(AllRelocs[k].where),
           mem[SymWord(AllRelocs[k].sym)] = SymbolMeaning(AllRelocs[k].sym)
    PROVE  DoReloc(AllRelocs[k])[AllRelocs[k].where] = RelocMeaning(AllRelocs[k])
<1> DEFINE r == AllRelocs[k]
           S == SymbolMeaning(r.sym)
           W == FileWord(r.where)
<1>1. r.type \in RelocTypes /\ r.sym \in DOMAIN file.syms /\ r.addend \in Nat
  BY RelocFields
<1>2. mem[SymWord(r.sym)] = S /\ S \in Nat
  BY <1>1, SymbolIsMeant
<1>3. W \in Nat /\ mem[r.where] = W /\ r.where \in DOMAIN mem /\ Base \in Nat
  BY FileWordNat, ElfLoadAssumption DEF LayoutInv, Mapped
<1>4. file.pltrel = (IF build = "aarch64" THEN "RELA" ELSE "REL") /\ build \in Builds
  BY ZenonT(30) DEF FileWellFormed, WellFormed, LayoutInv
<1>5. CASE r.type \notin {"RELATIVE", "GLOB_DAT", "JUMP_SLOT"}
  <2>1. r.type # "ABS"
    BY RelocFields DEF Unimplemented, AllRelocs
  <2>2. r.type = "NONE"
    BY <1>1, <1>5, <2>1 DEF RelocTypes
  <2>3. QED BY <1>3, <1>5, <2>2, SMTT(30) DEF DoReloc, Known, RelocMeaning
<1>6. CASE r.type \in {"RELATIVE", "GLOB_DAT", "JUMP_SLOT"} /\ build = "aarch64"
  BY <1>2, <1>3, <1>4, <1>6 DEF DoReloc, Known, LeafDoRela, RelocMeaning
<1>7. CASE r.type \in {"RELATIVE", "GLOB_DAT", "JUMP_SLOT"} /\ build # "aarch64"
  <2>1. DoReloc(r)[r.where] = LeafDoRel(r)
    BY <1>3, <1>4, <1>7 DEF DoReloc, Known
  <2>2. CASE r.type = "RELATIVE"
    BY <1>2, <1>3, <1>4, <1>7, <2>1, <2>2 DEF LeafDoRel, RelocMeaning
  <2>3. CASE r.type = "JUMP_SLOT"
    BY <1>2, <1>3, <1>4, <1>7, <2>1, <2>3 DEF LeafDoRel, RelocMeaning
  <2>4. CASE r.type = "GLOB_DAT" /\ build = "i386"
    BY <1>2, <1>3, <1>4, <1>7, <2>1, <2>4 DEF LeafDoRel, RelocMeaning
  <2>5. CASE r.type = "GLOB_DAT" /\ build = "arm"
    <3> DEFINE T == IF file.syms[r.sym].func THEN S % 2 ELSE 0
    <3>1. RelocMeaning(r) = ThumbOr(S - T + W, T)
      BY <1>2, <1>3, <1>4, <1>7, <2>5 DEF RelocMeaning
    <3>2. S % 2 \in {0, 1}
      BY <1>2
    <3>3. CASE file.syms[r.sym].func /\ S % 2 = 1
      <4>1. LeafDoRel(r) = Or1(W + (S - 1))
        BY <1>2, <1>3, <2>5, <3>3 DEF LeafDoRel, Even
      <4>2. RelocMeaning(r) = ThumbOr(S - 1 + W, 1)
        BY <3>1, <3>3
      <4>3. QED BY <1>2, <1>3, <2>1, <4>1, <4>2 DEF Or1, ThumbOr
    <3>4. CASE ~(file.syms[r.sym].func /\ S % 2 = 1)
      <4>1. S % 2 = 0
        BY <2>5, <3>2, <3>4, EvenData
      <4>2. LeafDoRel(r) = W + S
        BY <1>2, <1>3, <2>5, <4>1 DEF LeafDoRel, Even
      <4>3. RelocMeaning(r) = ThumbOr(S - 0 + W, 0)
        BY <3>1, <4>1
      <4>4. QED BY <1>2, <1>3, <2>1, <4>2, <4>3 DEF ThumbOr
    <3>5. QED BY <3>3, <3>4
  <2>6. QED BY <1>4, <1>7, <2>2, <2>3, <2>4, <2>5 DEF Builds
<1>8. QED BY <1>5, <1>6, <1>7

------------------------------------------------------------------------------
(* The loops that write the image *)

LEMMA CopiesOne ==
    ASSUME LayoutInv, FileWellFormed, pc = "copy", i < Len(file.phdrs), Copied(i),
           NEW a \in Image
    PROVE  CopySegment(mem, file.phdrs[i + 1])[a] =
               IF \E m \in 1..(i + 1) : InSegment(file.phdrs[m], a) THEN FileWord(a) ELSE 0
<1> DEFINE p == file.phdrs[i + 1]
           c == CopySegment(mem, p)[a]
<1>1. i \in Nat /\ Len(file.phdrs) \in Nat /\ DOMAIN file.phdrs = 1..Len(file.phdrs)
  BY IsFileFacts DEF LayoutInv
<1>2. i + 1 \in DOMAIN file.phdrs /\ 1..(i + 1) = 1..i \cup {i + 1}
  BY <1>1
<1>3. a \in DOMAIN mem
  BY DEF LayoutInv, Mapped
<1>4. mem[a] = IF \E m \in 1..i : InSegment(file.phdrs[m], a) THEN FileWord(a) ELSE 0
  BY DEF Copied
<1>5. CASE InSegment(p, a)
  <2>1. c = ByteOf(file, p, a)
    BY <1>3, <1>5 DEF CopySegment
  <2>2. FileWord(a) = ByteOf(file, p, a)
    BY <1>2, <1>5, SegmentWord
  <2>3. QED BY <1>2, <1>5, <2>1, <2>2
<1>6. CASE ~InSegment(p, a)
  <2>1. c = mem[a]
    BY <1>3, <1>6 DEF CopySegment
  <2>2. QED BY <1>2, <1>4, <1>6, <2>1
<1>7. QED BY <1>5, <1>6

LEMMA CopiesAll ==
    ASSUME LayoutInv, Copied(Len(file.phdrs)), NEW a \in Image
    PROVE  mem[a] = FileWord(a)
<1>1. DOMAIN file.phdrs = 1..Len(file.phdrs)
  BY IsFileFacts
<1>2. QED BY <1>1, OtherWord DEF Copied

LEMMA RelocatesOne ==
    ASSUME LayoutInv, FileWellFormed, pc \in Mapped, NEW k \in Nat, k + 1 \in DOMAIN AllRelocs,
           Relocated(k), NEW a \in Image \ Unimplemented
    PROVE  DoReloc(AllRelocs[k + 1])[a] =
               IF a \in SymbolTable \/ \E m \in 1..(k + 1) : AllRelocs[m].where = a
               THEN Meaning(a) ELSE FileWord(a)
<1> DEFINE r == AllRelocs[k + 1]
<1>1. DOMAIN AllRelocs = 1..Len(AllRelocs) /\ Len(AllRelocs) \in Nat
  BY RelocTables
<1>2. 1..(k + 1) = 1..k \cup {k + 1} /\ 1..k \subseteq DOMAIN AllRelocs /\ k + 1 \notin 1..k
  BY <1>1
<1>3. mem[a] = IF a \in SymbolTable \/ \E m \in 1..k : AllRelocs[m].where = a
               THEN Meaning(a) ELSE FileWord(a)
  BY DEF Relocated
<1>4. CASE r.where = a
  <2>1. mem[a] = FileWord(a)
    BY <1>2, <1>3, <1>4, RelocatedOnce
  <2>2. r.sym \in DOMAIN file.syms
    BY RelocFields
  <2>3. mem[SymWord(r.sym)] = SymbolMeaning(r.sym)
    BY <2>2, SymbolWord DEF Relocated
  <2>4. DoReloc(r)[a] = RelocMeaning(r)
    BY <1>4, <2>1, <2>3, RelocStores
  <2>5. QED BY <1>2, <1>4, <2>4, RelocatedOnce
<1>5. CASE r.where # a
  <2>1. DoReloc(r)[a] = mem[a]
    BY <1>5 DEF DoReloc, LayoutInv, Mapped
  <2>2. QED BY <1>2, <1>3, <1>5, <2>1
<1>6. QED BY <1>4, <1>5

LEMMA RelocatesAll ==
    ASSUME LayoutInv, Relocated(Len(AllRelocs)), NEW a \in Image \ Unimplemented
    PROVE  mem[a] = Meaning(a)
<1>1. DOMAIN AllRelocs = 1..Len(AllRelocs)
  BY RelocTables
<1>2. QED BY <1>1, NotRelocated DEF Relocated

\* The loop over the symbol table reaches every symbol and nothing else.
LEMMA FixesAll ==
    ASSUME LayoutInv, FileWellFormed, FixSymbols, \A a \in Image : mem[a] = FileWord(a),
           NEW a \in Image
    PROVE  mem'[a] = IF a \in SymbolTable THEN Meaning(a) ELSE FileWord(a)
<1>1. mem'[a] = IF a \in SymbolTable THEN FixedOrStub(SymbolAt(a)) ELSE mem[a]
  BY DEF FixSymbols, LayoutInv, Mapped
<1>2. CASE a \notin SymbolTable
  BY <1>1, <1>2
<1>3. CASE a \in SymbolTable
  <2>1. PICK n \in DOMAIN file.syms : a = SymWord(n)
    BY <1>3 DEF SymbolTable
  <2>2. SymbolAt(a) = n /\ Meaning(a) = SymbolMeaning(n)
    BY <2>1, SymbolWord
  <2>3. FixedOrStub(n) = SymbolMeaning(n)
    BY <2>1, SymbolIsMeant
  <2>4. QED BY <1>1, <1>3, <2>2, <2>3
<1>4. QED BY <1>2, <1>3

\* The invariant speaks of the file, the handles, the image, and where the loader is.
LEMMA ImageFrame ==
    ASSUME UNCHANGED <<build, lib, handles>>
    PROVE  /\ file' = file /\ Image' = Image
           /\ AllRelocs' = AllRelocs /\ nRelocs' = nRelocs /\ nPlt' = nPlt
           /\ SymbolTable' = SymbolTable /\ Unimplemented' = Unimplemented
           /\ \A a : FileWord(a)' = FileWord(a)
           /\ \A a : Meaning(a)' = Meaning(a)
BY FileFrame, MeaningFrame DEF Image, file, AllRelocs, nRelocs, nPlt

LEMMA ImageLoads ==
    ASSUME LayoutInv, FileWellFormed, ImageInv, app = "boot", UNCHANGED app, ElfNext
    PROVE  ImageInv'
<1> DEFINE Early == {"file", "header", "phdrs", "map", "dynamic", "open"}
<1>1. UNCHANGED <<build, lib>>
  BY DEF ElfNext, ReadFile, ReadHeader, ReadPhdrs, Map, Copy, ReadDynamic, Open, FixSymbols,
         Relocate, CallInit, LeafFinish, LeafFree
<1>2. /\ file' = file /\ Image' = Image /\ AllRelocs' = AllRelocs /\ nRelocs' = nRelocs /\ nPlt' = nPlt
      /\ SymbolTable' = SymbolTable /\ Unimplemented' = Unimplemented
      /\ \A a : FileWord(a)' = FileWord(a)
  BY <1>1, FileFrame DEF Image, AllRelocs, nRelocs, nPlt
<1>3. CASE ReadFile \/ ReadHeader \/ ReadPhdrs
  BY <1>2, <1>3, IsFileFacts DEF ImageInv, ReadFile, ReadHeader, ReadPhdrs, Fail, Return, None, Headers, IsFile
<1>4. CASE Map
  <2>1. CASE pc' = "copy"
    <3>1. /\ i' = 0 /\ pc' = "copy" /\ mem' = [a \in Image |-> 0]
      BY <1>4, <2>1 DEF Map, ImageInv, Image, Fail, Return, None
    <3>2. Copied(0)' /\ 0 <= Len(file.phdrs)
      BY <1>2, <3>1, IsFileFacts DEF Copied
    <3>3. QED BY <1>2, <3>1, <3>2 DEF ImageInv
  <2>2. CASE pc' = "failed"
    BY <2>2 DEF ImageInv
  <2>3. QED BY <1>4, <2>1, <2>2 DEF Map, Fail, Return, None
<1>5. CASE Copy
  <2>1. CASE i < Len(file.phdrs)
    <3>1. mem' = CopySegment(mem, file.phdrs[i + 1]) /\ i' = i + 1 /\ pc = "copy" /\ pc' = "copy"
      BY <1>5, <2>1 DEF Copy
    <3>2. Copied(i)'
      BY <1>2, <2>1, <3>1, CopiesOne DEF ImageInv, Copied
    <3>3. i + 1 <= Len(file.phdrs)
      BY <2>1, IsFileFacts DEF LayoutInv
    <3>4. QED BY <1>2, <3>1, <3>2, <3>3 DEF ImageInv
  <2>2. CASE ~(i < Len(file.phdrs))
    <3>1. i' = 0 /\ mem' = mem /\ pc = "copy" /\ pc' \in {"dynamic", "failed"}
      BY <1>5, <2>2 DEF Copy, Fail, Return, None
    <3>2. i = Len(file.phdrs)
      BY <2>2, <3>1, IsFileFacts DEF ImageInv, LayoutInv
    <3>3. \A a \in Image : mem[a] = FileWord(a)
      BY <3>1, <3>2, CopiesAll DEF ImageInv
    <3>4. QED BY <1>2, <3>1, <3>3 DEF ImageInv
  <2>3. QED BY <2>1, <2>2
<1>6. CASE ReadDynamic
  BY <1>2, <1>6 DEF ImageInv, ReadDynamic, Return, None
<1>7. CASE Open
  BY <1>2, <1>7 DEF ImageInv, Open
<1>8. CASE FixSymbols
  <2>1. i' = 0 /\ pc' = "relocs" /\ \A a \in Image : mem[a] = FileWord(a)
    BY <1>8 DEF FixSymbols, ImageInv
  <2>2. \A a : Meaning(a)' = Meaning(a)
    BY <1>1, <1>8, ImageFrame DEF FixSymbols
  <2>3. \A a \in Image : mem'[a] = IF a \in SymbolTable THEN Meaning(a) ELSE FileWord(a)
    BY <1>8, <2>1, FixesAll
  <2>4. Relocated(0)' /\ 0 <= nRelocs
    BY <1>2, <2>2, <2>3, RelocTables DEF Relocated
  <2>5. QED BY <1>2, <2>1, <2>4 DEF ImageInv
<1>9. CASE Relocate
  <2>1. \A a : Meaning(a)' = Meaning(a)
    BY <1>1, <1>9, ImageFrame DEF Relocate
  <2>2. i \in Nat /\ nRelocs \in Nat /\ nPlt \in Nat /\ Len(AllRelocs) = nRelocs + nPlt
    BY RelocTables DEF LayoutInv
  <2>3. CASE /\ pc = "relocs" /\ i < nRelocs /\ mem' = DoReloc(AllRelocs[i + 1]) /\ i' = i + 1
             /\ pc' = "relocs" /\ i + 1 \in DOMAIN AllRelocs
    <3>1. \A a \in Image \ Unimplemented :
             mem'[a] = IF a \in SymbolTable \/ \E m \in 1..(i + 1) : AllRelocs[m].where = a
                       THEN Meaning(a) ELSE FileWord(a)
      BY <2>2, <2>3, RelocatesOne DEF ImageInv, Mapped
    <3>2. Relocated(i)'
      BY <1>2, <2>1, <2>3, <3>1 DEF Relocated
    <3>3. i + 1 <= nRelocs
      BY <2>2, <2>3
    <3>4. QED BY <1>2, <2>3, <3>2, <3>3 DEF ImageInv
  <2>4. CASE pc = "relocs" /\ ~(i < nRelocs) /\ mem' = mem /\ i' = 0 /\ pc' = "plt"
    <3>1. i = nRelocs /\ nRelocs + 0 = i /\ 0 <= nPlt
      BY <2>2, <2>4 DEF ImageInv
    <3>2. \A a \in Image \ Unimplemented :
             mem'[a] = IF a \in SymbolTable \/ \E m \in 1..(nRelocs + 0) : AllRelocs[m].where = a
                       THEN Meaning(a) ELSE FileWord(a)
      BY <2>4, <3>1 DEF ImageInv, Relocated
    <3>3. Relocated(nRelocs + i)'
      BY <1>2, <2>1, <2>4, <3>2 DEF Relocated
    <3>4. QED BY <1>2, <2>4, <3>1, <3>3 DEF ImageInv
  <2>5. CASE /\ pc = "plt" /\ i < nPlt /\ mem' = DoReloc(AllRelocs[nRelocs + (i + 1)]) /\ i' = i + 1
             /\ pc' = "plt" /\ nRelocs + (i + 1) \in DOMAIN AllRelocs
    <3> DEFINE k == nRelocs + i
    <3>1. k \in Nat /\ k + 1 = nRelocs + (i + 1) /\ i + 1 <= nPlt
      BY <2>2, <2>5
    <3>2. \A a \in Image \ Unimplemented :
             mem'[a] = IF a \in SymbolTable \/ \E m \in 1..(k + 1) : AllRelocs[m].where = a
                       THEN Meaning(a) ELSE FileWord(a)
      BY <2>5, <3>1, RelocatesOne DEF ImageInv, Mapped
    <3>3. Relocated(nRelocs + i)'
      BY <1>2, <2>1, <2>5, <3>1, <3>2 DEF Relocated
    <3>4. QED BY <1>2, <2>5, <3>1, <3>3 DEF ImageInv
  <2>6. CASE pc = "plt" /\ ~(i < nPlt) /\ mem' = mem /\ i' = 0 /\ pc' = "init"
    <3>1. nRelocs + i = Len(AllRelocs)
      BY <2>2, <2>6 DEF ImageInv
    <3>2. \A a \in Image \ Unimplemented : mem[a] = Meaning(a)
      BY <2>6, <3>1, RelocatesAll DEF ImageInv
    <3>3. QED BY <1>2, <2>1, <2>6, <3>2 DEF ImageInv
  <2>7. QED BY <1>9, <2>3, <2>4, <2>5, <2>6, RelocateTurns
<1>10. CASE CallInit \/ LeafFinish
  <2>1. /\ UNCHANGED <<build, lib, handles, app, mem>> /\ pc \in {"init", "loaded"}
        /\ pc' \in {"init", "loaded"}
    BY <1>10 DEF CallInit, LeafFinish, Return, None
  <2>2. QED BY <1>2, <2>1, ImageFrame DEF ImageInv
<1>11. CASE LeafFree
  BY <1>11 DEF LeafFree, ImageInv
<1>12. QED BY <1>3, <1>4, <1>5, <1>6, <1>7, <1>8, <1>9, <1>10, <1>11, SMTT(30) DEF ElfNext

LEMMA ImageStep ==
    ASSUME LayoutInv, FileWellFormed, ImageInv, [Next]_vars
    PROVE  ImageInv'
<1>1. CASE app = "boot" /\ ElfNext /\ UNCHANGED shimVars
  BY <1>1, ImageLoads DEF shimVars
<1>2. CASE AndroidMain \/ Script \/ Game
  <2>1. app' # "boot" /\ pc' \in {"loaded", "failed"}
    BY <1>2, GameKeepsDomain DEF AndroidMain, elfVars, LayoutInv, imageVars
  <2>2. QED BY <2>1 DEF ImageInv
<1>3. CASE UNCHANGED vars
  <2>1. UNCHANGED <<build, lib, handles, mem, i, pc, app>>
    BY <1>3 DEF vars, elfVars, shimVars
  <2>2. QED BY <2>1, ImageFrame DEF ImageInv, Copied, Relocated
<1>4. QED BY <1>1, <1>2, <1>3 DEF Next

LEMMA ImageIsRight == LibrariesWellFormed => (Spec => []ImageInv)
<1>1. ASSUME LibrariesWellFormed PROVE Spec => []ImageInv
  <2>1. Init => ImageInv
    BY DEF Init, ElfInit, ImageInv
  <2>2. LayoutInv /\ ImageInv /\ [Next]_vars => ImageInv'
    BY <1>1, WellFormedNow, ImageStep
  <2>3. QED BY <2>1, <2>2, Layout, PTL DEF Spec
<1>2. QED BY <1>1

\* Whatever libraries are missing: the first function of a well-formed library that runs
\* finds the image that the gABI and the supplement for its processor describe.
THEOREM LoaderIsLinker == LibrariesWellFormed => (Spec => []InitSeesImage)
<1>1. LayoutInv /\ ImageInv => InitSeesImage
  BY DEF LayoutInv, ImageInv, InitSeesImage, Mapped
<1>2. QED BY <1>1, Layout, ImageIsRight, PTL

------------------------------------------------------------------------------
(* Noclip *)

\* In the game, the symbol of hitSomething is at a word of the image.
LEMMA HitInImage ==
    ASSUME LayoutInv, FileWellFormed, ImageInv, GamesHaveHit, app = "boot", pc = "loaded",
           LeafSymbolAddr("android_main") # NULL
    PROVE  Named(Hit) # {} /\ HitAt = mem[HitWord] - Base /\ HitAt \in Image /\ HitAt # HitWord
<1> DEFINE n == First(Named(Hit))
           table == file.symtab..(file.symtab + Len(file.syms) - 1)
<1>1. DOMAIN file.syms \subseteq Nat /\ \A m \in DOMAIN file.syms : file.syms[m].value \in Nat
  BY IsFileFacts
<1>2. Named("android_main") # {}
  BY SMTT(30) DEF LeafSymbolAddr
<1>3. /\ Named(Hit) # {}
      /\ \A m \in Named(Hit) : /\ file.syms[m].shndx \notin {"ABS", "COMMON", "UNDEF"}
                               /\ file.syms[m].value \in Image /\ file.syms[m].value \notin table
  BY <1>2, ElfLoadAssumption DEF GamesHaveHit, LayoutInv, Named, file, Image
<1>4. n \in Named(Hit) /\ n \in DOMAIN file.syms /\ file.syms[n].name = Hit
  BY <1>1, <1>3, FirstInSet DEF Named
<1>5. SymbolMeaning(n) = Base + file.syms[n].value
  BY <1>3, <1>4 DEF SymbolMeaning, Atexit, Hit
<1>6. mem[HitWord] = SymbolMeaning(n)
  BY <1>4, SymbolWord DEF HitWord, ImageInv
<1>7. HitAt = mem[HitWord] - Base
  BY <1>3 DEF HitAt, LeafSymbolAddr, HitWord
<1>8. HitAt = file.syms[n].value
  BY <1>1, <1>4, <1>5, <1>6, <1>7, ElfLoadAssumption
<1>9. HitWord \in table
  <2>1. file.symtab \in Nat
    BY IsFileFacts, Zenon DEF IsFile
  <2>2. DOMAIN file.syms = 1..Len(file.syms) /\ Len(file.syms) \in Nat
    BY IsFileFacts
  <2>3. QED BY <1>4, <2>1, <2>2 DEF HitWord, SymWord
<1>10. QED BY <1>3, <1>4, <1>7, <1>8, <1>9

LEMMA HitFrame ==
    ASSUME UNCHANGED <<build, lib, mem>>
    PROVE  HitAt' = HitAt /\ HitWord' = HitWord /\ Image' = Image /\ Named(Hit)' = Named(Hit)
BY FileFrame DEF HitAt, HitWord, SymWord, LeafSymbolAddr, Image

\* A script that writes the word of hitSomething does not move it.
LEMMA HitStays ==
    ASSUME LayoutInv, NoclipInv, app = "running", UNCHANGED <<build, lib>>,
           NEW word, mem' = [mem EXCEPT ![HitAt] = word]
    PROVE  /\ HitAt \in DOMAIN mem /\ mem'[HitAt] = word /\ Image' = Image
           /\ HitAt' = HitAt /\ HitWord' = HitWord /\ Named(Hit)' # {}
           /\ HitAt' = mem'[HitWord'] - Base
<1>1. file' = file /\ Named(Hit)' = Named(Hit) /\ Image' = Image
  BY FileFrame DEF Image
<1>2. HitWord' = HitWord
  BY <1>1 DEF HitWord, SymWord
<1>3. HitAt \in DOMAIN mem /\ HitAt # HitWord /\ Named(Hit) # {}
  BY DEF NoclipInv, LayoutInv, Mapped
<1>4. mem'[HitWord] = mem[HitWord] /\ mem'[HitAt] = word
  BY <1>3
<1>5. HitAt = mem[HitWord] - Base /\ HitAt' = mem'[HitWord'] - Base
  BY <1>1, <1>3 DEF HitAt, HitWord, LeafSymbolAddr
<1>6. QED BY <1>1, <1>2, <1>3, <1>4, <1>5

\* The word that noclip hides comes back: the buffered word and the word of
\* hitSomething are exchanged, each time.
LEMMA SwapKeepsWord ==
    ASSUME LayoutInv, NoclipInv, NEW on \in BOOLEAN, knSetNoclip(on)
    PROVE  NoclipInv'
<1> DEFINE H == HitAt
<1>1. app = "running" /\ app' = "running" /\ UNCHANGED <<build, lib>>
  BY DEF knSetNoclip, imageVars
<1>2. CASE NoclipIsOn # on
  <2>1. /\ mem' = [mem EXCEPT ![H] = gNoclipBufferedInstruction]
        /\ gNoclipBufferedInstruction' = mem[H] /\ touched' = touched
        /\ base' = IF on /\ ~NoclipIsOn THEN mem[H] ELSE base
    BY <1>2 DEF knSetNoclip
  <2>2. /\ mem'[H] = gNoclipBufferedInstruction /\ HitAt' = H /\ HitWord' = HitWord
        /\ Image' = Image /\ Named(Hit)' # {} /\ HitAt' = mem'[HitWord'] - Base
    BY <1>1, <2>1, HitStays
  <2>3. HitAt' \in Image' /\ HitAt' # HitWord'
    BY <1>1, <2>2 DEF NoclipInv
  <2>4. NoclipIsCode'
    <3>1. CASE on
      BY <1>1, <1>2, <2>1, <2>2, <3>1 DEF NoclipInv, NoclipIsCode, NoclipIsOn
    <3>2. CASE ~on
      BY <1>1, <1>2, <2>1, <2>2, <3>2 DEF NoclipInv, NoclipIsCode, NoclipIsOn
    <3>3. QED BY <3>1, <3>2
  <2>5. QED BY <1>1, <2>2, <2>3, <2>4 DEF NoclipInv
<1>3. CASE NoclipIsOn = on
  <2>1. UNCHANGED <<mem, gNoclipBufferedInstruction, touched, base>>
    BY <1>3 DEF knSetNoclip
  <2>2. QED BY <1>1, <2>1, HitFrame DEF NoclipInv, NoclipIsCode, NoclipIsOn
<1>4. QED BY <1>2, <1>3 DEF NoclipIsOn

LEMMA WriteKeepsWord ==
    ASSUME LayoutInv, NoclipInv, app = "running", NEW word, Write(word)
    PROVE  NoclipInv'
<1>1. /\ UNCHANGED <<build, lib, gNoclipBufferedInstruction>> /\ app' = "running"
      /\ mem' = [mem EXCEPT ![HitAt] = word]
  BY DEF Write, imageVars, gameVars
<1>2. /\ mem'[HitAt] = word /\ HitAt' = HitAt /\ HitWord' = HitWord
      /\ Image' = Image /\ Named(Hit)' # {} /\ HitAt' = mem'[HitWord'] - Base
  BY <1>1, HitStays
<1>3. HitAt' \in Image' /\ HitAt' # HitWord'
  BY <1>2 DEF NoclipInv
<1>4. NoclipIsCode'
  <2>1. CASE touched'
    BY <2>1 DEF NoclipIsCode
  <2>2. CASE ~touched'
    <3>1. ~touched /\ ~NoclipIsOn /\ word # Ret /\ base' = word
      BY <2>2 DEF Write
    <3>2. QED BY <1>1, <1>2, <3>1 DEF NoclipInv, NoclipIsCode, NoclipIsOn
  <2>3. QED BY <2>1, <2>2
<1>5. QED BY <1>1, <1>2, <1>3, <1>4 DEF NoclipInv

LEMMA NoclipStep ==
    ASSUME LayoutInv, FileWellFormed, ImageInv, NoclipInv, GamesHaveHit, [Next]_vars
    PROVE  NoclipInv'
<1>1. CASE app = "boot" /\ ElfNext /\ UNCHANGED shimVars
  BY <1>1 DEF NoclipInv, NoclipIsCode, shimVars, gameVars
<1>2. CASE AndroidMain
  <2>1. /\ UNCHANGED <<build, lib, mem, gNoclipBufferedInstruction>> /\ app = "boot"
        /\ gNoclipBufferedInstruction = Ret /\ app' # "boot"
    BY <1>2, ZenonT(30) DEF AndroidMain, elfVars, NoclipInv
  <2>2. CASE app' = "running"
    <3>1. pc = "loaded" /\ LeafSymbolAddr("android_main") # NULL /\ base' = mem[HitAt]
      BY <1>2, <2>2 DEF AndroidMain
    <3>2. Named(Hit) # {} /\ HitAt = mem[HitWord] - Base /\ HitAt \in Image /\ HitAt # HitWord
      BY <2>1, <3>1, HitInImage
    <3>3. QED BY <2>1, <3>1, <3>2, HitFrame DEF NoclipInv, NoclipIsCode, NoclipIsOn
  <2>3. CASE app' # "running"
    BY <2>1, <2>3 DEF NoclipInv, NoclipIsCode
  <2>4. QED BY <2>2, <2>3
<1>3. CASE UNCHANGED noclipVars
  BY <1>3, HitFrame DEF noclipVars, elfVars, NoclipInv, NoclipIsCode, NoclipIsOn
<1>4. CASE UNCHANGED vars
  BY <1>3, <1>4 DEF vars, shimVars, gameVars, noclipVars, hookVars
<1>5. CASE \/ knReload \/ knEnableReloading \/ (\E zip \in DOMAIN Zips : knMountOverlay(zip))
           \/ knUnmountOverlay \/ knDownloadFile \/ Game
  BY <1>3, <1>5 DEF knReload, knEnableReloading, knMountOverlay, knUnmountOverlay, knDownloadFile,
                    Game, WasKeyPressed, ResManLoad, ScriptLoad, noclipVars, frameVars, gameVars,
                    hookVars
<1>6. CASE \E on \in BOOLEAN : knSetNoclip(on)
  BY <1>6, SwapKeepsWord
<1>7. CASE \E word \in Pokes : knPoke(word)
  BY <1>7, WriteKeepsWord DEF knPoke
<1>8. CASE knInvertBranch
  BY <1>3, <1>8, WriteKeepsWord DEF knInvertBranch, noclipVars, gameVars, hookVars
<1>9. QED BY <1>1, <1>2, <1>4, <1>5, <1>6, <1>7, <1>8 DEF Next, Script

\* As long as no script writes Ret there, or writes there while noclip is on, whatever
\* else scripts do in whatever order: hitSomething returns at once exactly if noclip is
\* on, and the word that was there comes back.
THEOREM NoclipComesBack == LibrariesWellFormed /\ GamesHaveHit => (Spec => []NoclipIsCode)
<1>1. ASSUME LibrariesWellFormed, GamesHaveHit PROVE Spec => []NoclipIsCode
  <2>1. Init => NoclipInv
    BY DEF Init, NoclipInv, NoclipIsCode
  <2>2. LayoutInv /\ ImageInv /\ NoclipInv /\ [Next]_vars => NoclipInv'
    BY <1>1, WellFormedNow, NoclipStep
  <2>3. NoclipInv => NoclipIsCode
    BY DEF NoclipInv
  <2>4. Spec => []ImageInv
    BY <1>1, ImageIsRight
  <2>5. QED BY <2>1, <2>2, <2>3, <2>4, Layout, PTL DEF Spec
<1>2. QED BY <1>1

------------------------------------------------------------------------------
(* What runs, and what is undone *)

LEMMA CountUpTo ==
    ASSUME NEW S \in SUBSET Nat, IsFiniteSet(S), NEW n \in Nat
    PROVE  /\ Cardinality(UpTo(S, n)) \in Nat
           /\ n + 1 \in S => Cardinality(UpTo(S, n + 1)) = Cardinality(UpTo(S, n)) + 1
           /\ n + 1 \notin S => UpTo(S, n + 1) = UpTo(S, n)
           /\ \A m \in UpTo(S, n) : Cardinality(UpTo(S, m)) \in 1..Cardinality(UpTo(S, n))
<1>0. \A x \in S : x \in Nat
  OBVIOUS
<1>a. \A x \in S : x <= n + 1 <=> x <= n \/ x = n + 1
  BY <1>0
<1>1. \A m : IsFiniteSet(UpTo(S, m))
  BY FS_Subset DEF UpTo
<1>2. Cardinality(UpTo(S, n)) \in Nat
  BY <1>1, FS_CardinalityType
<1>3. ASSUME n + 1 \in S PROVE Cardinality(UpTo(S, n + 1)) = Cardinality(UpTo(S, n)) + 1
  <2>1. UpTo(S, n + 1) = UpTo(S, n) \cup {n + 1} /\ n + 1 \notin UpTo(S, n)
    <3>1. \A y : y \in UpTo(S, n + 1) <=> y \in S /\ y <= n + 1
      BY DEF UpTo
    <3>2. \A y : y \in UpTo(S, n) <=> y \in S /\ y <= n
      BY DEF UpTo
    <3>3. ~(n + 1 <= n)
      OBVIOUS
    <3>4. \A y : y \in UpTo(S, n + 1) <=> y \in UpTo(S, n) \/ y = n + 1
      BY <1>a, <1>3, <3>1, <3>2
    <3>5. QED BY <3>2, <3>3, <3>4
  <2>2. QED BY <1>1, <2>1, FS_AddElement
<1>4. n + 1 \notin S => UpTo(S, n + 1) = UpTo(S, n)
  BY <1>a DEF UpTo
<1>5. ASSUME NEW m \in UpTo(S, n) PROVE Cardinality(UpTo(S, m)) \in 1..Cardinality(UpTo(S, n))
  <2>1. m \in UpTo(S, m) /\ UpTo(S, m) \subseteq UpTo(S, n)
    <3>1. m \in S /\ m \in Nat /\ m <= n
      BY <1>0, <1>5 DEF UpTo
    <3>2. \A x \in S : x <= m => x <= n
      BY <1>0, <3>1
    <3>3. m <= m
      BY <3>1
    <3>4. QED BY <3>1, <3>2, <3>3, Zenon DEF UpTo
  <2>2. Cardinality(UpTo(S, m)) <= Cardinality(UpTo(S, n))
    BY <1>1, <2>1, FS_Subset
  <2>3. Cardinality(UpTo(S, m)) \in Nat /\ Cardinality(UpTo(S, m)) # 0
    BY <1>1, <2>1, FS_CardinalityType, FS_EmptySet
  <2>4. QED BY <1>2, <2>2, <2>3
<1>6. QED BY <1>2, <1>3, <1>4, <1>5

LEMMA CountFrom ==
    ASSUME NEW S \in SUBSET Nat, IsFiniteSet(S), NEW n \in Nat
    PROVE  /\ Cardinality(From(S, n)) \in Nat /\ Cardinality(From(S, n + 1)) \in Nat
           /\ n \in S => Cardinality(From(S, n)) = Cardinality(From(S, n + 1)) + 1
           /\ n \notin S => From(S, n) = From(S, n + 1)
           /\ \A m \in From(S, n + 1) : Cardinality(From(S, m)) \in 1..Cardinality(From(S, n + 1))
<1>0. \A x \in S : x \in Nat
  OBVIOUS
<1>a. \A x \in S : x >= n <=> x >= n + 1 \/ x = n
  BY <1>0
<1>1. \A m : IsFiniteSet(From(S, m))
  BY FS_Subset DEF From
<1>2. Cardinality(From(S, n)) \in Nat /\ Cardinality(From(S, n + 1)) \in Nat
  BY <1>1, FS_CardinalityType
<1>3. ASSUME n \in S PROVE Cardinality(From(S, n)) = Cardinality(From(S, n + 1)) + 1
  <2>1. From(S, n) = From(S, n + 1) \cup {n} /\ n \notin From(S, n + 1)
    <3>1. \A y : y \in From(S, n) <=> y \in S /\ y >= n
      BY DEF From
    <3>2. \A y : y \in From(S, n + 1) <=> y \in S /\ y >= n + 1
      BY DEF From
    <3>3. ~(n >= n + 1)
      OBVIOUS
    <3>4. \A y : y \in From(S, n) <=> y \in From(S, n + 1) \/ y = n
      BY <1>a, <1>3, <3>1, <3>2
    <3>5. QED BY <3>2, <3>3, <3>4
  <2>2. QED BY <1>1, <2>1, FS_AddElement
<1>4. n \notin S => From(S, n) = From(S, n + 1)
  BY <1>a DEF From
<1>5. ASSUME NEW m \in From(S, n + 1) PROVE Cardinality(From(S, m)) \in 1..Cardinality(From(S, n + 1))
  <2>1. m \in From(S, m) /\ From(S, m) \subseteq From(S, n + 1)
    <3>1. m \in S /\ m \in Nat /\ m >= n + 1
      BY <1>0, <1>5 DEF From
    <3>2. \A x \in S : x >= m => x >= n + 1
      BY <1>0, <3>1
    <3>3. m >= m
      BY <3>1
    <3>4. QED BY <3>1, <3>2, <3>3, Zenon DEF From
  <2>2. Cardinality(From(S, m)) <= Cardinality(From(S, n + 1))
    BY <1>1, <2>1, FS_Subset
  <2>3. Cardinality(From(S, m)) \in Nat /\ Cardinality(From(S, m)) # 0
    BY <1>1, <2>1, FS_CardinalityType, FS_EmptySet
  <2>4. QED BY <1>2, <2>2, <2>3
<1>6. QED BY <1>2, <1>3, <1>4, <1>5

\* The tables of functions lie in the image.
LEMMA TableInImage ==
    ASSUME LayoutInv, FileWellFormed, NEW table \in {file.init, file.fini}
    PROVE  /\ table.at \in Nat /\ table.count \in Nat
           /\ \A n \in 1..table.count : table.at + n - 1 \in Image \ Unimplemented
           /\ Due(table) \in SUBSET Nat /\ IsFiniteSet(Due(table)) /\ Due(table) \subseteq 1..table.count
<1>1. table.at \in Nat /\ table.count \in Nat
  BY IsFileFacts DEF IsFile
<1>2. \A n \in 1..table.count : table.at + n <= Highest(file)
  BY ZenonT(30) DEF FileWellFormed, WellFormed
<1>3. \A n \in 1..table.count : table.at + n - 1 \in Image \ Unimplemented
  <2>1. \A m \in DOMAIN AllRelocs : AllRelocs[m].type = "ABS" =>
            AllRelocs[m].where \notin table.at..(table.at + table.count - 1)
    BY ZenonT(30) DEF FileWellFormed, WellFormed, AllRelocs
  <2>2. \A a \in Unimplemented : \E m \in DOMAIN AllRelocs :
            AllRelocs[m].type = "ABS" /\ AllRelocs[m].where = a
    BY DEF Unimplemented, AllRelocs, ToSet
  <2>3. \A n \in 1..table.count : table.at + n - 1 \in table.at..(table.at + table.count - 1)
    BY <1>1
  <2>4. \A n \in 1..table.count : table.at + n - 1 \in Image
    BY <1>1, <1>2, HighestNat DEF Image
  <2>5. QED BY <2>1, <2>2, <2>3, <2>4
<1>4. Due(table) \subseteq 1..table.count
  BY DEF Due
<1>5. IsFiniteSet(Due(table))
  <2>1. IsFiniteSet(1..table.count)
    BY <1>1, FS_Interval
  <2>2. QED BY <1>4, <2>1, FS_Subset
<1>6. QED BY <1>1, <1>3, <1>4, <1>5

LEMMA MeaningIsInt ==
    ASSUME LayoutInv, FileWellFormed, NEW a \in Image
    PROVE  Meaning(a) \in Int
<1>0. CASE a \in SymbolTable
  BY <1>0, SymbolWord, SymbolIsMeant DEF SymbolTable
<1>1. CASE a \notin SymbolTable /\ \A m \in DOMAIN AllRelocs : AllRelocs[m].where # a
  BY <1>1, NotRelocated, FileWordNat
<1>2. CASE \E m \in DOMAIN AllRelocs : AllRelocs[m].where = a
  <2>1. PICK k \in DOMAIN AllRelocs : AllRelocs[k].where = a
    BY <1>2
  <2> DEFINE r == AllRelocs[k]
             S == SymbolMeaning(r.sym)
  <2>2. Meaning(a) = RelocMeaning(r)
    BY <2>1, RelocatedOnce
  <2>3. r.sym \in DOMAIN file.syms /\ r.addend \in Nat
    BY RelocFields
  <2>4. S \in Nat /\ FileWord(r.where) \in Nat /\ Base \in Nat
    BY <2>1, <2>3, SymbolIsMeant, FileWordNat, ElfLoadAssumption
  <2>5. S % 2 \in Nat
    BY <2>4
  <2>6. RelocMeaning(r) \in Int
    BY <2>3, <2>4, <2>5, RelocFields DEF RelocMeaning, ThumbOr, RelocTypes
  <2>7. QED BY <2>2, <2>6
<1>3. QED BY <1>0, <1>1, <1>2

LEMMA Appended ==
    ASSUME NEW s \in Seq(Int), NEW x \in Int
    PROVE  /\ Append(s, x) \in Seq(Int) /\ Len(Append(s, x)) = Len(s) + 1 /\ Len(s) \in Nat
           /\ Append(s, x)[Len(s) + 1] = x
           /\ \A n \in 1..Len(s) : Append(s, x)[n] = s[n]
OBVIOUS

\* The functions of a table are the same as long as the handles are.
LEMMA DueFrame ==
    ASSUME UNCHANGED <<build, lib, handles>>
    PROVE  /\ file' = file /\ Inits' = Inits /\ Finis' = Finis
           /\ \A a : Meaning(a)' = Meaning(a)
<1>1. file' = file /\ \A a : Meaning(a)' = Meaning(a)
  BY ImageFrame
<1>2. \A table : Due(table)' = Due(table)
  BY <1>1 DEF Due
<1>3. QED BY <1>1, <1>2 DEF Inits, Finis

\* A function of init_array or fini_array is called if it is there.
LEMMA CallsDue ==
    ASSUME LayoutInv, FileWellFormed, ran \in Seq(Int), NEW table \in {file.init, file.fini},
           NEW n \in 1..table.count, mem[table.at + n - 1] = Meaning(table.at + n - 1),
           Call(mem[table.at + n - 1])
    PROVE  /\ ran' \in Seq(Int) /\ Len(ran) \in Nat
           /\ \A k \in 1..Len(ran) : ran'[k] = ran[k]
           /\ n \in Due(table) => /\ Len(ran') = Len(ran) + 1
                                 /\ ran'[Len(ran) + 1] = Meaning(table.at + n - 1)
           /\ n \notin Due(table) => ran' = ran
<1> DEFINE x == Meaning(table.at + n - 1)
<1>1. x \in Int
  BY TableInImage, MeaningIsInt
<1>2. n \in Due(table) <=> x # NULL
  BY DEF Due
<1>3. ran' = IF x = NULL THEN ran ELSE Append(ran, x)
  BY DEF Call
<1> HIDE DEF x
<1>4. CASE x = NULL
  BY <1>2, <1>3, <1>4
<1>5. CASE x # NULL
  <2>1. ran' = Append(ran, x)
    BY <1>3, <1>5
  <2>2. /\ ran' \in Seq(Int) /\ Len(ran') = Len(ran) + 1 /\ Len(ran) \in Nat
        /\ ran'[Len(ran) + 1] = x /\ \A k \in 1..Len(ran) : ran'[k] = ran[k]
    BY <1>1, <2>1, Appended
  <2>3. QED BY <1>2, <1>5, <2>2 DEF x
<1>6. QED BY <1>4, <1>5

LEMMA InitTurn ==
    ASSUME LayoutInv, FileWellFormed, ImageInv, UndoneInv, app = "boot", UNCHANGED app,
           CallInit, i < file.init.count
    PROVE  UndoneInv'
<1> DEFINE n == i + 1
           at == file.init.at
           C(m) == Cardinality(UpTo(Inits, m))
<1>1. /\ UNCHANGED <<build, lib, handles, opened>> /\ pc = "init" /\ pc' = "init" /\ i' = n
      /\ Call(mem[at + i])
  BY DEF CallInit
<1>2. /\ at \in Nat /\ file.init.count \in Nat /\ i \in Nat /\ Inits \in SUBSET Nat /\ IsFiniteSet(Inits)
      /\ \A m \in 1..file.init.count : at + m - 1 \in Image \ Unimplemented
  BY TableInImage DEF LayoutInv, Inits
<1>3. n \in 1..file.init.count /\ at + n - 1 = at + i
  BY <1>2
<1>4. mem[at + n - 1] = Meaning(at + n - 1)
  BY <1>1, <1>2, <1>3 DEF ImageInv
<1>5. /\ ran' \in Seq(Int) /\ Len(ran) \in Nat
      /\ \A k \in 1..Len(ran) : ran'[k] = ran[k]
      /\ n \in Inits => Len(ran') = Len(ran) + 1 /\ ran'[Len(ran) + 1] = Meaning(at + n - 1)
      /\ n \notin Inits => ran' = ran
  BY <1>1, <1>3, <1>4, CallsDue DEF UndoneInv, Inits
<1>6. /\ Len(ran) = C(i) /\ \A m \in UpTo(Inits, i) : ran[C(m)] = Meaning(at + m - 1)
  BY <1>1 DEF UndoneInv, InitsRan
<1>7. /\ n \in Inits => C(n) = C(i) + 1
      /\ n \notin Inits => UpTo(Inits, n) = UpTo(Inits, i)
      /\ \A m \in UpTo(Inits, i) : C(m) \in 1..C(i)
  BY <1>2, CountUpTo
<1>8. \A m \in UpTo(Inits, i) : ran'[C(m)] = Meaning(at + m - 1)
  BY <1>5, <1>6, <1>7
<1>9. UpTo(Inits, n) \subseteq UpTo(Inits, i) \cup {n}
  <2>1. \A m \in Inits : m <= n => m <= i \/ m = n
    BY <1>2
  <2>2. QED BY <2>1 DEF UpTo
<1>10. n \in UpTo(Inits, n) => n \in Inits
  BY DEF UpTo
<1>11. Len(ran') = C(n) /\ \A m \in UpTo(Inits, n) : ran'[C(m)] = Meaning(at + m - 1)
  <2>1. CASE n \in Inits
    <3>1. Len(ran') = C(n) /\ ran'[C(n)] = Meaning(at + n - 1)
      BY <1>5, <1>6, <1>7, <2>1
    <3>2. QED BY <1>8, <1>9, <3>1
  <2>2. CASE n \notin Inits
    <3>1. C(n) = C(i)
      BY <1>7, <2>2
    <3>2. QED BY <1>5, <1>6, <1>7, <2>2, <3>1
  <2>3. QED BY <2>1, <2>2
<1>12. file' = file /\ Inits' = Inits /\ \A a : Meaning(a)' = Meaning(a)
  BY <1>1, DueFrame
<1>13. InitsRan(i)'
  BY <1>1, <1>11, <1>12 DEF InitsRan
<1>14. opened' = [l \in Libs |-> Cardinality({k \in DOMAIN handles' : handles'[k] = l})]
  BY <1>1 DEF UndoneInv
<1>15. n <= file.init.count
  BY <1>3
<1>16. QED BY <1>1, <1>5, <1>11, <1>12, <1>13, <1>14, <1>15 DEF UndoneInv, FreedMeansUndone

LEMMA InitEnds ==
    ASSUME LayoutInv, FileWellFormed, ImageInv, UndoneInv, app = "boot", UNCHANGED app,
           CallInit, ~(i < file.init.count)
    PROVE  UndoneInv'
<1>1. UNCHANGED <<build, lib, handles, opened, ran>> /\ pc = "init" /\ pc' = "loaded" /\ i' = 0
  BY DEF CallInit, Return
<1>2. /\ file.init.count \in Nat /\ file.fini.count \in Nat /\ i \in Nat /\ Inits \in SUBSET Nat
      /\ Inits \subseteq 1..file.init.count /\ Finis \subseteq 1..file.fini.count
  BY TableInImage DEF LayoutInv, Inits, Finis
<1>3. i = file.init.count
  BY <1>1, <1>2 DEF UndoneInv
<1>4. UpTo(Inits, i) = Inits /\ From(Finis, file.fini.count + 1) = {}
  <2>1. \A m \in Inits : m <= i
    BY <1>2, <1>3
  <2>2. \A m \in Finis : ~(m >= file.fini.count + 1)
    BY <1>2
  <2>3. QED BY <2>1, <2>2 DEF UpTo, From
<1>5. Len(ran) = Cardinality(Inits) /\ InitsRan(i)
  BY <1>1, <1>4 DEF UndoneInv
<1>6. Len(ran) = Cardinality(Inits) + Cardinality(From(Finis, file.fini.count + 1))
  <2>1. Cardinality(From(Finis, file.fini.count + 1)) = 0
    BY <1>4, FS_EmptySet
  <2>2. Len(ran) \in Nat
    BY DEF UndoneInv
  <2>3. QED BY <1>5, <2>1, <2>2
<1>7. file' = file /\ Inits' = Inits /\ Finis' = Finis /\ \A a : Meaning(a)' = Meaning(a)
  BY <1>1, DueFrame
<1>8. InitsRan(file.init.count)' /\ \A n : From(Finis, n)' = From(Finis, n)
  BY <1>1, <1>3, <1>5, <1>7 DEF InitsRan, From
<1>9. FinisRan(file.fini.count + 1)'
  BY <1>1, <1>4, <1>7 DEF FinisRan
<1>10. file.fini.count - 0 + 1 = file.fini.count + 1 /\ 0 <= file.fini.count
  BY <1>2
<1>11. opened' = [l \in Libs |-> Cardinality({k \in DOMAIN handles' : handles'[k] = l})] /\ ran' \in Seq(Int)
  BY <1>1 DEF UndoneInv
<1>12. QED BY <1>1, <1>6, <1>7, <1>8, <1>9, <1>10, <1>11 DEF UndoneInv, FreedMeansUndone

LEMMA FiniTurn ==
    ASSUME LayoutInv, FileWellFormed, ImageInv, UndoneInv, app = "boot", UNCHANGED app, LeafFinish
    PROVE  UndoneInv'
<1> DEFINE count == file.fini.count
           n == count - i
           at == file.fini.at
           C(m) == Cardinality(From(Finis, m))
           I == Cardinality(Inits)
<1>1. /\ UNCHANGED <<build, lib, handles, opened>> /\ pc = "loaded" /\ pc' = "loaded" /\ i' = i + 1
      /\ i < count /\ Call(mem[at + count - (i + 1)])
  BY DEF LeafFinish
<1>2. /\ at \in Nat /\ count \in Nat /\ i \in Nat /\ Finis \in SUBSET Nat /\ IsFiniteSet(Finis)
      /\ \A m \in 1..count : at + m - 1 \in Image \ Unimplemented
  BY TableInImage DEF LayoutInv, Finis
<1>3. /\ n \in 1..count /\ n \in Nat /\ at + n - 1 = at + count - (i + 1)
      /\ count - i + 1 = n + 1 /\ count - (i + 1) + 1 = n /\ i + 1 <= count
  BY <1>1, <1>2
<1> HIDE DEF n
<1>4. mem[at + n - 1] = Meaning(at + n - 1)
  BY <1>1, <1>2, <1>3, SMTT(30) DEF ImageInv
<1>5. /\ ran' \in Seq(Int) /\ Len(ran) \in Nat
      /\ \A k \in 1..Len(ran) : ran'[k] = ran[k]
      /\ n \in Finis => Len(ran') = Len(ran) + 1 /\ ran'[Len(ran) + 1] = Meaning(at + n - 1)
      /\ n \notin Finis => ran' = ran
  BY <1>1, <1>3, <1>4, CallsDue DEF UndoneInv, Finis
<1>6. /\ Len(ran) = I + C(n + 1) /\ InitsRan(file.init.count)
      /\ \A m \in From(Finis, n + 1) : ran[I + C(m)] = Meaning(at + m - 1)
  BY <1>1, <1>3 DEF UndoneInv, FinisRan
<1>7. /\ C(n + 1) \in Nat
      /\ n \in Finis => C(n) = C(n + 1) + 1
      /\ n \notin Finis => From(Finis, n) = From(Finis, n + 1)
      /\ \A m \in From(Finis, n + 1) : C(m) \in 1..C(n + 1)
  BY <1>2, <1>3, CountFrom
<1>8. /\ file.init.count \in Nat /\ Inits \in SUBSET Nat /\ IsFiniteSet(Inits)
      /\ Inits \subseteq 1..file.init.count /\ I \in Nat
  BY TableInImage, FS_CardinalityType DEF Inits
<1>9. \A m \in From(Finis, n + 1) : ran'[I + C(m)] = Meaning(at + m - 1)
  <2>1. ASSUME NEW m \in From(Finis, n + 1) PROVE I + C(m) \in 1..Len(ran)
    <3>1. C(m) \in 1..C(n + 1)
      BY <1>7, <2>1
    <3> HIDE DEF C, I
    <3>2. QED BY <1>6, <1>7, <1>8, <3>1
  <2>2. QED BY <1>5, <1>6, <2>1
<1>10. From(Finis, n) \subseteq From(Finis, n + 1) \cup {n}
  <2>1. \A m \in Finis : m >= n => m >= n + 1 \/ m = n
    BY <1>2, <1>3
  <2>2. QED BY <2>1 DEF From
<1>11. Len(ran') = I + C(n) /\ \A m \in From(Finis, n) : ran'[I + C(m)] = Meaning(at + m - 1)
  <2>1. CASE n \in Finis
    <3>1. Len(ran') = I + C(n) /\ ran'[I + C(n)] = Meaning(at + n - 1)
      BY <1>5, <1>6, <1>7, <1>8, <2>1, SMTT(30)
    <3>2. QED BY <1>9, <1>10, <3>1
  <2>2. CASE n \notin Finis
    <3>1. C(n) = C(n + 1)
      BY <1>7, <2>2
    <3>2. QED BY <1>5, <1>6, <1>7, <2>2, <3>1
  <2>3. QED BY <2>1, <2>2
<1>12. \A m \in UpTo(Inits, file.init.count) :
          ran'[Cardinality(UpTo(Inits, m))] = Meaning(file.init.at + m - 1)
  <2>1. \A m \in Inits : m <= file.init.count
    BY <1>8
  <2>2. UpTo(Inits, file.init.count) = Inits
    BY <2>1 DEF UpTo
  <2>3. \A m \in UpTo(Inits, file.init.count) : Cardinality(UpTo(Inits, m)) \in 1..I
    BY <1>8, <2>2, CountUpTo
  <2>4. 1..I \subseteq 1..Len(ran)
    BY <1>6, <1>7, <1>8
  <2>5. QED BY <1>5, <1>6, <2>3, <2>4 DEF InitsRan
<1>13. /\ file' = file /\ Inits' = Inits /\ Finis' = Finis /\ \A a : Meaning(a)' = Meaning(a)
  BY <1>1, DueFrame
<1>14. InitsRan(file.init.count)'
  BY <1>12, <1>13 DEF InitsRan
<1>15. FinisRan(file.fini.count - i + 1)'
  BY <1>1, <1>3, <1>11, <1>13 DEF FinisRan
<1>16. opened' = [l \in Libs |-> Cardinality({k \in DOMAIN handles' : handles'[k] = l})]
  BY <1>1 DEF UndoneInv
<1>17. Len(ran') = Cardinality(Inits') + Cardinality(From(Finis', count' - i' + 1)) /\ i' <= count'
  BY <1>1, <1>3, <1>11, <1>13
<1>18. QED BY <1>1, <1>5, <1>14, <1>15, <1>16, <1>17 DEF UndoneInv, FreedMeansUndone

LEMMA FreeEnds ==
    ASSUME LayoutInv, FileWellFormed, HeapInv, UndoneInv, app = "boot", UNCHANGED app, LeafFree
    PROVE  UndoneInv'
<1> DEFINE Held(l) == Cardinality({k \in DOMAIN handles : handles[k] = l})
<1>1. /\ UNCHANGED <<build, lib, handles, ran, error, len>> /\ pc \in {"file", "loaded", "failed"}
      /\ pc = "loaded" => i = file.fini.count
  BY DEF LeafFree
<1>2. CASE pc' = "crashed" /\ UNCHANGED opened
  <2>1. pc # "loaded" /\ (len = 0 \/ (error = "table" /\ file.needed # << >>))
    BY <1>1, <1>2, SMTT(30) DEF LeafFree, HeapInv, HalfBuilt, Mapped, None
  <2>2. file' = file
    BY <1>1, FileFrame
  <2>3. FreedMeansUndone'
    BY <1>1, <1>2, <2>1, <2>2 DEF FreedMeansUndone
  <2>4. opened' = [l \in Libs |-> Cardinality({k \in DOMAIN handles' : handles'[k] = l})] /\ ran' \in Seq(Int)
    BY <1>1, <1>2 DEF UndoneInv
  <2>5. QED BY <1>2, <2>3, <2>4 DEF UndoneInv
<1>3. CASE pc' = "freed"
  <2>1. /\ "phdrs" \in heap /\ heap' = heap \ {"self", "phdrs", "dl_handles"}
        /\ opened' = [l \in Libs |-> opened[l] - Cardinality({k \in Closed : handles[k] = l})]
    BY <1>3 DEF LeafFree
  <2>2. pc \in {"loaded", "failed"} /\ (pc = "loaded" <=> error = None)
    BY <1>1, <2>1 DEF HeapInv
  <2>3. heap' \subseteq IF error' = None THEN {"ehdr"} ELSE {"ehdr", "stream"}
    BY <1>1, <2>1, <2>2 DEF HeapInv
  <2>4. \A l \in Libs : opened'[l] = 0
    <3>1. \A l \in Libs : Held(l) \in Nat
      <4>1. DOMAIN handles = 1..Len(handles) /\ Len(handles) \in Nat
        BY DEF LayoutInv
      <4>2. IsFiniteSet(DOMAIN handles)
        BY <4>1, FS_Interval
      <4>3. \A l : IsFiniteSet({k \in DOMAIN handles : handles[k] = l})
        BY <4>2, FS_Subset
      <4>4. QED BY <4>3, FS_CardinalityType
    <3>2. \A l \in Libs : {k \in Closed : handles[k] = l} = {k \in DOMAIN handles : handles[k] = l}
      BY ElfLoadAssumption DEF Closed
    <3>3. \A l \in Libs : opened[l] = Held(l)
      BY <2>2 DEF UndoneInv
    <3>4. QED BY <2>1, <3>1, <3>2, <3>3
  <2>5. /\ file' = file /\ Inits' = Inits /\ Finis' = Finis /\ \A a : Meaning(a)' = Meaning(a)
    BY <1>1, DueFrame
  <2>6. CASE pc = "loaded"
    <3>1. /\ Inits \subseteq 1..file.init.count /\ Finis \subseteq 1..file.fini.count
          /\ file.init.count \in Nat /\ file.fini.count \in Nat
      BY TableInImage DEF Inits, Finis
    <3>2. UpTo(Inits, file.init.count) = Inits /\ From(Finis, 1) = Finis
      <4>1. (\A m \in Inits : m <= file.init.count) /\ (\A m \in Finis : m >= 1)
        BY <3>1
      <4>2. QED BY <4>1 DEF UpTo, From
    <3>3. file.fini.count - i + 1 = 1
      BY <1>1, <2>6, <3>1
    <3>4. /\ Len(ran) = Cardinality(Inits) + Cardinality(Finis)
          /\ \A m \in Inits : ran[Cardinality(UpTo(Inits, m))] = Meaning(file.init.at + m - 1)
          /\ \A m \in Finis :
                ran[Cardinality(Inits) + Cardinality(From(Finis, m))] = Meaning(file.fini.at + m - 1)
      BY <2>6, <3>2, <3>3 DEF UndoneInv, InitsRan, FinisRan
    <3>5. RanAsDue'
      BY <1>1, <2>5, <3>4 DEF RanAsDue, Inits, Finis, UpTo, From
    <3>6. FreedMeansUndone'
      BY <1>1, <1>3, <2>2, <2>3, <2>4, <2>6, <3>5 DEF FreedMeansUndone
    <3>7. QED BY <1>1, <1>3, <3>6 DEF UndoneInv
  <2>7. CASE pc = "failed"
    <3>1. ran' = << >>
      BY <1>1, <2>7 DEF UndoneInv
    <3>2. FreedMeansUndone'
      BY <1>1, <1>3, <2>2, <2>3, <2>4, <2>7, <3>1 DEF FreedMeansUndone
    <3>3. QED BY <1>1, <1>3, <3>2 DEF UndoneInv
  <2>8. QED BY <2>2, <2>6, <2>7
<1>4. QED BY <1>2, <1>3 DEF LeafFree

\* What is on the heap tells how far the loader is.
LEMMA HeapStep ==
    ASSUME LayoutInv, HeapInv, [Next]_vars
    PROVE  HeapInv'
<1>1. CASE UNCHANGED <<pc, error, len, heap>>
  BY <1>1 DEF HeapInv, Mapped
<1>2. ASSUME ElfNext PROVE HeapInv'
  <2>1. IsFile(file)
    BY IsFileFacts
  <2>2. CASE ReadFile
    BY <2>2 DEF HeapInv, ReadFile, Fail, Return, None, Mapped
  <2>3. CASE ReadHeader
    <3>1. /\ pc = "header" /\ file.header \in Headers
          /\ IF file.header = "ok" THEN pc' = "phdrs" /\ heap' = heap \cup {"stream", "ehdr"} /\ error' = error
             ELSE /\ error' = file.header /\ pc' = "failed"
                  /\ heap' \subseteq (heap \ {"data"}) \cup {"stream", "ehdr"}
          /\ len' = len
      BY <2>1, <2>3 DEF ReadHeader, Return, None, Headers, IsFile
    <3>2. file.header \notin {None, "phdr", "table"}
      BY <3>1 DEF Headers, None
    <3>3. QED BY <3>1, <3>2 DEF HeapInv, Mapped
  <2>4. CASE ReadPhdrs
    <3>1. /\ pc = "phdrs" /\ len' = len
          /\ \/ error' = "alloc" /\ pc' = "failed" /\ heap' = heap \ {"data"}
             \/ error' = "phdr" /\ pc' = "failed" /\ heap' = (heap \ {"data"}) \cup {"phdrs"}
             \/ error' = error /\ pc' = "map" /\ heap' = heap \cup {"phdrs"}
      BY <2>4 DEF ReadPhdrs, Fail, Return, None
    <3>2. QED BY <3>1 DEF HeapInv, Mapped, None
  <2>5. CASE Map
    BY <2>5 DEF HeapInv, Map, Fail, Return, None, Mapped
  <2>6. CASE Copy
    BY <2>6 DEF HeapInv, Copy, Fail, Return, None, Mapped
  <2>7. CASE ReadDynamic
    <3>1. /\ pc = "dynamic" /\ len' = len
          /\ \E needed \in {{}, {"dl_handles"}} :
                \/ error' = error /\ pc' = "open" /\ heap' = heap \cup needed
                \/ error' = "table" /\ pc' = "failed" /\ heap' = (heap \ {"data"}) \cup needed
      BY <2>7 DEF ReadDynamic, Return, None
    <3>2. QED BY <3>1 DEF HeapInv, Mapped, None
  <2>8. CASE Open \/ FixSymbols \/ Relocate
    BY <2>8 DEF HeapInv, Open, FixSymbols, Relocate, Mapped
  <2>9. CASE CallInit
    BY <2>9 DEF HeapInv, CallInit, Return, None, Mapped
  <2>10. CASE LeafFinish
    BY <1>1, <2>10 DEF LeafFinish
  <2>11. CASE LeafFree
    BY <2>11 DEF HeapInv, LeafFree, Mapped
  <2>12. QED BY <1>2, <2>2, <2>3, <2>4, <2>5, <2>6, <2>7, <2>8, <2>9, <2>10, <2>11 DEF ElfNext
<1>3. CASE AndroidMain \/ Script \/ Game
  BY <1>1, <1>3, GameKeepsDomain DEF AndroidMain, elfVars, imageVars
<1>4. QED BY <1>1, <1>2, <1>3 DEF Next, vars, elfVars

\* One more handle of l is held.
HeldIn(h, l) == {k \in DOMAIN h : h[k] = l}

LEMMA HoldsOne ==
    ASSUME NEW T, NEW h \in Seq(T), NEW x \in T, NEW l
    PROVE  /\ Cardinality(HeldIn(h, l)) \in Nat
           /\ Cardinality(HeldIn(Append(h, x), l)) =
                  IF x = l THEN Cardinality(HeldIn(h, l)) + 1 ELSE Cardinality(HeldIn(h, l))
<1> DEFINE n == Len(h) + 1
           g == Append(h, x)
<1>1. DOMAIN h = 1..Len(h) /\ Len(h) \in Nat /\ IsFiniteSet(DOMAIN h) /\ n \notin DOMAIN h
  BY FS_Interval
<1>2. IsFiniteSet(HeldIn(h, l)) /\ n \notin HeldIn(h, l)
  BY <1>1, FS_Subset DEF HeldIn
<1>3. /\ DOMAIN g = DOMAIN h \cup {n} /\ g[n] = x
      /\ \A k \in DOMAIN h : g[k] = h[k]
  BY <1>1
<1> HIDE DEF g, n
<1>4. HeldIn(g, l) = IF x = l THEN HeldIn(h, l) \cup {n} ELSE HeldIn(h, l)
  BY <1>3 DEF HeldIn
<1>5. Cardinality(HeldIn(h, l)) \in Nat /\ Cardinality(HeldIn(h, l) \cup {n}) = Cardinality(HeldIn(h, l)) + 1
  BY <1>2, FS_CardinalityType, FS_AddElement
<1>6. QED BY <1>4, <1>5 DEF g

LEMMA OpensOne ==
    ASSUME LayoutInv, UndoneInv, Open
    PROVE  UndoneInv'
<1> DEFINE l == file.needed[Len(handles) + 1]
           T == Libs \cup {None}
<1>1. pc = "open" /\ pc' = "open" /\ UNCHANGED <<build, lib, ran, i>>
  BY DEF Open
<1>2. l \in Libs
  BY IsFileFacts, SMTT(30) DEF Open, IsFile, LayoutInv
<1>3. handles \in Seq(T)
  BY DEF LayoutInv
<1>4. opened = [m \in Libs |-> Cardinality(HeldIn(handles, m))]
  BY <1>1 DEF UndoneInv, HeldIn
<1>5. ASSUME opened' = [m \in Libs |-> Cardinality(HeldIn(handles', m))]
      PROVE  UndoneInv'
  BY <1>1, <1>5 DEF UndoneInv, FreedMeansUndone, HeldIn
<1>6. CASE handles' = Append(handles, l) /\ opened' = [opened EXCEPT ![l] = @ + 1]
  <2>1. ASSUME NEW m \in Libs
        PROVE  Cardinality(HeldIn(handles', m)) =
                   IF l = m THEN Cardinality(HeldIn(handles, m)) + 1 ELSE Cardinality(HeldIn(handles, m))
    <3>1. l \in T
      BY <1>2
    <3> HIDE DEF l, T
    <3>2. QED BY <1>3, <1>6, <3>1, HoldsOne
  <2> HIDE DEF l
  <2>2. QED BY <1>2, <1>4, <1>5, <1>6, <2>1
<1>7. CASE handles' = Append(handles, None) /\ UNCHANGED opened
  <2>1. ASSUME NEW m \in Libs
        PROVE  Cardinality(HeldIn(handles', m)) = Cardinality(HeldIn(handles, m))
    <3>1. None \in T /\ None # m
      BY ElfLoadAssumption
    <3> HIDE DEF T
    <3>2. QED BY <1>3, <1>7, <3>1, HoldsOne
  <2>2. QED BY <1>4, <1>5, <1>7, <2>1
<1>8. QED BY <1>6, <1>7 DEF Open

LEMMA UndoneStep ==
    ASSUME LayoutInv, FileWellFormed, ImageInv, HeapInv, UndoneInv, [Next]_vars
    PROVE  UndoneInv'
<1> DEFINE Quiet == {"file", "header", "phdrs", "map", "copy", "dynamic", "open", "relocs", "plt"}
<1>1. ASSUME UNCHANGED <<ran, opened, handles>>, pc \in Quiet, pc' \in Quiet \cup {"failed"}
      PROVE  UndoneInv'
  BY <1>1 DEF UndoneInv, FreedMeansUndone
<1>2. ASSUME app = "boot", ElfNext, UNCHANGED shimVars
      PROVE  UndoneInv'
  <2>1. CASE ReadFile \/ ReadHeader \/ ReadPhdrs \/ Map \/ Copy \/ ReadDynamic \/ FixSymbols
    BY <1>1, <2>1, IsFileFacts DEF ReadFile, ReadHeader, ReadPhdrs, Map, Copy, ReadDynamic, FixSymbols,
                                   Fail, Return, None, Headers, IsFile
  <2>2. CASE Relocate
    <3>1. UNCHANGED <<build, lib, handles, ran, opened>> /\ pc \in {"relocs", "plt"}
      BY <2>2 DEF Relocate
    <3>2. CASE pc' \in {"relocs", "plt"}
      BY <1>1, <3>1, <3>2
    <3>3. CASE pc' = "init" /\ i' = 0
      <4>1. file' = file /\ Inits' = Inits
        BY <3>1, DueFrame
      <4>2. Inits \subseteq 1..file.init.count /\ file.init.count \in Nat
        BY TableInImage DEF Inits
      <4>3. UpTo(Inits, 0) = {}
        <5>1. \A m \in Inits : ~(m <= 0)
          BY <4>2
        <5>2. QED BY <5>1 DEF UpTo
      <4>4. ran' = << >> /\ opened' = [l \in Libs |-> Cardinality({n \in DOMAIN handles' : handles'[n] = l})]
        BY <3>1 DEF UndoneInv
      <4>5. Cardinality(UpTo(Inits, 0)) = 0 /\ Len(ran') = 0 /\ ran' \in Seq(Int)
        BY <4>3, <4>4, FS_EmptySet
      <4>6. InitsRan(i)'
        BY <3>3, <4>1, <4>3 DEF InitsRan
      <4>7. 0 <= file.init.count
        BY <4>2
      <4>8. QED BY <3>3, <4>1, <4>4, <4>5, <4>6, <4>7 DEF UndoneInv, FreedMeansUndone
    <3>4. QED BY <2>2, <3>2, <3>3, RelocateTurns
  <2>3. CASE CallInit
    BY <1>2, <2>3, InitTurn, InitEnds DEF shimVars
  <2>4. QED BY <1>2, <2>1, <2>2, <2>3, OpensOne, FiniTurn, FreeEnds, SMTT(30) DEF ElfNext, shimVars
<1>3. CASE AndroidMain \/ Script \/ Game
  <2>1. UNCHANGED <<ran, opened, handles, pc>> /\ app' # "boot" /\ pc' \in {"loaded", "failed"}
    <3>1. CASE AndroidMain
      BY <3>1 DEF AndroidMain, elfVars
    <3>2. CASE Script \/ Game
      BY <3>2, GameKeepsDomain DEF LayoutInv, imageVars
    <3>3. QED BY <1>3, <3>1, <3>2
  <2>2. QED BY <2>1 DEF UndoneInv, FreedMeansUndone
<1>4. CASE UNCHANGED vars
  <2>1. UNCHANGED <<build, lib, handles, ran, opened, i, pc, app, error, len, heap>>
    BY <1>4 DEF vars, elfVars, shimVars
  <2>2. /\ file' = file /\ Inits' = Inits /\ Finis' = Finis /\ \A a : Meaning(a)' = Meaning(a)
    BY <2>1, DueFrame
  <2>3. \A S, n : UpTo(S, n)' = UpTo(S, n) /\ From(S, n)' = From(S, n)
    BY DEF UpTo, From
  <2>4. QED BY <2>1, <2>2, <2>3, ZenonT(30) DEF UndoneInv, InitsRan, FinisRan, FreedMeansUndone, Inits, Finis,
                                     RanAsDue, Due
<1>5. QED BY <1>2, <1>3, <1>4 DEF Next

\* Whatever is missing and whatever fails: when a library is freed, loaded or not, every
\* library that was opened is closed, and the functions of init_array and fini_array that
\* are there have run once each, in their orders, if it was loaded, and none of them if
\* not; and freeing crashes only where FreedMeansUndone says so.
THEOREM FreedIsUndone == LibrariesWellFormed => (Spec => []FreedMeansUndone)
<1>1. ASSUME LibrariesWellFormed PROVE Spec => []FreedMeansUndone
  <2>1. Init => HeapInv /\ UndoneInv
    <3>1. ASSUME Init PROVE HeapInv /\ UndoneInv
      <4>1. \A l : {n \in DOMAIN handles : handles[n] = l} = {}
        BY <3>1 DEF Init, ElfInit
      <4>2. UndoneInv
        BY <3>1, <4>1, FS_EmptySet DEF Init, ElfInit, UndoneInv, FreedMeansUndone
      <4>3. HeapInv
        BY <3>1 DEF Init, ElfInit, HeapInv, Mapped
      <4>4. QED BY <4>2, <4>3
    <3>2. QED BY <3>1
  <2>2. LayoutInv /\ ImageInv /\ HeapInv /\ UndoneInv /\ [Next]_vars => HeapInv' /\ UndoneInv'
    BY <1>1, WellFormedNow, UndoneStep, HeapStep
  <2>3. UndoneInv => FreedMeansUndone
    BY DEF UndoneInv
  <2>4. Spec => []ImageInv
    BY <1>1, ImageIsRight
  <2>5. QED BY <2>1, <2>2, <2>3, <2>4, Layout, PTL DEF Spec
<1>2. QED BY <1>1
==============================================================================
