------------------------------ MODULE LeafHook ------------------------------
(***************************************************************************)
(* jni/leafhook.h and KNHookFunction of jni/util.c.  The first words of a  *)
(* function of the game are replaced by a jump to a hook; they move to a   *)
(* trampoline in a block of executable memory, rewritten to mean the same  *)
(* there and followed by a jump back.  The hook calls the trampoline       *)
(* through a global, here orig.  Both builds are modelled: arch.           *)
(* Memory is counted in words of four bytes; the value of a pointer is in  *)
(* bytes.                                                                  *)
(***************************************************************************)
EXTENDS Integers, Sequences, FiniteSets

CONSTANTS Functions,   \* functions of the game that are hooked, once each
          Hook,        \* the hook of each
          Programs,    \* for each build, what the game's code may be
          FnSize,      \* words of a function, its literals included
          RwxSize,     \* words of rwx_block: 10 pages
          StreamMax,   \* LH_STREAM_MAX_SIZE
          MapFails     \* may mmap fail?

Archs == {"AArch64", "AArch32"}
Rwx == "rwx"
None == "none"

\* An instruction or a datum.  plain: means the same anywhere.  adr: PC-relative, imm is
\* its immediate field (bytes away, on AArch32 encoded); adrsub: the AArch32 adr that
\* subtracts.  ldr, and on AArch64 adrp and ldrw (32 bits): PC-relative, imm words or pages
\* away.  rel: PC-relative and of no kind the code has a macro for (branches).  br: jump to
\* register rd.  ptr, page: part rd of an address.  lit: a literal.
Ops == {"plain", "adr", "adrsub", "adrp", "ldr", "ldrw", "rel", "br", "ptr", "page", "lit"}
Bases == Functions \cup {Rwx, None} \cup {Hook[f] : f \in Functions}
Word == [op : Ops, rd : Nat, imm : Int, base : Bases]
W(op, rd, imm, base) == [op |-> op, rd |-> rd, imm |-> imm, base |-> base]
Garbage == W("lit", 0, 0, None)

Addr == (Functions \X (0..(FnSize - 1))) \cup ({Rwx} \X (0..(RwxSize - 1)))

\* Four words of code, two of jump, a pointer for each of them and for the jump.
MaxTrampoline == 6 + 5 * 2

ASSUME LeafHookAssumption ==
    /\ Functions \subseteq STRING /\ Rwx \notin Functions /\ IsFiniteSet(Functions)
    /\ Hook \in [Functions -> STRING]
    /\ FnSize \in Nat /\ FnSize >= 4 /\ RwxSize \in Nat
    /\ Cardinality(Functions) * MaxTrampoline <= RwxSize
    /\ StreamMax \in Nat /\ StreamMax >= 5 * 2
    /\ MapFails \in BOOLEAN
    /\ \A a \in Archs : Programs[a] \subseteq [Functions -> [0..(FnSize - 1) -> Word]]

\* AArch32 has no adrp and no 32-bit form of the ldr; its adr has twelve bits.
ASSUME AArch32Assumption ==
    \A p \in Programs["AArch32"], f \in Functions, n \in 0..(FnSize - 1) :
        /\ p[f][n].op \notin {"adrp", "ldrw"}
        /\ p[f][n].op \in {"adr", "adrsub"} => p[f][n].imm \in 0..4095

VARIABLES arch,            \* AArch64 or AArch32: which build
          mem, was,        \* memory, and memory as the loader left it
          gHooker,         \* NULL, or what its rwx_block is: "block", "MAP_FAILED"
          rwx_block_used,
          orig,            \* for each function: offset of its trampoline, or NULL
          pc, fn, i, code, data, new_block,
          fault            \* what killed the process, or "none"

loop == <<fn, i, code, data, new_block>>
vars == <<arch, mem, was, gHooker, rwx_block_used, orig, pc, loop, fault>>

NULL == -1

------------------------------------------------------------------------------
\* block_size, the words of a pointer, the distance from an instruction to the PC it sees,
\* the register of the jumps.
BlockSize == IF arch = "AArch64" THEN 4 ELSE 3
Width == IF arch = "AArch64" THEN 2 ELSE 1
Bias == IF arch = "AArch64" THEN 0 ELSE 2
Scratch == IF arch = "AArch64" THEN 16 ELSE 12

At(m, base, n) == IF <<base, n>> \in Addr THEN m[<<base, n>>] ELSE Garbage
Load(m, base, n, words) == [k \in 1..words |-> At(m, base, n + k - 1)]
Store(m, base, n, words) ==
    [a \in Addr |-> IF a[1] = base /\ a[2] \in n..(n + Len(words) - 1)
                    THEN words[a[2] - n + 1] ELSE m[a]]

Pointer(base, byte) == [k \in 1..Width |-> W("ptr", k, byte, base)]
Page(base, imm) == [k \in 1..Width |-> W("page", k, imm, base)]

\* The AArch32 processor takes the low 8 of the 12 bits and rotates them right by twice
\* the other 4.
ArmExpandImm(imm) ==
    LET by == 2 * (imm \div 256)
        x  == imm % 256
    IN  IF by = 0 THEN x ELSE (x \div 2^by) + (x % 2^by) * 2^(32 - by)

\* How many bytes away the address of an adr is.
Distance(w) == IF arch = "AArch64" THEN w.imm ELSE ArmExpandImm(w.imm)

\* What the processor does at <<base, n>> in memory m.
Effect(m, base, n) ==
    LET w == At(m, base, n)
        PC == n + Bias
        set(value) == [kind |-> "set", rd |-> w.rd, value |-> value]
    IN  CASE w.op = "adr"    -> set(Pointer(base, 4 * PC + Distance(w)))
          [] w.op = "adrsub" -> set(Pointer(base, 4 * PC - Distance(w)))
          [] w.op = "adrp"   -> set(Page(base, w.imm))
          [] w.op = "ldr"    -> set(Load(m, base, PC + w.imm, Width))
          [] w.op = "ldrw"   -> set(Load(m, base, PC + w.imm, 1))
          [] w.op = "rel"    -> [kind |-> "rel", rd |-> w.rd, value |-> Pointer(base, 4 * (PC + w.imm))]
          [] OTHER           -> [kind |-> w.op, rd |-> w.rd, value |-> <<w>>]

\* LHStreamWrite: a write that does not fit is dropped.
Written(stream, words) ==
    IF Len(stream) + Len(words) > StreamMax THEN stream ELSE stream \o words

\* Mutant: the two words of the jump back are forgotten.
InsOffsetShort == BlockSize - Len(code) + Len(data) - Bias

\* LH_INS_OFFSET, in words: from the instruction being written to the end of the data.
InsOffset == BlockSize + 2 - Len(code) + Len(data) - Bias

\* The literal of the ldr at n: on AArch64 it is read at index i of the array there.
Literal(n, imm, words) ==
    Load(mem, fn, n + Bias + imm + (IF arch = "AArch64" THEN n * words ELSE 0), words)

\* The IS_ macros.  IS_AARCH32_ADR_SUB tests for the same bits as IS_AARCH32_ADR, so it is
\* true of an adr that adds, and nothing is true of one that subtracts.
IsAdr(w) == w.op = "adr"
IsAdrSub(w) == arch = "AArch32" /\ w.op = "adr"
Recognised(w) == IsAdr(w) \/ IsAdrSub(w) \/ w.op \in {"adrp", "ldr", "ldrw"}

\* What the recognised instruction w at n leaves in its register.  The immediate of an
\* AArch32 adr is not expanded; the branch that subtracts comes too late to be taken.
Result(w, n) ==
    CASE IsAdr(w)                 -> Pointer(fn, 4 * (n + Bias) + w.imm)
      [] IsAdrSub(w) /\ ~IsAdr(w) -> Pointer(fn, 4 * (n + Bias) - w.imm)
      [] w.op = "adrp"            -> Page(fn, w.imm)
      [] w.op = "ldr"             -> Literal(n, w.imm, Width)
      [] w.op = "ldrw"            -> Literal(n, w.imm, 1)
------------------------------------------------------------------------------
Init ==
    /\ arch \in Archs
    /\ \E p \in Programs[arch] : was = [a \in Addr |-> IF a[1] = Rwx THEN Garbage ELSE p[a[1]][a[2]]]
    /\ mem = was
    /\ gHooker = "NULL" /\ rwx_block_used = 0
    /\ orig = [f \in Functions |-> NULL]
    /\ pc = "idle" /\ fn = None /\ i = 0 /\ code = << >> /\ data = << >> /\ new_block = NULL
    /\ fault = "none"

\* KNHookInit and LHHookerCreate, at the first hook: a failed malloc is reported, and tried
\* again at the next hook; a failed mmap returns MAP_FAILED, which is not NULL.
KNHookInit ==
    IF gHooker = "NULL"
    THEN gHooker' \in {"NULL", "block"} \cup (IF MapFails THEN {"MAP_FAILED"} ELSE {})
    ELSE gHooker' = gHooker

\* Mutant: knEnableReloading hooks again in every script that calls it.
MayHookAlways(f) == TRUE

\* The modules hook at boot, once each; a script may call knEnableReloading again, which
\* hooks only while the pointer to the original is NULL.
MayHook(f) == orig[f] = NULL

\* KNHookFunction up to the loop.
KNHookFunction(f) ==
    /\ pc = "idle" /\ fault = "none" /\ MayHook(f)
    /\ KNHookInit
    /\ IF gHooker' = "NULL"
       THEN UNCHANGED <<pc, loop>>
       ELSE pc' = "rewrite" /\ fn' = f /\ i' = 0 /\ code' = << >> /\ data' = << >> /\ new_block' = NULL
    /\ UNCHANGED <<arch, mem, was, rwx_block_used, orig, fault>>

\* Mutant: one word too many.
MoreInclusive == i <= BlockSize

\* The condition of the loop.
More == i < BlockSize

\* The loop of LHRewriteAArch64Block and LHRewriteAArch32Block: a recognised instruction
\* becomes a load of its result, which is appended to the data.
RewriteWord ==
    /\ pc = "rewrite" /\ More
    /\ LET w == At(mem, fn, i)
       IN  IF Recognised(w)
           THEN /\ code' = Written(code, <<W(IF w.op = "ldrw" THEN "ldrw" ELSE "ldr", w.rd, InsOffset, None)>>)
                /\ data' = Written(data, Result(w, i))
           ELSE code' = Written(code, <<w>>) /\ data' = data
    /\ i' = i + 1
    /\ UNCHANGED <<arch, mem, was, gHooker, rwx_block_used, orig, pc, fn, new_block, fault>>

\* LHHookerAllocRwx: what is used afterwards; rwx_block_size is not looked at.
AllocRwx(size) == rwx_block_used + size

\* The jump back, both words of it written before its pointer, and LH_COPY_TO_NEW_BLOCK.
CopyToNewBlock ==
    /\ pc = "rewrite" /\ ~More
    /\ LET jump  == <<W("ldr", Scratch, InsOffset, None), W("br", Scratch, 0, None)>>
           block == Written(code, jump) \o Written(data, Pointer(fn, 4 * BlockSize))
           why   == IF gHooker = "MAP_FAILED" THEN "MAP_FAILED"
                    ELSE IF rwx_block_used + Len(block) > RwxSize THEN "overrun" ELSE "none"
       IN  /\ new_block' = rwx_block_used
           /\ rwx_block_used' = AllocRwx(Len(block))
           /\ fault' = why
           /\ pc' = IF why = "none" THEN "orig" ELSE "dead"
           /\ mem' = IF why = "none" THEN Store(mem, Rwx, rwx_block_used, block) ELSE mem
    /\ UNCHANGED <<arch, was, gHooker, orig, fn, i, code, data>>

\* orig[0] = orig_ptr
SetOrig ==
    /\ pc = "orig"
    /\ orig' = [orig EXCEPT ![fn] = new_block]
    /\ pc' = "jump"
    /\ UNCHANGED <<arch, mem, was, gHooker, rwx_block_used, loop, fault>>

\* Mutant: the literal is taken to be right after the load.
LongJumpShort(target) ==
    <<W("ldr", Scratch, 1 - Bias, None), W("br", Scratch, 0, None)>> \o Pointer(target, 0)

\* LHWriteAArch64LongJump, LHWriteAArch32LongJump
LongJump(target) ==
    <<W("ldr", Scratch, 2 - Bias, None), W("br", Scratch, 0, None)>> \o Pointer(target, 0)

WriteLongJump ==
    /\ pc = "jump"
    /\ mem' = Store(mem, fn, 0, LongJump(Hook[fn]))
    /\ pc' = "idle"
    /\ UNCHANGED <<arch, was, gHooker, rwx_block_used, orig, loop, fault>>

Next ==
    \/ \E f \in Functions : KNHookFunction(f)
    \/ RewriteWord \/ CopyToNewBlock \/ SetOrig \/ WriteLongJump

Spec == Init /\ [][Next]_vars

------------------------------------------------------------------------------
TypeOK ==
    /\ arch \in Archs
    /\ mem \in [Addr -> Word] /\ was \in [Addr -> Word]
    /\ gHooker \in {"NULL", "block", "MAP_FAILED"}
    /\ rwx_block_used \in Nat
    /\ orig \in [Functions -> {NULL} \cup Nat]
    /\ pc \in {"idle", "rewrite", "orig", "jump", "dead"}
    /\ fn \in Functions \cup {None} /\ i \in 0..BlockSize
    /\ code \in Seq(Word) /\ data \in Seq(Word) /\ new_block \in {NULL} \cup Nat
    /\ fault \in {"none", "MAP_FAILED", "overrun"}

\* What the original word at <<f, n>> did when the game was loaded.
Meant(f, n) == Effect(was, f, n)

\* The words that the rewriting keeps the meaning of: not those that no macro recognises,
\* on AArch32 not an adr whose immediate is rotated, and on AArch64 not the ldr past the
\* first word (LiteralsKept).
Kept(f, n) ==
    LET w == At(was, f, n)
    IN  /\ w.op \notin {"rel", "adrsub"}
        /\ arch = "AArch32" /\ w.op = "adr" => w.imm \in 0..255
        /\ arch = "AArch64" /\ w.op \in {"ldr", "ldrw"} => n = 0

\* "Rewrite a block of instructions to be position independent, also inserting a jump
\* back": however many functions are hooked, and while others are being hooked, the
\* trampoline of f still does what the original first words of f did and then goes on
\* behind them, in the function itself and not in a hook.
OrigKeepsMeaning ==
    \A f \in Functions : orig[f] # NULL =>
        /\ \A n \in 0..(BlockSize - 1) : Kept(f, n) => Effect(mem, Rwx, orig[f] + n) = Meant(f, n)
        /\ Effect(mem, Rwx, orig[f] + BlockSize)
               = [kind |-> "set", rd |-> Scratch, value |-> Pointer(f, 4 * BlockSize)]
        /\ Effect(mem, Rwx, orig[f] + BlockSize + 1).kind = "br"

\* A function is as it was, or jumps to its hook; a hook that can run can also call the
\* original; and no byte behind the jump is touched.
HooksReachOriginal ==
    \A f \in Functions :
        /\ \A n \in BlockSize..(FnSize - 1) : mem[<<f, n>>] = was[<<f, n>>]
        /\ \/ \A n \in 0..(BlockSize - 1) : mem[<<f, n>>] = was[<<f, n>>]
           \/ /\ orig[f] # NULL
              /\ Effect(mem, f, 0) = [kind |-> "set", rd |-> Scratch, value |-> Pointer(Hook[f], 0)]
              /\ Effect(mem, f, 1) = [kind |-> "br", rd |-> Scratch, value |-> <<W("br", Scratch, 0, None)>>]

\* Ten pages hold the trampolines of all hooks, although the allocation never checks.
NeverOverruns == fault # "overrun"

\* A literal that an original word loads is loaded by its rewritten word too, wherever in
\* the block it stands ("position independent").
LiteralsKept ==
    \A f \in Functions, n \in 0..(BlockSize - 1) :
        orig[f] # NULL /\ At(was, f, n).op = "ldr" => Effect(mem, Rwx, orig[f] + n) = Meant(f, n)
==============================================================================
