--------------------------- MODULE LeafHookProofs ---------------------------
(***************************************************************************)
(* The trampolines of LeafHook keep the meaning of what they displace, and *)
(* hooks reach the original, for all functions, hooks and programs.        *)
(***************************************************************************)
EXTENDS LeafHook, SequenceTheorems, FiniteSetTheorems, TLAPS

\* What the recognised original word at <<f, k>> put into its register.
Value(f, k) ==
    LET w == At(was, f, k)
    IN  CASE w.op = "adr"  -> Pointer(f, 4 * (k + Bias) + Distance(w))
          [] w.op = "adrp" -> Page(f, w.imm)
          [] w.op = "ldr"  -> Load(was, f, k + Bias + w.imm, Width)
          [] w.op = "ldrw" -> Load(was, f, k + Bias + w.imm, 1)

LoadOp(w) == IF w.op = "ldrw" THEN "ldrw" ELSE "ldr"
Size(w) == IF w.op = "ldrw" THEN 1 ELSE Width

\* While the loop runs: the k-th word of the code has the meaning of the k-th original
\* word, if the data goes right behind the jump back.
Rewritten(k) ==
    LET w == At(was, fn, k)
    IN  IF Recognised(w)
        THEN \E p \in Nat :
                /\ p + Size(w) <= Len(data)
                /\ code[k + 1] = W(LoadOp(w), w.rd, BlockSize + 2 + p - k - Bias, None)
                /\ \A s \in 1..Size(w) : data[p + s] = Value(fn, k)[s]
        ELSE code[k + 1] = w

\* In the block: the word at b + k loads the value.
Holds(b, k, op, rd, size, value) ==
    \E t \in Nat :
        /\ b + t + size <= rwx_block_used /\ b + t + size <= RwxSize
        /\ mem[<<Rwx, b + k>>] = W(op, rd, t - k - Bias, None)
        /\ \A s \in 1..size : mem[<<Rwx, b + t + s - 1>>] = value[s]

\* The trampoline of f is at offset b.
Trampoline(f, b) ==
    /\ b + BlockSize + 2 <= rwx_block_used /\ b + BlockSize + 2 <= RwxSize
    /\ \A k \in 0..(BlockSize - 1) :
           LET w == At(was, f, k)
           IN  Kept(f, k) => IF Recognised(w) THEN Holds(b, k, LoadOp(w), w.rd, Size(w), Value(f, k))
                             ELSE mem[<<Rwx, b + k>>] = w
    /\ Holds(b, BlockSize, "ldr", Scratch, Width, Pointer(f, 4 * BlockSize))
    /\ mem[<<Rwx, b + BlockSize + 1>>] = W("br", Scratch, 0, None)

\* The function jumps to its hook.
Jumps(f) ==
    \A n \in 0..(1 + Width) : mem[<<f, n>>] = LongJump(Hook[f])[n + 1]

IsOriginal(f) == \A n \in 0..(BlockSize - 1) : mem[<<f, n>>] = was[<<f, n>>]

LoopInv ==
    pc = "rewrite" =>
        /\ fn \in Functions /\ orig[fn] = NULL
        /\ Len(code) = i /\ Len(data) <= 2 * i
        /\ \A k \in 0..(i - 1) : Kept(fn, k) => Rewritten(k)

CallInv ==
    /\ pc \in {"orig", "jump"} => fn \in Functions /\ new_block \in Nat
    /\ pc \in {"orig", "jump"} => \A b \in Nat : b = new_block => Trampoline(fn, b)
    /\ pc = "orig" => orig[fn] = NULL
    /\ pc = "jump" => orig[fn] = new_block /\ IsOriginal(fn)

FunctionsInv ==
    \A f \in Functions :
        /\ \A b \in Nat : orig[f] = b => Trampoline(f, b)
        /\ \A n \in BlockSize..(FnSize - 1) : mem[<<f, n>>] = was[<<f, n>>]
        /\ orig[f] = NULL => IsOriginal(f)
        /\ IsOriginal(f) \/ Jumps(f)

IInv == TypeOK /\ LoopInv /\ CallInv /\ FunctionsInv

------------------------------------------------------------------------------
(* The two architectures and the words. *)

LEMMA ArchFacts ==
    ASSUME arch \in Archs
    PROVE  /\ BlockSize \in {3, 4} /\ Width \in {1, 2} /\ Bias \in {0, 2} /\ Scratch \in Nat
           /\ 2 + Width = BlockSize
           /\ arch # "AArch64" => BlockSize = 3 /\ Width = 1
  BY DEF Archs, BlockSize, Width, Bias, Scratch

LEMMA ArchSame ==
    ASSUME arch' = arch
    PROVE  BlockSize' = BlockSize /\ Width' = Width /\ Bias' = Bias /\ Scratch' = Scratch
  BY DEF BlockSize, Width, Bias, Scratch

LEMMA WordType ==
    ASSUME NEW op \in Ops, NEW rd \in Nat, NEW imm \in Int, NEW base \in Bases
    PROVE  /\ W(op, rd, imm, base) \in Word
           /\ W(op, rd, imm, base).op = op /\ W(op, rd, imm, base).rd = rd
           /\ W(op, rd, imm, base).imm = imm
  BY DEF W, Word

LEMMA Names == Rwx \in Bases /\ None \in Bases /\ Rwx \notin Functions /\ \A f \in Functions : f \in Bases /\ Hook[f] \in Bases
  BY LeafHookAssumption DEF Bases

LEMMA JumpWords ==
    ASSUME arch \in Archs, NEW imm \in Int
    PROVE  W("ldr", Scratch, imm, None) \in Word /\ W("br", Scratch, 0, None) \in Word
<1>1. Scratch \in Nat /\ None \in Bases
  BY ArchFacts, Names
<1>2. "ldr" \in Ops /\ "br" \in Ops /\ 0 \in Int
  BY DEF Ops
<1>3. QED BY <1>1, <1>2 DEF W, Word

LEMMA GarbageType == Garbage \in Word
  BY WordType, Names DEF Garbage, Ops

LEMMA AtType ==
    ASSUME NEW m \in [Addr -> Word], NEW base, NEW n \in Int
    PROVE  At(m, base, n) \in Word
  BY GarbageType DEF At

LEMMA AddrFacts ==
    /\ \A f \in Functions, n \in 0..(FnSize - 1) : <<f, n>> \in Addr
    /\ \A n \in 0..(RwxSize - 1) : <<Rwx, n>> \in Addr
  BY DEF Addr

LEMMA PointerType ==
    ASSUME arch \in Archs, NEW base \in Bases, NEW n \in Int
    PROVE  /\ Pointer(base, n) \in Seq(Word) /\ Len(Pointer(base, n)) = Width
           /\ Page(base, n) \in Seq(Word) /\ Len(Page(base, n)) = Width
<1>1. Width \in Nat /\ \A k \in 1..Width : k \in Nat
  BY ArchFacts
<1>2. \A k \in 1..Width : W("ptr", k, n, base) \in Word /\ W("page", k, n, base) \in Word
  BY <1>1, WordType DEF Ops
<1>3. QED BY <1>1, <1>2 DEF Pointer, Page

LEMMA LoadType ==
    ASSUME NEW m \in [Addr -> Word], NEW base, NEW n \in Int, NEW words \in Nat
    PROVE  Load(m, base, n, words) \in Seq(Word) /\ Len(Load(m, base, n, words)) = words
<1>1. \A k \in 1..words : At(m, base, n + k - 1) \in Word
  BY AtType
<1>2. QED BY <1>1 DEF Load

LEMMA StoreType ==
    ASSUME NEW m \in [Addr -> Word], NEW base, NEW n \in Nat, NEW words \in Seq(Word)
    PROVE  /\ Store(m, base, n, words) \in [Addr -> Word]
           /\ \A a \in Addr : a[1] # base => Store(m, base, n, words)[a] = m[a]
           /\ \A a \in Addr : a[2] < n \/ a[2] >= n + Len(words) => Store(m, base, n, words)[a] = m[a]
           /\ \A k \in 1..Len(words) : <<base, n + k - 1>> \in Addr =>
                 Store(m, base, n, words)[<<base, n + k - 1>>] = words[k]
<1>1. \A a \in Addr : a[2] \in Nat
  BY LeafHookAssumption DEF Addr
<1>2. ASSUME NEW a \in Addr, a[2] \in n..(n + Len(words) - 1) PROVE words[a[2] - n + 1] \in Word
  BY <1>1, <1>2
<1>3. Store(m, base, n, words) \in [Addr -> Word]
  BY <1>1, <1>2 DEF Store
<1>4. \A a \in Addr : a[2] < n \/ a[2] >= n + Len(words) => Store(m, base, n, words)[a] = m[a]
  BY <1>1 DEF Store
<1>5. ASSUME NEW k \in 1..Len(words), <<base, n + k - 1>> \in Addr
      PROVE  Store(m, base, n, words)[<<base, n + k - 1>>] = words[k]
  BY <1>5 DEF Store
<1>6. QED BY <1>3, <1>4, <1>5 DEF Store
------------------------------------------------------------------------------
(* What the loop writes. *)

LEMMA SizeFacts ==
    ASSUME arch \in Archs, NEW w \in Word
    PROVE  /\ Size(w) \in {1, 2} /\ LoadOp(w) \in {"ldr", "ldrw"}
           /\ w.rd \in Nat /\ w.imm \in Int /\ w.op \in Ops
  BY ArchFacts DEF Size, LoadOp, Word

LEMMA ResultType ==
    ASSUME TypeOK, fn \in Functions, NEW w \in Word, NEW n \in Nat, Recognised(w)
    PROVE  Result(w, n) \in Seq(Word) /\ Len(Result(w, n)) = Size(w)
<1>1. arch \in Archs /\ mem \in [Addr -> Word]
  BY DEF TypeOK
<1>2. Bias \in Int /\ Width \in Nat /\ w.imm \in Int /\ fn \in Bases
  BY <1>1, ArchFacts, Names DEF Word
<1>3. CASE w.op = "adr"
  <2>1. 4 * (n + Bias) + w.imm \in Int
    BY <1>2
  <2>2. Result(w, n) = Pointer(fn, 4 * (n + Bias) + w.imm)
    BY <1>3 DEF Result, IsAdr
  <2>3. Size(w) = Width
    BY <1>3 DEF Size
  <2> QED BY <1>1, <1>2, <2>1, <2>2, <2>3, PointerType
<1>4. CASE w.op = "adrp"
  BY <1>1, <1>2, <1>4, PointerType DEF Result, IsAdr, IsAdrSub, Size
<1>5. \A words \in Nat : /\ Literal(n, w.imm, words) \in Seq(Word)
                          /\ Len(Literal(n, w.imm, words)) = words
  <2>1. \A words \in Nat : n + Bias + w.imm + (IF arch = "AArch64" THEN n * words ELSE 0) \in Int
    BY <1>2
  <2>2. QED BY <1>1, <2>1, LoadType, ZenonT(30) DEF Literal
<1>6. CASE w.op = "ldr"
  BY <1>2, <1>5, <1>6 DEF Result, IsAdr, IsAdrSub, Size
<1>7. CASE w.op = "ldrw"
  BY <1>5, <1>7 DEF Result, IsAdr, IsAdrSub, Size
<1>8. QED BY <1>3, <1>4, <1>6, <1>7 DEF Recognised, IsAdr, IsAdrSub

LEMMA OriginalMemory ==
    ASSUME TypeOK, FunctionsInv, NEW f \in Functions, orig[f] = NULL
    PROVE  /\ \A n \in Int : At(mem, f, n) = At(was, f, n)
           /\ \A n \in Int, words \in Nat : Load(mem, f, n, words) = Load(was, f, n, words)
<1>1. \A n \in 0..(FnSize - 1) : mem[<<f, n>>] = was[<<f, n>>]
  BY ArchFacts DEF FunctionsInv, IsOriginal, TypeOK
<1>2. ASSUME NEW n, <<f, n>> \in Addr PROVE n \in 0..(FnSize - 1)
  BY <1>2, Names DEF Addr
<1>3. \A n \in Int : At(mem, f, n) = At(was, f, n)
  BY <1>1, <1>2 DEF At
<1>4. QED BY <1>3 DEF Load

\* An immediate that is not rotated stands for itself.
LEMMA PlainImm ==
    ASSUME NEW imm \in 0..255
    PROVE  ArmExpandImm(imm) = imm
<1>1. 2 * (imm \div 256) = 0 /\ imm % 256 = imm
  OBVIOUS
<1> QED BY <1>1 DEF ArmExpandImm

LEMMA ResultIsValue ==
    ASSUME TypeOK, FunctionsInv, fn \in Functions, orig[fn] = NULL,
           NEW n \in Nat, Kept(fn, n), Recognised(At(was, fn, n))
    PROVE  Result(At(was, fn, n), n) = Value(fn, n)
<1> DEFINE w == At(was, fn, n)
<1>1. w \in Word /\ arch \in Archs
  BY AtType DEF TypeOK
<1>2. Bias \in Int /\ Width \in Nat /\ w.imm \in Int
  BY <1>1, ArchFacts DEF Word
<1>3. ASSUME w.op \in {"ldr", "ldrw"}, NEW words \in Nat
      PROVE  Literal(n, w.imm, words) = Load(was, fn, n + Bias + w.imm, words)
  <2>1. (IF arch = "AArch64" THEN n * words ELSE 0) = 0
    BY <1>3 DEF Kept
  <2>2. n + Bias + w.imm \in Int /\ n + Bias + w.imm + 0 = n + Bias + w.imm
    BY <1>2
  <2>3. QED BY <2>1, <2>2, OriginalMemory DEF Literal
<1>4. CASE w.op = "ldr"
  BY <1>2, <1>3, <1>4 DEF Result, IsAdr, IsAdrSub, Value
<1>5. CASE w.op = "ldrw"
  BY <1>3, <1>5 DEF Result, IsAdr, IsAdrSub, Value
<1>6. CASE w.op = "adrp"
  BY <1>6 DEF Result, IsAdr, IsAdrSub, Value
<1>7. CASE w.op = "adr"
  <2>1. Distance(w) = w.imm
    BY <1>1, <1>2, <1>7, PlainImm DEF Kept, Distance, Archs
  <2> QED BY <1>7, <2>1 DEF Result, IsAdr, Value
<1>8. QED BY <1>4, <1>5, <1>6, <1>7 DEF Recognised, IsAdr, IsAdrSub

LEMMA ValueSame ==
    ASSUME arch' = arch, was' = was, NEW f, NEW k
    PROVE  /\ Value(f, k)' = Value(f, k)
           /\ Kept(f, k)' = Kept(f, k)
           /\ At(was, f, k)' = At(was, f, k)
           /\ \A w : Size(w)' = Size(w)
           /\ \A w : Recognised(w)' <=> Recognised(w)
<1>1. \A w : Size(w)' = Size(w) /\ (Recognised(w)' <=> Recognised(w))
  BY ArchSame DEF Size, Recognised, IsAdr, IsAdrSub
<1>2. QED BY <1>1, ArchSame DEF Value, Kept, At, Load, Pointer, Page, Size, Distance

------------------------------------------------------------------------------
(* A trampoline keeps the meaning of what it displaces. *)

LEMMA HoldsMeans ==
    ASSUME TypeOK, NEW b \in Nat, NEW k \in Nat, NEW op \in {"ldr", "ldrw"}, NEW rd, NEW size \in Nat,
           op = "ldr" => size = Width, op = "ldrw" => size = 1,
           NEW value \in Seq(Word), Len(value) = size,
           b + k < RwxSize,
           Holds(b, k, op, rd, size, value)
    PROVE  Effect(mem, Rwx, b + k) = [kind |-> "set", rd |-> rd, value |-> value]
<1>1. PICK t \in Nat :
          /\ b + t + size <= RwxSize
          /\ mem[<<Rwx, b + k>>] = W(op, rd, t - k - Bias, None)
          /\ \A s \in 1..size : mem[<<Rwx, b + t + s - 1>>] = value[s]
  BY DEF Holds
<1> DEFINE word == W(op, rd, t - k - Bias, None)
<1>2. Bias \in Int /\ RwxSize \in Nat
  BY ArchFacts, LeafHookAssumption DEF TypeOK
<1>3. At(mem, Rwx, b + k) = word
  BY <1>1, <1>2, AddrFacts DEF At
<1>4. word.op = op /\ word.rd = rd /\ word.imm = t - k - Bias
  BY DEF W
<1>5. b + k + Bias + (t - k - Bias) = b + t
  BY <1>2
<1>6. Load(mem, Rwx, b + t, size) = value
  <2>1. ASSUME NEW s \in 1..size PROVE At(mem, Rwx, b + t + s - 1) = value[s]
    <3>1. b + t + s - 1 \in 0..(RwxSize - 1)
      BY <1>1, <1>2
    <3>2. QED BY <1>1, <3>1, AddrFacts DEF At
  <2>2. value \in [1..size -> Word]
    BY LenProperties
  <2>3. value = [s \in 1..size |-> value[s]]
    BY <2>2
  <2>4. QED BY <2>1, <2>3 DEF Load
<1>7. CASE op = "ldr"
  BY <1>3, <1>4, <1>5, <1>6, <1>7 DEF Effect
<1>8. CASE op = "ldrw"
  BY <1>3, <1>4, <1>5, <1>6, <1>8 DEF Effect
<1>9. QED BY <1>7, <1>8

LEMMA ValueType ==
    ASSUME TypeOK, NEW f \in Functions, NEW k \in Nat, Recognised(At(was, f, k)), Kept(f, k)
    PROVE  /\ Value(f, k) \in Seq(Word) /\ Len(Value(f, k)) = Size(At(was, f, k))
           /\ Meant(f, k) = [kind |-> "set", rd |-> At(was, f, k).rd, value |-> Value(f, k)]
<1> DEFINE w == At(was, f, k)
<1>1. w \in Word /\ arch \in Archs /\ was \in [Addr -> Word] /\ f \in Bases
  BY AtType, Names, SMTT(30) DEF TypeOK
<1>2. Bias \in Int /\ Width \in Nat /\ w.imm \in Int
  BY <1>1, ArchFacts DEF Word
<1>3. k + Bias + w.imm \in Int
  BY <1>2
<1>4. CASE w.op = "adr"
  <2>1. Distance(w) = w.imm
    BY <1>1, <1>2, <1>4, PlainImm DEF Kept, Distance, Archs
  <2>2. 4 * (k + Bias) + Distance(w) \in Int
    BY <1>2, <2>1
  <2>3. Value(f, k) = Pointer(f, 4 * (k + Bias) + Distance(w)) /\ Size(w) = Width
    BY <1>4 DEF Value, Size
  <2>4. Meant(f, k) = [kind |-> "set", rd |-> w.rd, value |-> Value(f, k)]
    BY <1>4, <2>3 DEF Meant, Effect
  <2> QED BY <1>1, <2>2, <2>3, <2>4, PointerType
<1>5. CASE w.op = "adrp"
  BY <1>1, <1>2, <1>3, <1>5, PointerType DEF Value, Size, Meant, Effect
<1>6. CASE w.op = "ldr"
  BY <1>1, <1>2, <1>3, <1>6, LoadType DEF Value, Size, Meant, Effect
<1>7. CASE w.op = "ldrw"
  <2>1. Value(f, k) = Load(was, f, k + Bias + w.imm, 1)
    BY <1>7 DEF Value
  <2>2. Meant(f, k) = [kind |-> "set", rd |-> w.rd, value |-> Value(f, k)]
    BY <1>7, <2>1 DEF Meant, Effect
  <2>3. Size(w) = 1
    BY <1>7 DEF Size
  <2>4. /\ Load(was, f, k + Bias + w.imm, 1) \in Seq(Word)
        /\ Len(Load(was, f, k + Bias + w.imm, 1)) = 1
    BY <1>1, <1>3, LoadType, ZenonT(30)
  <2>5. QED BY <2>1, <2>2, <2>3, <2>4
<1>8. QED BY <1>4, <1>5, <1>6, <1>7 DEF Recognised, IsAdr, IsAdrSub

LEMMA TrampolineMeans ==
    ASSUME TypeOK, NEW f \in Functions, NEW b \in Nat, Trampoline(f, b)
    PROVE  /\ \A n \in 0..(BlockSize - 1) : Kept(f, n) => Effect(mem, Rwx, b + n) = Meant(f, n)
           /\ Effect(mem, Rwx, b + BlockSize)
                  = [kind |-> "set", rd |-> Scratch, value |-> Pointer(f, 4 * BlockSize)]
           /\ Effect(mem, Rwx, b + BlockSize + 1).kind = "br"
<1>1. /\ arch \in Archs /\ was \in [Addr -> Word] /\ f \in Bases
      /\ BlockSize \in {3, 4} /\ Width \in {1, 2} /\ RwxSize \in Nat
  BY ArchFacts, Names, LeafHookAssumption DEF TypeOK
<1>2. b + BlockSize + 2 <= RwxSize
  BY DEF Trampoline
<1>3. ASSUME NEW n \in 0..(BlockSize - 1), Kept(f, n)
      PROVE  Effect(mem, Rwx, b + n) = Meant(f, n)
  <2> DEFINE w == At(was, f, n)
  <2>1. w \in Word /\ n \in Nat /\ b + n < RwxSize
    BY <1>1, <1>2, AtType
  <2>2. CASE Recognised(w)
    <3>1. Holds(b, n, LoadOp(w), w.rd, Size(w), Value(f, n))
      BY <1>3, <2>2 DEF Trampoline
    <3>2. /\ LoadOp(w) \in {"ldr", "ldrw"}
          /\ LoadOp(w) = "ldr" => Size(w) = Width
          /\ LoadOp(w) = "ldrw" => Size(w) = 1
      BY DEF LoadOp, Size
    <3>3. /\ Value(f, n) \in Seq(Word) /\ Len(Value(f, n)) = Size(w)
          /\ Meant(f, n) = [kind |-> "set", rd |-> w.rd, value |-> Value(f, n)]
      BY <1>3, <2>1, <2>2, ValueType
    <3>4. Size(w) \in Nat
      BY <1>1 DEF Size
    <3>5. QED BY <2>1, <3>1, <3>2, <3>3, <3>4, HoldsMeans
  <2>3. CASE ~Recognised(w)
    <3>1. mem[<<Rwx, b + n>>] = w
      BY <1>3, <2>3 DEF Trampoline
    <3>2. At(mem, Rwx, b + n) = w
      BY <1>1, <2>1, <3>1, AddrFacts DEF At
    <3>3. w.op \notin {"adr", "adrsub", "adrp", "ldr", "ldrw", "rel"}
      BY <1>3, <2>3 DEF Recognised, IsAdr, IsAdrSub, Kept
    <3>4. Meant(f, n) = [kind |-> w.op, rd |-> w.rd, value |-> <<w>>]
      BY <3>3 DEF Meant, Effect
    <3>5. Effect(mem, Rwx, b + n) = [kind |-> w.op, rd |-> w.rd, value |-> <<w>>]
      BY <3>2, <3>3 DEF Effect
    <3>6. QED BY <3>4, <3>5
  <2>4. QED BY <2>2, <2>3
<1>4. Effect(mem, Rwx, b + BlockSize)
          = [kind |-> "set", rd |-> Scratch, value |-> Pointer(f, 4 * BlockSize)]
  <2>1. Holds(b, BlockSize, "ldr", Scratch, Width, Pointer(f, 4 * BlockSize))
    BY DEF Trampoline
  <2>2. Pointer(f, 4 * BlockSize) \in Seq(Word) /\ Len(Pointer(f, 4 * BlockSize)) = Width
    BY <1>1, PointerType
  <2>3. BlockSize \in Nat /\ b + BlockSize < RwxSize /\ Width \in Nat
    BY <1>1, <1>2
  <2>4. QED BY <2>1, <2>2, <2>3, HoldsMeans
<1>5. Effect(mem, Rwx, b + BlockSize + 1).kind = "br"
  <2>1. mem[<<Rwx, b + BlockSize + 1>>] = W("br", Scratch, 0, None)
    BY DEF Trampoline
  <2>2. b + BlockSize + 1 \in 0..(RwxSize - 1)
    BY <1>1, <1>2
  <2>3. At(mem, Rwx, b + BlockSize + 1) = W("br", Scratch, 0, None)
    BY <2>1, <2>2, AddrFacts DEF At
  <2>4. W("br", Scratch, 0, None).op = "br"
    BY DEF W
  <2>5. QED BY <2>3, <2>4 DEF Effect
<1>6. QED BY <1>3, <1>4, <1>5

LEMMA JumpMeans ==
    ASSUME TypeOK, NEW f \in Functions, Jumps(f)
    PROVE  /\ Effect(mem, f, 0) = [kind |-> "set", rd |-> Scratch, value |-> Pointer(Hook[f], 0)]
           /\ Effect(mem, f, 1) = [kind |-> "br", rd |-> Scratch, value |-> <<W("br", Scratch, 0, None)>>]
<1>1. Width \in {1, 2} /\ Bias \in {0, 2} /\ FnSize \in Nat /\ FnSize >= 4
  BY ArchFacts, LeafHookAssumption DEF TypeOK
<1>2. \A n \in 0..(1 + Width) : At(mem, f, n) = LongJump(Hook[f])[n + 1]
  BY <1>1, AddrFacts DEF Jumps, At
<1>3. Pointer(Hook[f], 0) \in Seq(Word) /\ Len(Pointer(Hook[f], 0)) = Width
  BY PointerType, Names DEF TypeOK
<1>4. /\ LongJump(Hook[f])[1] = W("ldr", Scratch, 2 - Bias, None)
      /\ LongJump(Hook[f])[2] = W("br", Scratch, 0, None)
      /\ \A k \in 1..Width : LongJump(Hook[f])[k + 2] = Pointer(Hook[f], 0)[k]
  BY <1>1, <1>3 DEF LongJump
<1>5. At(mem, f, 0) = W("ldr", Scratch, 2 - Bias, None) /\ At(mem, f, 1) = W("br", Scratch, 0, None)
  BY <1>1, <1>2, <1>4
<1>6. Load(mem, f, 2, Width) = Pointer(Hook[f], 0)
  <2>1. \A k \in 1..Width : At(mem, f, 2 + k - 1) = Pointer(Hook[f], 0)[k]
    BY <1>1, <1>2, <1>4
  <2>2. Pointer(Hook[f], 0) \in [1..Width -> Word]
    BY <1>3, LenProperties
  <2>3. Pointer(Hook[f], 0) = [k \in 1..Width |-> Pointer(Hook[f], 0)[k]]
    BY <2>2
  <2>4. QED BY <2>1, <2>3 DEF Load
<1>7. Effect(mem, f, 0) = [kind |-> "set", rd |-> Scratch, value |-> Load(mem, f, 2, Width)]
  <2>1. 0 + Bias + (2 - Bias) = 2
    BY <1>1
  <2>2. QED BY <1>5, <2>1 DEF Effect, W
<1>8. Effect(mem, f, 1) = [kind |-> "br", rd |-> Scratch, value |-> <<W("br", Scratch, 0, None)>>]
  BY <1>5 DEF Effect, W
<1>9. QED BY <1>6, <1>7, <1>8

------------------------------------------------------------------------------
(* A trampoline is not touched by what is written elsewhere. *)

Untouched ==
    /\ arch' = arch /\ was' = was
    /\ rwx_block_used' \in Nat /\ rwx_block_used' >= rwx_block_used
    /\ \A n \in 0..(RwxSize - 1) : n < rwx_block_used => mem'[<<Rwx, n>>] = mem[<<Rwx, n>>]

LEMMA HoldsStays ==
    ASSUME TypeOK, Untouched, NEW b \in Nat, NEW k \in Nat, NEW op, NEW rd, NEW size \in Nat, NEW value,
           b + k < rwx_block_used, b + k < RwxSize,
           Holds(b, k, op, rd, size, value)
    PROVE  Holds(b, k, op, rd, size, value)'
<1>1. PICK t \in Nat :
          /\ b + t + size <= rwx_block_used /\ b + t + size <= RwxSize
          /\ mem[<<Rwx, b + k>>] = W(op, rd, t - k - Bias, None)
          /\ \A s \in 1..size : mem[<<Rwx, b + t + s - 1>>] = value[s]
  BY DEF Holds
<1>2. /\ rwx_block_used \in Nat /\ RwxSize \in Nat /\ Bias' = Bias
      /\ rwx_block_used' \in Nat /\ rwx_block_used' >= rwx_block_used
  BY ArchSame, LeafHookAssumption DEF TypeOK, Untouched
<1>3. \A n \in 0..(RwxSize - 1) : n < rwx_block_used => mem'[<<Rwx, n>>] = mem[<<Rwx, n>>]
  BY DEF Untouched
<1>4. mem'[<<Rwx, b + k>>] = W(op, rd, t - k - Bias', None)
  BY <1>1, <1>2, <1>3
<1>5. ASSUME NEW s \in 1..size PROVE mem'[<<Rwx, b + t + s - 1>>] = value[s]
  <2>1. b + t + s - 1 \in 0..(RwxSize - 1) /\ b + t + s - 1 < rwx_block_used
    BY <1>1, <1>2
  <2>2. QED BY <1>1, <1>3, <2>1
<1>6. b + t + size <= rwx_block_used'
  BY <1>1, <1>2
<1>7. QED BY <1>1, <1>4, <1>5, <1>6 DEF Holds

LEMMA TrampolineStays ==
    ASSUME TypeOK, Untouched, NEW f \in Functions, NEW b \in Nat, Trampoline(f, b)
    PROVE  Trampoline(f, b)'
<1>1. /\ arch \in Archs /\ was \in [Addr -> Word] /\ RwxSize \in Nat /\ rwx_block_used \in Nat
      /\ BlockSize \in {3, 4} /\ Width \in {1, 2}
      /\ rwx_block_used' \in Nat /\ rwx_block_used' >= rwx_block_used
      /\ arch' = arch /\ was' = was
  BY ArchFacts, LeafHookAssumption DEF TypeOK, Untouched
<1>2. BlockSize' = BlockSize /\ Width' = Width /\ Scratch' = Scratch
  BY <1>1, ArchSame
<1>3. b + BlockSize + 2 <= rwx_block_used /\ b + BlockSize + 2 <= RwxSize
  BY DEF Trampoline
<1>4. \A n \in 0..(RwxSize - 1) : n < rwx_block_used => mem'[<<Rwx, n>>] = mem[<<Rwx, n>>]
  BY DEF Untouched
<1>5. ASSUME NEW k \in 0..(BlockSize - 1), Kept(f, k)
      PROVE  LET w == At(was, f, k)
             IN  IF Recognised(w) THEN Holds(b, k, LoadOp(w), w.rd, Size(w), Value(f, k))'
                 ELSE mem'[<<Rwx, b + k>>] = w
  <2> DEFINE w == At(was, f, k)
  <2>1. k \in Nat /\ b + k < rwx_block_used /\ b + k < RwxSize /\ Size(w) \in Nat
    BY <1>1, <1>3 DEF Size
  <2>2. CASE Recognised(w)
    <3>1. Holds(b, k, LoadOp(w), w.rd, Size(w), Value(f, k))
      BY <1>5, <2>2 DEF Trampoline
    <3>2. Size(w)' = Size(w) /\ Value(f, k)' = Value(f, k) /\ At(was, f, k)' = At(was, f, k)
      BY <1>1, ValueSame
    <3>3. \A op, rd, value : \A size \in Nat : Holds(b, k, op, rd, size, value) => Holds(b, k, op, rd, size, value)'
      BY <2>1, HoldsStays
    <3>4. QED BY <2>1, <2>2, <3>1, <3>2, <3>3
  <2>3. CASE ~Recognised(w)
    <3>1. mem[<<Rwx, b + k>>] = w
      BY <1>5, <2>3 DEF Trampoline
    <3>2. QED BY <1>4, <1>1, <2>1, <2>3, <3>1
  <2>4. QED BY <2>2, <2>3
<1>6. Holds(b, BlockSize, "ldr", Scratch, Width, Pointer(f, 4 * BlockSize))'
  <2>1. Holds(b, BlockSize, "ldr", Scratch, Width, Pointer(f, 4 * BlockSize))
    BY DEF Trampoline
  <2>2. Pointer(f, 4 * BlockSize)' = Pointer(f, 4 * BlockSize)
    BY <1>2 DEF Pointer
  <2>3. BlockSize \in Nat /\ Width \in Nat /\ b + BlockSize < rwx_block_used /\ b + BlockSize < RwxSize
    BY <1>1, <1>3
  <2>4. \A rd, value : \A k \in Nat, size \in Nat : b + k < rwx_block_used /\ b + k < RwxSize /\
            Holds(b, k, "ldr", rd, size, value) => Holds(b, k, "ldr", rd, size, value)'
    BY HoldsStays
  <2>5. QED BY <1>2, <2>1, <2>2, <2>3, <2>4
<1>7. (b + BlockSize + 2 <= rwx_block_used /\ b + BlockSize + 2 <= RwxSize)'
  BY <1>1, <1>2, <1>3
<1>8. (mem[<<Rwx, b + BlockSize + 1>>] = W("br", Scratch, 0, None))'
  <2>1. mem[<<Rwx, b + BlockSize + 1>>] = W("br", Scratch, 0, None)
    BY DEF Trampoline
  <2>2. b + BlockSize + 1 \in 0..(RwxSize - 1) /\ b + BlockSize + 1 < rwx_block_used
    BY <1>1, <1>3
  <2>3. QED BY <1>2, <1>4, <2>1, <2>2
<1>9. \A k \in 0..(BlockSize - 1) :
          /\ Kept(f, k)' = Kept(f, k) /\ At(was, f, k)' = At(was, f, k)
          /\ Recognised(At(was, f, k))' <=> Recognised(At(was, f, k))
  BY <1>1, ValueSame
<1>10. (\A k \in 0..(BlockSize - 1) :
           LET w == At(was, f, k)
           IN  Kept(f, k) => IF Recognised(w) THEN Holds(b, k, LoadOp(w), w.rd, Size(w), Value(f, k))
                             ELSE mem[<<Rwx, b + k>>] = w)'
  BY <1>2, <1>5, <1>9
<1>11. QED BY <1>6, <1>7, <1>8, <1>10 DEF Trampoline

------------------------------------------------------------------------------
(* The invariant is inductive. *)

LEMMA InitIInv == Init => IInv
<1> SUFFICES ASSUME Init PROVE IInv
  OBVIOUS
<1> USE DEF Init
<1>1. was \in [Addr -> Word]
  <2>1. Garbage \in Word
    BY GarbageType
  <2>2. PICK p \in Programs[arch] : was = [a \in Addr |-> IF a[1] = Rwx THEN Garbage ELSE p[a[1]][a[2]]]
    OBVIOUS
  <2>3. p \in [Functions -> [0..(FnSize - 1) -> Word]]
    BY <2>2, LeafHookAssumption
  <2>4. \A a \in Addr : a[1] # Rwx => a[1] \in Functions /\ a[2] \in 0..(FnSize - 1)
    BY DEF Addr
  <2>5. \A a \in Addr : a[1] # Rwx => p[a[1]][a[2]] \in Word
    BY <2>3, <2>4
  <2>6. QED BY <2>1, <2>2, <2>5
<1>2. TypeOK
  <2>1. 0 \in 0..BlockSize
    BY ArchFacts
  <2>2. QED BY <1>1, <2>1 DEF TypeOK, NULL
<1>3. LoopInv /\ CallInv
  BY DEF LoopInv, CallInv
<1>4. FunctionsInv
  BY DEF FunctionsInv, IsOriginal, NULL
<1>5. QED BY <1>2, <1>3, <1>4 DEF IInv

LEMMA KNHookFunctionKeeps ==
    ASSUME IInv, NEW f \in Functions, KNHookFunction(f)
    PROVE  IInv'
<1> USE DEF KNHookFunction
<1>1. BlockSize' = BlockSize /\ Width' = Width /\ Scratch' = Scratch /\ BlockSize \in {3, 4}
  BY ArchSame, ArchFacts DEF IInv, TypeOK
<1>2. TypeOK'
  <2>1. gHooker' \in {"NULL", "block", "MAP_FAILED"}
    BY DEF IInv, TypeOK, KNHookInit
  <2>2. pc' \in {"idle", "rewrite"} /\ fn' \in Functions \cup {None} /\ i' \in 0..BlockSize
        /\ code' \in Seq(Word) /\ data' \in Seq(Word) /\ new_block' \in {NULL} \cup Nat
    <3>1. CASE gHooker' = "NULL"
      BY <1>1, <3>1 DEF IInv, TypeOK, loop
    <3>2. CASE gHooker' # "NULL"
      <4>1. << >> \in Seq(Word) /\ 0 \in 0..BlockSize
        BY <1>1, EmptySeq
      <4>2. pc' = "rewrite" /\ fn' = f /\ i' = 0 /\ code' = << >> /\ data' = << >> /\ new_block' = NULL
        BY <3>2
      <4>3. QED BY <1>1, <4>1, <4>2
    <3>3. QED BY <3>1, <3>2
  <2>3. QED BY <1>1, <2>1, <2>2 DEF IInv, TypeOK
<1>3. LoopInv'
  BY DEF IInv, LoopInv, CallInv, MayHook
<1>4. CallInv'
  BY DEF CallInv
<1>5. Untouched
  BY DEF IInv, TypeOK, Untouched
<1>6. ASSUME NEW g \in Functions, NEW b \in Nat, orig[g] = b PROVE Trampoline(g, b)'
  BY <1>5, <1>6, TrampolineStays DEF IInv, FunctionsInv
<1>7. \A g \in Functions : (IsOriginal(g)' <=> IsOriginal(g)) /\ (Jumps(g)' <=> Jumps(g))
  BY <1>1, ArchSame, ZenonT(30) DEF IsOriginal, Jumps, LongJump, Pointer, IInv
<1>8. FunctionsInv'
  BY <1>1, <1>6, <1>7 DEF IInv, FunctionsInv
<1>9. QED BY <1>2, <1>3, <1>4, <1>8 DEF IInv

\* What one round of the loop appends.
LEMMA RewriteAppends ==
    ASSUME IInv, RewriteWord
    PROVE  LET w == At(was, fn, i)
           IN  /\ fn \in Functions /\ i \in Nat /\ i < BlockSize /\ w \in Word
               /\ Len(code) = i /\ i' = i + 1
               /\ \E c \in Word, d \in Seq(Word) :
                    /\ code' = Append(code, c) /\ data' = data \o d
                    /\ IF Recognised(w)
                       THEN /\ Len(d) = Size(w)
                            /\ c = W(LoadOp(w), w.rd, BlockSize + 2 + Len(data) - i - Bias, None)
                            /\ Kept(fn, i) => d = Value(fn, i)
                       ELSE c = w /\ d = << >>
<1> DEFINE w == At(was, fn, i)
<1>1. /\ TypeOK /\ FunctionsInv /\ fn \in Functions /\ orig[fn] = NULL /\ i < BlockSize
      /\ Len(code) = i /\ Len(data) <= 2 * i
  BY DEF IInv, LoopInv, RewriteWord, More
<1>2. /\ i \in Nat /\ arch \in Archs /\ code \in Seq(Word) /\ data \in Seq(Word)
      /\ was \in [Addr -> Word] /\ StreamMax \in Nat /\ StreamMax >= 10
      /\ BlockSize \in {3, 4} /\ Width \in {1, 2} /\ Bias \in {0, 2}
  BY <1>1, ArchFacts, LeafHookAssumption DEF TypeOK
<1>3. w \in Word /\ At(mem, fn, i) = w
  BY <1>1, <1>2, AtType, OriginalMemory
<1>4. Size(w) \in {1, 2} /\ LoadOp(w) \in {"ldr", "ldrw"} /\ w.rd \in Nat
  BY <1>2, <1>3, SizeFacts
<1>5. i' = i + 1
  BY DEF RewriteWord
<1>6. \A c : Written(code, <<c>>) = code \o <<c>>
  BY <1>1, <1>2 DEF Written
<1>7. \A c : code \o <<c>> = Append(code, c)
  BY <1>2
<1>8. CASE Recognised(w)
  <2> DEFINE c == W(LoadOp(w), w.rd, BlockSize + 2 + Len(data) - i - Bias, None)
             d == Result(w, i)
  <2>1. InsOffset = BlockSize + 2 + Len(data) - i - Bias /\ InsOffset \in Int
    BY <1>1, <1>2 DEF InsOffset
  <2>2. c \in Word
    <3>1. LoadOp(w) \in Ops
      BY <1>4 DEF Ops
    <3>2. QED BY <1>4, <2>1, <3>1, WordType, Names
  <2>3. d \in Seq(Word) /\ Len(d) = Size(w)
    BY <1>1, <1>2, <1>3, <1>8, ResultType
  <2>4. code' = Append(code, c)
    BY <1>3, <1>6, <1>7, <1>8, <2>1 DEF RewriteWord, LoadOp
  <2>5. data' = data \o d
    <3>1. data' = Written(data, d)
      BY <1>3, <1>8 DEF RewriteWord
    <3>2. Len(data) + Len(d) <= StreamMax
      BY <1>1, <1>2, <1>4, <2>3
    <3> HIDE DEF d
    <3>3. QED BY <1>2, <2>3, <3>1, <3>2 DEF Written
  <2>6. Kept(fn, i) => d = Value(fn, i)
    BY <1>1, <1>2, <1>8, ResultIsValue
  <2>7. QED BY <1>1, <1>2, <1>3, <1>5, <1>8, <2>2, <2>3, <2>4, <2>5, <2>6
<1>9. CASE ~Recognised(w)
  <2>1. code' = Append(code, w) /\ data' = data
    BY <1>3, <1>6, <1>7, <1>9 DEF RewriteWord
  <2>2. data = data \o << >> /\ << >> \in Seq(Word)
    BY <1>2
  <2>3. QED BY <1>1, <1>2, <1>3, <1>5, <1>9, <2>1, <2>2
<1>10. QED BY <1>8, <1>9

LEMMA RewriteWordKeeps ==
    ASSUME IInv, RewriteWord
    PROVE  IInv'
<1> DEFINE w == At(was, fn, i)
<1>1. PICK c \in Word, d \in Seq(Word) :
          /\ code' = Append(code, c) /\ data' = data \o d
          /\ IF Recognised(w)
             THEN /\ Len(d) = Size(w)
                  /\ c = W(LoadOp(w), w.rd, BlockSize + 2 + Len(data) - i - Bias, None)
                  /\ Kept(fn, i) => d = Value(fn, i)
             ELSE c = w /\ d = << >>
  BY RewriteAppends
<1>2. /\ fn \in Functions /\ i \in Nat /\ i < BlockSize /\ w \in Word /\ Len(code) = i /\ i' = i + 1
      /\ code \in Seq(Word) /\ data \in Seq(Word) /\ Len(data) <= 2 * i
      /\ BlockSize \in {3, 4} /\ Size(w) \in {1, 2} /\ pc = "rewrite" /\ orig[fn] = NULL
  <2>1. /\ fn \in Functions /\ i \in Nat /\ i < BlockSize /\ w \in Word /\ Len(code) = i /\ i' = i + 1
    BY RewriteAppends
  <2>2. /\ code \in Seq(Word) /\ data \in Seq(Word) /\ Len(data) <= 2 * i
        /\ pc = "rewrite" /\ orig[fn] = NULL /\ arch \in Archs
    BY DEF IInv, TypeOK, LoopInv, RewriteWord
  <2>3. QED BY <2>1, <2>2, ArchFacts, SizeFacts
<1>3. /\ arch' = arch /\ was' = was /\ mem' = mem /\ orig' = orig /\ fn' = fn /\ pc' = pc
      /\ gHooker' = gHooker /\ rwx_block_used' = rwx_block_used /\ new_block' = new_block /\ fault' = fault
  BY DEF RewriteWord
<1>4. BlockSize' = BlockSize /\ Width' = Width /\ Bias' = Bias /\ Scratch' = Scratch
  BY <1>3, ArchSame
<1>5. /\ code' \in Seq(Word) /\ Len(code') = i + 1 /\ code'[i + 1] = c
      /\ \A k \in 0..(i - 1) : code'[k + 1] = code[k + 1]
  BY <1>1, <1>2, SMTT(30)
<1>6. /\ data' \in Seq(Word) /\ Len(data') = Len(data) + Len(d)
      /\ \A p \in 1..Len(data) : data'[p] = data[p]
      /\ \A p \in 1..Len(d) : data'[Len(data) + p] = d[p]
  BY <1>1, <1>2
<1>7. TypeOK'
  <2>1. i' \in 0..BlockSize'
    BY <1>2, <1>4
  <2>2. QED BY <1>3, <1>5, <1>6, <2>1 DEF IInv, TypeOK
<1>8. ASSUME NEW k \in 0..i, Kept(fn, k)' PROVE Rewritten(k)'
  <2> DEFINE v == At(was, fn, k)
  <2>1. /\ Value(fn, k)' = Value(fn, k) /\ Kept(fn, k) /\ At(was, fn, k)' = v
        /\ Size(v)' = Size(v) /\ (Recognised(v)' <=> Recognised(v))
    BY <1>3, <1>8, ValueSame DEF Kept, At
  <2> HIDE DEF v
  <2>0. k \in Nat /\ (k < i => k \in 0..(i - 1)) /\ (k = i => v = w) /\ Len(data) \in Nat
    BY <1>2 DEF v
  <2>2. CASE k = i /\ Recognised(v)
    <3>1. Len(data) \in Nat /\ Len(data) + Size(v) <= Len(data')
      BY <1>1, <1>2, <1>6, <2>2, <2>0
    <3>2. code'[k + 1] = W(LoadOp(v), v.rd, BlockSize + 2 + Len(data) - k - Bias, None)
      BY <1>1, <1>5, <2>2, <2>0
    <3>3. \A s \in 1..Size(v) : data'[Len(data) + s] = Value(fn, k)[s]
      BY <1>1, <1>6, <2>1, <2>2, <2>0
    <3>4. QED BY <1>3, <1>4, <2>1, <2>2, <3>1, <3>2, <3>3, SMTT(30) DEF Rewritten, v
  <2>3. CASE k = i /\ ~Recognised(v)
    BY <1>1, <1>3, <1>5, <2>1, <2>3, <2>0 DEF Rewritten, v
  <2>4. CASE k < i /\ Recognised(v)
    <3>1. Rewritten(k)
      BY <1>2, <2>1, <2>4, <2>0 DEF IInv, LoopInv
    <3>2. PICK p \in Nat :
              /\ p + Size(v) <= Len(data)
              /\ code[k + 1] = W(LoadOp(v), v.rd, BlockSize + 2 + p - k - Bias, None)
              /\ \A s \in 1..Size(v) : data[p + s] = Value(fn, k)[s]
      BY <2>4, <3>1 DEF Rewritten, v
    <3>3. v \in Word /\ Size(v) \in {1, 2}
      BY <1>2, <2>0, AtType, SizeFacts, SMTT(30) DEF IInv, TypeOK, v
    <3>4. p + Size(v) <= Len(data')
      <4>1. Len(d) \in Nat
        BY <1>1
      <4>2. QED BY <1>6, <2>0, <3>2, <3>3, <4>1, SMTT(30)
    <3>5. code'[k + 1] = code[k + 1]
      BY <1>5, <2>4, <2>0
    <3>6. \A s \in 1..Size(v) : data'[p + s] = Value(fn, k)[s]
      <4>1. \A s \in 1..Size(v) : p + s \in 1..Len(data)
        BY <2>0, <3>2, <3>3, SMTT(30)
      <4>2. QED BY <1>6, <3>2, <4>1
    <3>7. QED BY <1>3, <1>4, <2>1, <2>4, <3>2, <3>4, <3>5, <3>6 DEF Rewritten, v
  <2>5. CASE k < i /\ ~Recognised(v)
    <3>1. Rewritten(k)
      BY <1>2, <2>1, <2>5, <2>0 DEF IInv, LoopInv
    <3>2. code'[k + 1] = v
      BY <1>5, <2>5, <2>0, <3>1 DEF Rewritten, v
    <3>3. QED BY <1>3, <2>1, <2>5, <3>2 DEF Rewritten, v
  <2>6. QED BY <1>2, <2>2, <2>3, <2>4, <2>5
<1>9. LoopInv'
  <2>1. Len(data') <= 2 * (i + 1)
    <3>1. CASE Recognised(w)
      BY <1>1, <1>2, <1>6, <3>1, SMTT(30)
    <3>2. CASE ~Recognised(w)
      <4>1. Len(d) = 0
        BY <1>1, <3>2
      <4>2. QED BY <1>2, <1>6, <4>1
    <3>3. QED BY <3>1, <3>2
  <2>2. QED BY <1>2, <1>3, <1>5, <1>8, <2>1, SMTT(30) DEF LoopInv
<1>10. CallInv'
  BY <1>2, <1>3 DEF CallInv
<1>11. Untouched
  BY <1>3 DEF IInv, TypeOK, Untouched
<1>12. \A g \in Functions, b \in Nat : orig[g] = b => Trampoline(g, b)'
  BY <1>11, TrampolineStays DEF IInv, FunctionsInv
<1>13. \A g \in Functions : (IsOriginal(g)' <=> IsOriginal(g)) /\ (Jumps(g)' <=> Jumps(g))
  BY <1>3, <1>4 DEF IsOriginal, Jumps, LongJump, Pointer
<1>14. FunctionsInv'
  BY <1>3, <1>4, <1>12, <1>13 DEF IInv, FunctionsInv
<1>15. QED BY <1>7, <1>9, <1>10, <1>14 DEF IInv

\* The block of code and data is copied to b.
Block ==
    Written(code, <<W("ldr", Scratch, InsOffset, None), W("br", Scratch, 0, None)>>)
        \o Written(data, Pointer(fn, 4 * BlockSize))

Copied(block, b) ==
    /\ pc = "rewrite" /\ ~More
    /\ block = Block
    /\ b = rwx_block_used /\ b + Len(block) <= RwxSize
    /\ fn' = fn /\ arch' = arch /\ was' = was /\ rwx_block_used' = b + Len(block)
    /\ mem' = Store(mem, Rwx, b, block)

\* What is copied is a trampoline where it lands.
LEMMA BlockIsTrampoline ==
    ASSUME IInv, NEW f, f = fn, NEW block, NEW b \in Nat, Copied(block, b)
    PROVE  block \in Seq(Word) /\ Trampoline(f, b)'
<1>1. /\ fn \in Functions /\ Len(code) = BlockSize /\ Len(data) <= 2 * BlockSize /\ Len(data) \in Nat
      /\ code \in Seq(Word) /\ data \in Seq(Word) /\ i = BlockSize /\ arch \in Archs
      /\ BlockSize \in {3, 4} /\ Width \in {1, 2} /\ Bias \in {0, 2} /\ Scratch \in Nat
      /\ StreamMax \in Nat /\ StreamMax >= 10 /\ RwxSize \in Nat /\ mem \in [Addr -> Word]
      /\ was \in [Addr -> Word]
  <2>1. i \in 0..BlockSize /\ ~(i < BlockSize) /\ arch \in Archs /\ BlockSize \in {3, 4}
    BY ArchFacts DEF IInv, TypeOK, More, Copied
  <2>2. i = BlockSize
    BY <2>1
  <2>3. QED BY <2>1, <2>2, ArchFacts, LeafHookAssumption DEF IInv, LoopInv, TypeOK, Copied
<1> DEFINE ldr == W("ldr", Scratch, BlockSize + 2 + Len(data) - BlockSize - Bias, None)
           br == W("br", Scratch, 0, None)
           ptr == Pointer(fn, 4 * BlockSize)
<1>2. InsOffset = BlockSize + 2 + Len(data) - BlockSize - Bias /\ InsOffset \in Int
  BY <1>1 DEF InsOffset
<1>3. ldr \in Word /\ br \in Word /\ ptr \in Seq(Word) /\ Len(ptr) = Width
  <2>1. ldr \in Word /\ br \in Word
    BY <1>1, <1>2, JumpWords
  <2>2. ptr \in Seq(Word) /\ Len(ptr) = Width
    BY <1>1, Names, PointerType
  <2>3. QED BY <2>1, <2>2
<1> HIDE DEF ldr, br, ptr
<1>4. Written(code, <<ldr, br>>) = code \o <<ldr, br>> /\ Written(data, ptr) = data \o ptr
  BY <1>1, <1>3, SMTT(30) DEF Written
<1>5. block = (code \o <<ldr, br>>) \o (data \o ptr)
  BY <1>2, <1>4 DEF ldr, br, ptr, Copied, Block
<1>6. /\ block \in Seq(Word) /\ Len(block) = BlockSize + 2 + Len(data) + Width
      /\ \A k \in 0..(BlockSize - 1) : block[k + 1] = code[k + 1]
      /\ block[BlockSize + 1] = ldr /\ block[BlockSize + 2] = br
      /\ \A p \in 1..Len(data) : block[BlockSize + 2 + p] = data[p]
      /\ \A p \in 1..Width : block[BlockSize + 2 + Len(data) + p] = ptr[p]
  <2> DEFINE front == code \o <<ldr, br>>
             back == data \o ptr
  <2>1. /\ front \in Seq(Word) /\ Len(front) = BlockSize + 2
        /\ \A k \in 0..(BlockSize - 1) : front[k + 1] = code[k + 1]
        /\ front[BlockSize + 1] = ldr /\ front[BlockSize + 2] = br
    <3> DEFINE jump == <<ldr, br>>
    <3>1. code \in Seq(Word) /\ Len(code) = BlockSize /\ BlockSize \in {3, 4}
      BY <1>1
    <3>2. jump \in Seq(Word) /\ Len(jump) = 2 /\ jump[1] = ldr /\ jump[2] = br
      BY <1>3
    <3> HIDE DEF jump
    <3>3. /\ front \in Seq(Word) /\ Len(front) = Len(code) + Len(jump)
          /\ \A n \in 1..(Len(code) + Len(jump)) :
                 front[n] = IF n <= Len(code) THEN code[n] ELSE jump[n - Len(code)]
      BY <3>1, <3>2, ConcatProperties, SMTT(30) DEF jump
    <3> HIDE DEF front
    <3>4. QED BY ONLY <3>1, <3>2, <3>3, SMTT(30)
  <2>2. /\ back \in Seq(Word) /\ Len(back) = Len(data) + Width
        /\ \A p \in 1..Len(data) : back[p] = data[p]
        /\ \A p \in 1..Width : back[Len(data) + p] = ptr[p]
    BY <1>1, <1>3, SMTT(30)
  <2>3. block = front \o back
    BY <1>5
  <2> HIDE DEF front, back
  <2>4. /\ block \in Seq(Word) /\ Len(block) = Len(front) + Len(back)
        /\ \A n \in 1..(Len(front) + Len(back)) :
               block[n] = IF n <= Len(front) THEN front[n] ELSE back[n - Len(front)]
    BY <2>1, <2>2, <2>3, ConcatProperties, ZenonT(30)
  <2>5. /\ \A n \in 1..(BlockSize + 2) : block[n] = front[n]
        /\ \A n \in 1..(Len(data) + Width) : block[BlockSize + 2 + n] = back[n]
    <3>1. \A n \in 1..(BlockSize + 2) : n \in 1..(Len(front) + Len(back)) /\ n <= Len(front)
      BY <1>1, <2>1, <2>2
    <3>2. \A n \in 1..(Len(data) + Width) :
              /\ BlockSize + 2 + n \in 1..(Len(front) + Len(back)) /\ ~(BlockSize + 2 + n <= Len(front))
              /\ BlockSize + 2 + n - Len(front) = n
      BY <1>1, <2>1, <2>2
    <3>3. \A n \in 1..(BlockSize + 2) : block[n] = front[n]
      BY <2>4, <3>1
    <3>4. ASSUME NEW n \in 1..(Len(data) + Width) PROVE block[BlockSize + 2 + n] = back[n]
      <4> DEFINE m == BlockSize + 2 + n
      <4>1. m \in 1..(Len(front) + Len(back)) /\ ~(m <= Len(front)) /\ m - Len(front) = n
        BY <1>1, <2>1, <2>2
      <4> HIDE DEF m
      <4>2. block[m] = back[m - Len(front)]
        BY <2>4, <4>1
      <4>3. QED BY <4>1, <4>2 DEF m
    <3>5. QED BY <3>3, <3>4
  <2>6. \A k \in 0..(BlockSize - 1) : k + 1 \in 1..(BlockSize + 2)
    BY <1>1
  <2>7. \A p \in 1..Width : Len(data) + p \in 1..(Len(data) + Width)
                            /\ BlockSize + 2 + (Len(data) + p) = BlockSize + 2 + Len(data) + p
    BY <1>1
  <2>8. \A p \in 1..Len(data) : p \in 1..(Len(data) + Width)
    BY <1>1
  <2>9. BlockSize + 1 \in 1..(BlockSize + 2) /\ BlockSize + 2 \in 1..(BlockSize + 2)
    BY <1>1
  <2>10. Len(block) = BlockSize + 2 + Len(data) + Width
    BY <1>1, <2>1, <2>2, <2>4
  <2>11. QED BY <2>1, <2>2, <2>4, <2>5, <2>6, <2>7, <2>8, <2>9, <2>10, SMTT(30)
<1>7. \A n \in 1..Len(block) : b + n - 1 \in 0..(RwxSize - 1) /\ mem'[<<Rwx, b + n - 1>>] = block[n]
  <2>1. \A n \in 1..Len(block) : b + n - 1 \in 0..(RwxSize - 1)
    BY <1>1, <1>6 DEF Copied
  <2>2. \A n \in 1..Len(block) : <<Rwx, b + n - 1>> \in Addr
    BY <2>1, AddrFacts
  <2>3. mem' = Store(mem, Rwx, b, block)
    BY DEF Copied
  <2>4. \A n \in 1..Len(block) : <<Rwx, b + n - 1>> \in Addr =>
            Store(mem, Rwx, b, block)[<<Rwx, b + n - 1>>] = block[n]
    <3>1. mem \in [Addr -> Word] /\ block \in Seq(Word)
      BY <1>1, <1>6
    <3>2. ASSUME NEW n \in 1..Len(block), <<Rwx, b + n - 1>> \in Addr
          PROVE  Store(mem, Rwx, b, block)[<<Rwx, b + n - 1>>] = block[n]
      <4>1. b + n - 1 \in b..(b + Len(block) - 1) /\ b + n - 1 - b + 1 = n
        BY <3>1
      <4>2. QED BY <3>2, <4>1 DEF Store
    <3>3. QED BY <3>2
  <2>5. QED BY <2>1, <2>2, <2>3, <2>4
<1>8. BlockSize' = BlockSize /\ Width' = Width /\ Scratch' = Scratch /\ Bias' = Bias
  BY ArchSame DEF Copied
<1>9. ASSUME NEW k \in 0..(BlockSize - 1), Kept(f, k)
      PROVE  LET w == At(was, f, k)
             IN  IF Recognised(w) THEN Holds(b, k, LoadOp(w), w.rd, Size(w), Value(f, k))'
                 ELSE mem'[<<Rwx, b + k>>] = w
  <2> DEFINE w == At(was, f, k)
  <2>1. k \in Nat /\ k \in 0..(i - 1) /\ Rewritten(k)
    BY <1>1, <1>9 DEF IInv, LoopInv, Copied
  <2>2. w \in Word /\ Size(w) \in {1, 2}
    BY <1>1, <2>1, SizeFacts, AtType
  <2>3. mem'[<<Rwx, b + k>>] = code[k + 1]
    <3>1. k + 1 \in 1..Len(block) /\ b + (k + 1) - 1 = b + k
      BY <1>1, <1>6
    <3>2. QED BY <1>6, <1>7, <3>1
  <2>4. CASE Recognised(w)
    <3>1. PICK p \in Nat :
              /\ p + Size(w) <= Len(data)
              /\ code[k + 1] = W(LoadOp(w), w.rd, BlockSize + 2 + p - k - Bias, None)
              /\ \A s \in 1..Size(w) : data[p + s] = Value(f, k)[s]
      BY <2>1, <2>4 DEF Rewritten
    <3> DEFINE t == BlockSize + 2 + p
    <3>2. t \in Nat /\ b + t + Size(w) <= b + Len(block)
      BY <1>1, <1>6, <2>2, <3>1, SMTT(30)
    <3>3. \A s \in 1..Size(w) : mem'[<<Rwx, b + t + s - 1>>] = Value(f, k)[s]
      <4>1. ASSUME NEW s \in 1..Size(w) PROVE mem'[<<Rwx, b + t + s - 1>>] = data[p + s]
        <5>1. /\ p + s \in 1..Len(data) /\ BlockSize + 2 + (p + s) \in 1..Len(block)
              /\ b + (BlockSize + 2 + (p + s)) - 1 = b + t + s - 1
          BY <1>1, <1>6, <2>2, <3>1, SMTT(30)
        <5>2. QED BY <1>6, <1>7, <5>1, ZenonT(30)
      <4>2. QED BY <3>1, <4>1
    <3>4. mem'[<<Rwx, b + k>>] = W(LoadOp(w), w.rd, t - k - Bias, None)
      <4>1. BlockSize + 2 + p - k - Bias = t - k - Bias
        BY <1>1, <2>1
      <4>2. code[k + 1] = W(LoadOp(w), w.rd, BlockSize + 2 + p - k - Bias, None)
        BY <3>1
      <4>3. QED BY <2>3, <4>1, <4>2
    <3>5. Size(w)' = Size(w) /\ Value(f, k)' = Value(f, k) /\ At(was, f, k)' = At(was, f, k)
      BY ValueSame DEF Copied
    <3>6. b + t + Size(w) <= rwx_block_used' /\ b + t + Size(w) <= RwxSize
      <4>1. rwx_block_used' = b + Len(block) /\ b + Len(block) <= RwxSize
        BY DEF Copied
      <4>2. Len(block) \in Nat /\ RwxSize \in Nat /\ Size(w) \in Nat /\ t \in Nat
        BY <1>1, <1>6, <2>2, <3>2, SMTT(30)
      <4>3. b + t + Size(w) <= b + Len(block)
        BY <3>2
      <4> HIDE DEF w, t
      <4>4. QED BY <4>1, <4>2, <4>3
    <3>7. QED BY <1>8, <3>6, <2>4, <3>2, <3>3, <3>4, <3>5, ZenonT(30) DEF Holds
  <2>5. CASE ~Recognised(w)
    BY <2>1, <2>3, <2>5 DEF Rewritten
  <2>6. QED BY <2>4, <2>5
<1>10. Holds(b, BlockSize, "ldr", Scratch, Width, Pointer(fn, 4 * BlockSize))'
  <2> DEFINE t == BlockSize + 2 + Len(data)
  <2>1. t \in Nat /\ b + t + Width = b + Len(block) /\ t - BlockSize - Bias = BlockSize + 2 + Len(data) - BlockSize - Bias
    BY <1>1, <1>6
  <2>2. rwx_block_used' = b + Len(block) /\ b + Len(block) <= RwxSize /\ fn' = fn
    BY DEF Copied
  <2>3. mem'[<<Rwx, b + BlockSize>>] = W("ldr", Scratch, t - BlockSize - Bias, None)
    <3>1. BlockSize + 1 \in 1..Len(block) /\ b + (BlockSize + 1) - 1 = b + BlockSize
      BY <1>1, <1>6
    <3>2. mem'[<<Rwx, b + BlockSize>>] = ldr
      BY <1>6, <1>7, <3>1
    <3>3. QED BY <2>1, <3>2 DEF ldr
  <2>4. ASSUME NEW s \in 1..Width PROVE mem'[<<Rwx, b + t + s - 1>>] = ptr[s]
    <3>1. t + s \in 1..Len(block) /\ b + (t + s) - 1 = b + t + s - 1
      BY <1>1, <1>6
    <3>2. QED BY <1>6, <1>7, <3>1
  <2>5. Pointer(fn, 4 * BlockSize)' = ptr
    BY <1>8, <2>2 DEF Pointer, ptr
  <2>6. b + t + Width <= rwx_block_used' /\ b + t + Width <= RwxSize
    <3>1. Len(block) \in Nat
      BY <1>6
    <3>2. QED BY <2>1, <2>2, <3>1
  <2> HIDE DEF t
  <2>7. QED BY <1>8, <2>1, <2>3, <2>4, <2>5, <2>6 DEF Holds
<1>11. (mem[<<Rwx, b + BlockSize + 1>>] = W("br", Scratch, 0, None))'
  <2>1. BlockSize + 2 \in 1..Len(block) /\ b + (BlockSize + 2) - 1 = b + BlockSize + 1
    BY <1>1, <1>6
  <2>2. mem'[<<Rwx, b + BlockSize + 1>>] = br
    BY <1>6, <1>7, <2>1
  <2>3. QED BY <1>8, <2>2 DEF br
<1>12. (b + BlockSize + 2 <= rwx_block_used /\ b + BlockSize + 2 <= RwxSize)'
  <2>1. rwx_block_used' = b + Len(block) /\ b + Len(block) <= RwxSize
    BY DEF Copied
  <2>2. Len(block) \in Nat /\ BlockSize + 2 <= Len(block) /\ BlockSize \in Nat
    BY <1>1, <1>6
  <2>3. QED BY <1>1, <1>8, <2>1, <2>2
<1>13. \A k \in 0..(BlockSize - 1) :
          /\ Kept(f, k)' = Kept(f, k) /\ At(was, f, k)' = At(was, f, k)
          /\ Recognised(At(was, f, k))' <=> Recognised(At(was, f, k))
  BY ValueSame DEF Copied
<1>14. (\A k \in 0..(BlockSize - 1) :
           LET w == At(was, f, k)
           IN  Kept(f, k) => IF Recognised(w) THEN Holds(b, k, LoadOp(w), w.rd, Size(w), Value(f, k))
                             ELSE mem[<<Rwx, b + k>>] = w)'
  BY <1>8, <1>9, <1>13
<1>15. Holds(b, BlockSize, "ldr", Scratch, Width, Pointer(f, 4 * BlockSize))'
  <2>1. fn' = f
    BY DEF Copied
  <2>2. QED BY <1>10, <2>1
<1>16. QED BY <1>6, <1>11, <1>12, <1>14, <1>15 DEF Trampoline

LEMMA CopyToNewBlockKeeps ==
    ASSUME IInv, CopyToNewBlock
    PROVE  IInv'
<1>1. /\ pc = "rewrite" /\ ~More /\ new_block' = rwx_block_used
      /\ rwx_block_used' = rwx_block_used + Len(Block)
      /\ fault' = IF gHooker = "MAP_FAILED" THEN "MAP_FAILED"
                  ELSE IF rwx_block_used + Len(Block) > RwxSize THEN "overrun" ELSE "none"
      /\ pc' = IF fault' = "none" THEN "orig" ELSE "dead"
      /\ mem' = IF fault' = "none" THEN Store(mem, Rwx, rwx_block_used, Block) ELSE mem
      /\ arch' = arch /\ was' = was /\ gHooker' = gHooker /\ orig' = orig
      /\ fn' = fn /\ i' = i /\ code' = code /\ data' = data
  BY DEF CopyToNewBlock, Block, AllocRwx
<1>2. TypeOK /\ LoopInv /\ CallInv /\ FunctionsInv /\ fn \in Functions /\ orig[fn] = NULL
  BY <1>1 DEF IInv, LoopInv
<1>3. /\ rwx_block_used \in Nat /\ RwxSize \in Nat /\ arch \in Archs /\ mem \in [Addr -> Word]
      /\ BlockSize \in {3, 4} /\ code \in Seq(Word) /\ data \in Seq(Word)
  BY <1>2, ArchFacts, LeafHookAssumption DEF TypeOK
<1>4. Block \in Seq(Word) /\ Len(Block) \in Nat
  <2>1. W("ldr", Scratch, InsOffset, None) \in Word /\ W("br", Scratch, 0, None) \in Word
    <3>1. InsOffset \in Int
      BY <1>3, ArchFacts DEF InsOffset
    <3>2. QED BY <1>3, <3>1, JumpWords
  <2>2. Pointer(fn, 4 * BlockSize) \in Seq(Word)
    BY <1>2, <1>3, PointerType, Names
  <2>3. \A s, x \in Seq(Word) : Written(s, x) \in Seq(Word)
    BY ConcatProperties DEF Written
  <2>4. <<W("ldr", Scratch, InsOffset, None), W("br", Scratch, 0, None)>> \in Seq(Word)
    BY <2>1
  <2>5. /\ Written(code, <<W("ldr", Scratch, InsOffset, None), W("br", Scratch, 0, None)>>) \in Seq(Word)
        /\ Written(data, Pointer(fn, 4 * BlockSize)) \in Seq(Word)
    BY <1>3, <2>2, <2>3, <2>4
  <2>6. Block \in Seq(Word)
    BY <2>5, ConcatProperties DEF Block
  <2>7. QED BY <2>6, LenProperties
<1>5. BlockSize' = BlockSize /\ Width' = Width /\ Scratch' = Scratch /\ Bias' = Bias
  BY <1>1, ArchSame
<1>6. /\ mem' \in [Addr -> Word]
      /\ \A a \in Addr : a[1] # Rwx \/ a[2] < rwx_block_used => mem'[a] = mem[a]
  BY <1>1, <1>3, <1>4, StoreType
<1>7. TypeOK'
  <2>1. rwx_block_used' \in Nat /\ new_block' \in {NULL} \cup Nat
    BY <1>1, <1>3, <1>4
  <2>2. fault' \in {"none", "MAP_FAILED", "overrun"} /\ pc' \in {"orig", "dead"}
    BY <1>1
  <2>3. QED BY <1>1, <1>2, <1>5, <1>6, <2>1, <2>2 DEF TypeOK
<1>8. Untouched
  <2>1. \A n \in 0..(RwxSize - 1) : n < rwx_block_used => mem'[<<Rwx, n>>] = mem[<<Rwx, n>>]
    BY <1>6, AddrFacts
  <2>2. rwx_block_used' \in Nat /\ rwx_block_used' >= rwx_block_used
    BY <1>1, <1>3, <1>4
  <2>3. QED BY <1>1, <2>1, <2>2 DEF Untouched
<1>9. \A g \in Functions, n \in 0..(FnSize - 1) : mem'[<<g, n>>] = mem[<<g, n>>]
  <2>1. \A g \in Functions, n \in 0..(FnSize - 1) : <<g, n>> \in Addr /\ <<g, n>>[1] # Rwx
    BY AddrFacts, Names
  <2>2. QED BY <1>6, <2>1
<1>10. \A g \in Functions : (IsOriginal(g)' <=> IsOriginal(g)) /\ (Jumps(g)' <=> Jumps(g))
  <2>1. /\ \A n \in 0..(BlockSize - 1) : n \in 0..(FnSize - 1)
        /\ \A n \in 0..(1 + Width) : n \in 0..(FnSize - 1)
    BY <1>3, ArchFacts, LeafHookAssumption
  <2>2. \A g \in Functions : LongJump(Hook[g])' = LongJump(Hook[g])
    BY <1>5 DEF LongJump, Pointer
  <2>3. \A g \in Functions : IsOriginal(g)' <=> IsOriginal(g)
    BY <1>1, <1>5, <1>9, <2>1 DEF IsOriginal
  <2>4. \A g \in Functions : Jumps(g)' <=> Jumps(g)
    BY <1>5, <1>9, <2>1, <2>2 DEF Jumps
  <2>5. QED BY <2>3, <2>4
<1>11. FunctionsInv'
  <2>1. \A g \in Functions, b \in Nat : orig[g] = b => Trampoline(g, b)'
    BY <1>2, <1>8, TrampolineStays DEF FunctionsInv
  <2>2. \A g \in Functions : \A n \in BlockSize..(FnSize - 1) : mem'[<<g, n>>] = was[<<g, n>>]
    <3>1. \A n \in BlockSize..(FnSize - 1) : n \in 0..(FnSize - 1)
      BY <1>3, LeafHookAssumption
    <3>2. QED BY <1>2, <1>9, <3>1 DEF FunctionsInv
  <2>3. QED BY <1>1, <1>2, <1>5, <1>10, <2>1, <2>2 DEF FunctionsInv
<1>12. CallInv'
  <2>1. ASSUME pc' = "orig", NEW b \in Nat, b = rwx_block_used, NEW f, f = fn, NEW block, block = Block
        PROVE  Trampoline(f, b)'
    <3>1. fault' = "none"
      BY <1>1, <2>1
    <3>2. ~(rwx_block_used + Len(Block) > RwxSize)
      BY <1>1, <3>1
    <3>3. Copied(block, b)
      BY <1>1, <1>3, <1>4, <2>1, <3>1, <3>2 DEF Copied
    <3>4. QED BY <2>1, <3>3, BlockIsTrampoline
  <2>2. pc' = "orig" => \A b \in Nat : b = new_block' => Trampoline(fn, b)'
    BY <1>1, <2>1
  <2>3. pc' \in {"orig", "dead"} /\ new_block' \in Nat
    BY <1>1, <1>3
  <2>4. QED BY <1>1, <1>2, <2>2, <2>3 DEF CallInv
<1>13. LoopInv'
  BY <1>1 DEF LoopInv
<1>14. QED BY <1>7, <1>11, <1>12, <1>13 DEF IInv

LEMMA SetOrigKeeps ==
    ASSUME IInv, SetOrig
    PROVE  IInv'
<1>1. /\ pc = "orig" /\ pc' = "jump" /\ orig' = [orig EXCEPT ![fn] = new_block]
      /\ arch' = arch /\ mem' = mem /\ was' = was /\ gHooker' = gHooker
      /\ rwx_block_used' = rwx_block_used /\ fault' = fault
      /\ fn' = fn /\ i' = i /\ code' = code /\ data' = data /\ new_block' = new_block
  BY DEF SetOrig, loop
<1>2. TypeOK /\ CallInv /\ FunctionsInv /\ fn \in Functions /\ new_block \in Nat /\ orig[fn] = NULL
  BY <1>1 DEF IInv, CallInv
<1>3. BlockSize' = BlockSize /\ Width' = Width /\ Scratch' = Scratch /\ Bias' = Bias
  BY <1>1, ArchSame
<1>4. orig' \in [Functions -> {NULL} \cup Nat] /\ orig'[fn] = new_block
      /\ \A g \in Functions : g # fn => orig'[g] = orig[g]
  BY <1>1, <1>2 DEF TypeOK
<1>5. TypeOK'
  BY <1>1, <1>2, <1>3, <1>4 DEF TypeOK
<1>6. Untouched
  BY <1>1, <1>2 DEF TypeOK, Untouched
<1>7. \A b \in Nat : b = new_block => Trampoline(fn, b)
  BY <1>1, <1>2 DEF CallInv
<1>8. ASSUME NEW g \in Functions, NEW b \in Nat, orig'[g] = b PROVE Trampoline(g, b)'
  <2>1. Trampoline(g, b)
    <3>1. CASE g = fn
      BY <1>4, <1>7, <1>8, <3>1
    <3>2. CASE g # fn
      BY <1>2, <1>4, <1>8, <3>2 DEF FunctionsInv
    <3>3. QED BY <3>1, <3>2
  <2>2. QED BY <1>2, <1>6, <2>1, TrampolineStays
<1>9. \A g \in Functions : (IsOriginal(g)' <=> IsOriginal(g)) /\ (Jumps(g)' <=> Jumps(g))
  BY <1>1, <1>3 DEF IsOriginal, Jumps, LongJump, Pointer
<1>10. FunctionsInv'
  <2>1. \A g \in Functions : orig'[g] = NULL => orig[g] = NULL
    BY <1>2, <1>4 DEF NULL
  <2>2. QED BY <1>1, <1>2, <1>3, <1>8, <1>9, <2>1 DEF FunctionsInv
<1>11. CallInv'
  <2>1. IsOriginal(fn)
    BY <1>2 DEF FunctionsInv
  <2>2. \A f \in Functions : IsOriginal(f)' <=> IsOriginal(f)
    BY <1>9
  <2>3. IsOriginal(fn)'
    BY <1>1, <1>3, <2>1 DEF IsOriginal
  <2>4. \A b \in Nat : b = new_block' => Trampoline(fn, b)'
    <3>1. ASSUME NEW f \in Functions, f = fn, NEW b \in Nat, b = new_block PROVE Trampoline(f, b)'
      BY <1>4, <1>8, <3>1
    <3>2. \A f \in Functions, b \in Nat : f = fn' /\ b = new_block' => Trampoline(f, b)'
      BY <1>1, <3>1
    <3>3. fn' \in Functions
      BY <1>1, <1>2
    <3>4. QED BY <1>1, <1>2, <3>2, <3>3
  <2>5. QED BY <1>1, <1>2, <1>4, <2>3, <2>4 DEF CallInv
<1>12. LoopInv'
  BY <1>1 DEF LoopInv
<1>13. QED BY <1>5, <1>10, <1>11, <1>12 DEF IInv

LEMMA WriteLongJumpKeeps ==
    ASSUME IInv, WriteLongJump
    PROVE  IInv'
<1> DEFINE words == LongJump(Hook[fn])
<1>1. /\ pc = "jump" /\ pc' = "idle" /\ mem' = Store(mem, fn, 0, words)
      /\ arch' = arch /\ was' = was /\ gHooker' = gHooker /\ orig' = orig
      /\ rwx_block_used' = rwx_block_used /\ fault' = fault
      /\ fn' = fn /\ i' = i /\ code' = code /\ data' = data /\ new_block' = new_block
  BY DEF WriteLongJump, loop
<1>2. /\ TypeOK /\ CallInv /\ FunctionsInv /\ fn \in Functions /\ new_block \in Nat
      /\ orig[fn] = new_block
  BY <1>1 DEF IInv, CallInv
<1>3. /\ mem \in [Addr -> Word] /\ BlockSize \in {3, 4} /\ Width \in {1, 2} /\ Bias \in {0, 2}
      /\ Scratch \in Nat /\ 2 + Width = BlockSize /\ FnSize \in Nat /\ FnSize >= 4
  BY <1>2, ArchFacts, LeafHookAssumption DEF TypeOK
<1>4. BlockSize' = BlockSize /\ Width' = Width /\ Scratch' = Scratch /\ Bias' = Bias
  BY <1>1, ArchSame
<1>5. words \in Seq(Word) /\ Len(words) = BlockSize
  <2>1. Pointer(Hook[fn], 0) \in Seq(Word) /\ Len(Pointer(Hook[fn], 0)) = Width
    BY <1>2, PointerType, Names DEF TypeOK
  <2>2. W("ldr", Scratch, 2 - Bias, None) \in Word /\ W("br", Scratch, 0, None) \in Word
    <3>1. 2 - Bias \in Int /\ arch \in Archs
      BY <1>2, <1>3 DEF TypeOK
    <3>2. QED BY <3>1, JumpWords
  <2>3. QED BY <1>3, <2>1, <2>2 DEF LongJump
<1> HIDE DEF words
<1>6. /\ mem' \in [Addr -> Word]
      /\ \A a \in Addr : a[1] # fn \/ a[2] >= BlockSize => mem'[a] = mem[a]
  <2>1. 0 + Len(words) = BlockSize
    BY <1>3, <1>5
  <2>2. /\ Store(mem, fn, 0, words) \in [Addr -> Word]
        /\ \A a \in Addr : a[1] # fn => Store(mem, fn, 0, words)[a] = mem[a]
        /\ \A a \in Addr : a[2] >= 0 + Len(words) => Store(mem, fn, 0, words)[a] = mem[a]
    <3>1. mem \in [Addr -> Word] /\ words \in Seq(Word) /\ 0 \in Nat
      BY <1>3, <1>5
    <3>2. \A n \in Nat :
              /\ Store(mem, fn, n, words) \in [Addr -> Word]
              /\ \A a \in Addr : a[1] # fn => Store(mem, fn, n, words)[a] = mem[a]
              /\ \A a \in Addr : a[2] < n \/ a[2] >= n + Len(words) => Store(mem, fn, n, words)[a] = mem[a]
      BY <3>1, StoreType
    <3>3. QED BY <3>1, <3>2
  <2>3. mem' = Store(mem, fn, 0, words)
    BY <1>1
  <2>4. \A a \in Addr : a[2] >= BlockSize => Store(mem, fn, 0, words)[a] = mem[a]
    BY <2>1, <2>2
  <2>5. QED BY <2>2, <2>3, <2>4
<1>7. \A n \in 0..(1 + Width) : mem'[<<fn, n>>] = words[n + 1]
  <2>1. ASSUME NEW n \in 0..(1 + Width) PROVE mem'[<<fn, n>>] = words[n + 1]
    <3>1. <<fn, n>> \in Addr
      BY <1>2, <1>3, AddrFacts
    <3>2. n \in 0..(0 + Len(words) - 1) /\ n - 0 + 1 = n + 1
      BY <1>3, <1>5
    <3>3. QED BY <1>1, <3>1, <3>2 DEF Store
  <2>2. QED BY <2>1
<1>8. TypeOK'
  BY <1>1, <1>2, <1>4, <1>6 DEF TypeOK
<1>9. Untouched
  <2>1. \A n \in 0..(RwxSize - 1) : <<Rwx, n>> \in Addr /\ <<Rwx, n>>[1] # fn
    BY <1>2, AddrFacts, Names
  <2>2. QED BY <1>1, <1>2, <1>6, <2>1 DEF TypeOK, Untouched
<1>10. \A g \in Functions, n \in 0..(FnSize - 1) : g # fn \/ n >= BlockSize => mem'[<<g, n>>] = mem[<<g, n>>]
  <2>1. \A g \in Functions, n \in 0..(FnSize - 1) :
            <<g, n>> \in Addr /\ <<g, n>>[1] = g /\ <<g, n>>[2] = n
    BY AddrFacts
  <2>2. QED BY <1>6, <2>1
<1>11. \A g \in Functions : g # fn => (IsOriginal(g)' <=> IsOriginal(g)) /\ (Jumps(g)' <=> Jumps(g))
  <2>1. /\ \A n \in 0..(BlockSize - 1) : n \in 0..(FnSize - 1)
        /\ \A n \in 0..(1 + Width) : n \in 0..(FnSize - 1)
    BY <1>3
  <2>2. \A g \in Functions : LongJump(Hook[g])' = LongJump(Hook[g])
    BY <1>4 DEF LongJump, Pointer
  <2>3. QED BY <1>1, <1>4, <1>10, <2>1, <2>2 DEF IsOriginal, Jumps
<1>12. ASSUME NEW g \in Functions, g = fn PROVE Jumps(g)'
  <2>1. LongJump(Hook[g])' = words
    BY <1>4, <1>12 DEF LongJump, Pointer, words
  <2>2. QED BY <1>4, <1>7, <1>12, <2>1 DEF Jumps
<1>13. FunctionsInv'
  <2>1. \A g \in Functions, b \in Nat : orig[g] = b => Trampoline(g, b)'
    BY <1>2, <1>9, TrampolineStays DEF FunctionsInv
  <2>2. \A g \in Functions : \A n \in BlockSize..(FnSize - 1) : mem'[<<g, n>>] = was[<<g, n>>]
    <3>1. \A n \in BlockSize..(FnSize - 1) : n \in 0..(FnSize - 1) /\ n >= BlockSize
      BY <1>3
    <3>2. QED BY <1>2, <1>10, <3>1 DEF FunctionsInv
  <2>3. \A g \in Functions : orig[g] = NULL => g # fn
    BY <1>2 DEF NULL
  <2>4. \A g \in Functions : orig[g] = NULL => IsOriginal(g)'
    BY <1>2, <1>11, <2>3 DEF FunctionsInv
  <2>5. \A g \in Functions : IsOriginal(g)' \/ Jumps(g)'
    BY <1>2, <1>11, <1>12 DEF FunctionsInv
  <2>6. QED BY <1>1, <1>4, <2>1, <2>2, <2>4, <2>5 DEF FunctionsInv
<1>14. LoopInv' /\ CallInv'
  BY <1>1 DEF LoopInv, CallInv
<1>15. QED BY <1>8, <1>13, <1>14 DEF IInv

LEMMA Stutters ==
    ASSUME IInv, UNCHANGED vars
    PROVE  IInv'
<1>1. /\ arch' = arch /\ mem' = mem /\ was' = was /\ gHooker' = gHooker /\ orig' = orig /\ pc' = pc
      /\ rwx_block_used' = rwx_block_used /\ fault' = fault
      /\ fn' = fn /\ i' = i /\ code' = code /\ data' = data /\ new_block' = new_block
  BY DEF vars, loop
<1>2. BlockSize' = BlockSize /\ Width' = Width /\ Scratch' = Scratch /\ Bias' = Bias
  BY <1>1, ArchSame
<1>3. TypeOK'
  BY <1>1, <1>2 DEF IInv, TypeOK
<1>4. Untouched
  BY <1>1 DEF IInv, TypeOK, Untouched
<1>5. \A g \in Functions, b \in Nat : Trampoline(g, b) => Trampoline(g, b)'
  BY <1>4, TrampolineStays DEF IInv
<1>6. \A g \in Functions : (IsOriginal(g)' <=> IsOriginal(g)) /\ (Jumps(g)' <=> Jumps(g))
  BY <1>1, <1>2 DEF IsOriginal, Jumps, LongJump, Pointer
<1>7. FunctionsInv'
  BY <1>1, <1>2, <1>5, <1>6 DEF IInv, FunctionsInv
<1>8. CallInv'
  <2>1. IsOriginal(fn)' <=> IsOriginal(fn)
    BY <1>1, <1>2 DEF IsOriginal
  <2>2. ASSUME NEW f \in Functions, f = fn, NEW b \in Nat, b = new_block, pc \in {"orig", "jump"}
        PROVE  Trampoline(f, b)'
    BY <1>5, <2>2 DEF IInv, CallInv
  <2>3. \A f \in Functions, b \in Nat : f = fn' /\ b = new_block' /\ pc' \in {"orig", "jump"} => Trampoline(f, b)'
    BY <1>1, <2>2
  <2>4. QED BY <1>1, <2>1, <2>3 DEF IInv, CallInv
<1>9. LoopInv'
  <2>1. \A k \in Nat : Kept(fn, k)' = Kept(fn, k) /\ Rewritten(k)' = Rewritten(k)
    BY <1>1, <1>2 DEF Kept, Rewritten, Value, At, Load, Pointer, Page, Size, Distance, Recognised, IsAdr, IsAdrSub
  <2>2. i \in Nat
    BY DEF IInv, TypeOK
  <2>3. QED BY <1>1, <2>1, <2>2 DEF IInv, LoopInv
<1>10. QED BY <1>3, <1>7, <1>8, <1>9 DEF IInv

LEMMA NextKeeps == IInv /\ [Next]_vars => IInv'
<1> SUFFICES ASSUME IInv, [Next]_vars PROVE IInv'
  OBVIOUS
<1>1. CASE \E f \in Functions : KNHookFunction(f)
  BY <1>1, KNHookFunctionKeeps
<1>2. CASE RewriteWord
  BY <1>2, RewriteWordKeeps
<1>3. CASE CopyToNewBlock
  BY <1>3, CopyToNewBlockKeeps
<1>4. CASE SetOrig
  BY <1>4, SetOrigKeeps
<1>5. CASE WriteLongJump
  BY <1>5, WriteLongJumpKeeps
<1>6. CASE UNCHANGED vars
  BY <1>6, Stutters
<1>7. QED BY <1>1, <1>2, <1>3, <1>4, <1>5, <1>6 DEF Next

\* The variables keep their types, and the loop never leaves its block.
THEOREM TypeCorrect == Spec => []TypeOK
<1>1. IInv => TypeOK
  BY DEF IInv
<1>2. QED BY <1>1, InitIInv, NextKeeps, PTL DEF Spec

\* Whatever the functions of the game contain and however many are hooked, calling the
\* original does what its first words did, where the rewriting keeps them, and goes on
\* behind the jump.
THEOREM OrigMeansOriginal == Spec => []OrigKeepsMeaning
<1>1. IInv => OrigKeepsMeaning
  <2> SUFFICES ASSUME IInv, NEW f \in Functions, orig[f] # NULL
               PROVE  /\ \A n \in 0..(BlockSize - 1) : Kept(f, n) => Effect(mem, Rwx, orig[f] + n) = Meant(f, n)
                      /\ Effect(mem, Rwx, orig[f] + BlockSize)
                             = [kind |-> "set", rd |-> Scratch, value |-> Pointer(f, 4 * BlockSize)]
                      /\ Effect(mem, Rwx, orig[f] + BlockSize + 1).kind = "br"
    BY DEF OrigKeepsMeaning
  <2>1. orig[f] \in Nat
    BY DEF IInv, TypeOK
  <2>2. TypeOK /\ Trampoline(f, orig[f])
    BY <2>1 DEF IInv, FunctionsInv
  <2>3. QED BY <2>1, <2>2, TrampolineMeans
<1>2. QED BY <1>1, InitIInv, NextKeeps, PTL DEF Spec

\* A function is untouched, or jumps to a hook that can call the original.
THEOREM HooksAreComplete == Spec => []HooksReachOriginal
<1>1. IInv => HooksReachOriginal
  <2> SUFFICES ASSUME IInv, NEW f \in Functions
               PROVE  /\ \A n \in BlockSize..(FnSize - 1) : mem[<<f, n>>] = was[<<f, n>>]
                      /\ \/ \A n \in 0..(BlockSize - 1) : mem[<<f, n>>] = was[<<f, n>>]
                         \/ /\ orig[f] # NULL
                            /\ Effect(mem, f, 0) = [kind |-> "set", rd |-> Scratch, value |-> Pointer(Hook[f], 0)]
                            /\ Effect(mem, f, 1) = [kind |-> "br", rd |-> Scratch, value |-> <<W("br", Scratch, 0, None)>>]
    BY DEF HooksReachOriginal
  <2>1. \A n \in BlockSize..(FnSize - 1) : mem[<<f, n>>] = was[<<f, n>>]
    BY DEF IInv, FunctionsInv
  <2>2. CASE IsOriginal(f)
    BY <2>1, <2>2 DEF IsOriginal
  <2>3. CASE ~IsOriginal(f)
    <3>1. orig[f] # NULL /\ Jumps(f) /\ TypeOK
      BY <2>3 DEF IInv, FunctionsInv
    <3>2. QED BY <2>1, <3>1, JumpMeans
  <2>4. QED BY <2>2, <2>3
<1>2. QED BY <1>1, InitIInv, NextKeeps, PTL DEF Spec

------------------------------------------------------------------------------
(* The room for the trampolines: each function takes at most MaxTrampoline *)
(* words, and only once.                                                   *)

Placed == {f \in Functions : orig[f] # NULL}
Taken == Cardinality(Placed) + (IF pc = "orig" THEN 1 ELSE 0)
RoomInv == fault # "overrun" /\ (pc = "dead" \/ rwx_block_used <= MaxTrampoline * Taken)

LEMMA PlacedFinite ==
    IsFiniteSet(Placed) /\ Cardinality(Placed) \in Nat /\ Cardinality(Placed) <= Cardinality(Functions)
<1>1. Placed \subseteq Functions
  BY DEF Placed
<1>2. QED BY <1>1, LeafHookAssumption, FS_Subset, FS_CardinalityType

\* While a function is not yet in Placed there is room for one more.
LEMMA PlacedNext ==
    ASSUME NEW f \in Functions, orig[f] = NULL
    PROVE  /\ Cardinality(Placed) + 1 <= Cardinality(Functions)
           /\ Cardinality(Placed \cup {f}) = Cardinality(Placed) + 1
<1>1. f \notin Placed /\ Placed \cup {f} \subseteq Functions
  BY DEF Placed
<1>2. Cardinality(Placed \cup {f}) = Cardinality(Placed) + 1
  BY <1>1, PlacedFinite, FS_AddElement
<1>3. Cardinality(Placed \cup {f}) <= Cardinality(Functions)
  BY <1>1, LeafHookAssumption, FS_Subset
<1>4. QED BY <1>2, <1>3

LEMMA WrittenLength ==
    ASSUME NEW s \in Seq(Word), NEW x \in Seq(Word)
    PROVE  /\ Written(s, x) \in Seq(Word) /\ Len(Written(s, x)) \in Nat
           /\ Len(Written(s, x)) <= Len(s) + Len(x)
  BY ConcatProperties, LenProperties DEF Written

LEMMA BlockLength ==
    ASSUME IInv, pc = "rewrite", ~More
    PROVE  Len(Block) \in Nat /\ Len(Block) <= MaxTrampoline
<1> DEFINE jump == <<W("ldr", Scratch, InsOffset, None), W("br", Scratch, 0, None)>>
           ptr == Pointer(fn, 4 * BlockSize)
<1>1. /\ fn \in Functions /\ Len(code) = i /\ Len(data) <= 2 * i /\ arch \in Archs
      /\ i \in 0..BlockSize /\ code \in Seq(Word) /\ data \in Seq(Word)
  BY DEF IInv, TypeOK, LoopInv
<1>2. BlockSize \in {3, 4} /\ Width \in {1, 2} /\ Bias \in {0, 2}
  BY <1>1, ArchFacts
<1>3. jump \in Seq(Word) /\ Len(jump) = 2
  <2>1. InsOffset \in Int
    BY <1>1, <1>2, LenProperties DEF InsOffset
  <2>2. W("ldr", Scratch, InsOffset, None) \in Word /\ W("br", Scratch, 0, None) \in Word
    BY <1>1, <2>1, JumpWords
  <2>3. QED BY <2>2
<1>4. ptr \in Seq(Word) /\ Len(ptr) = Width
  BY <1>1, <1>2, Names, PointerType
<1> HIDE DEF jump, ptr
<1>5. /\ Written(code, jump) \in Seq(Word) /\ Len(Written(code, jump)) \in Nat
      /\ Len(Written(code, jump)) <= Len(code) + Len(jump)
  BY ONLY <1>1, <1>3, WrittenLength
<1>6. /\ Written(data, ptr) \in Seq(Word) /\ Len(Written(data, ptr)) \in Nat
      /\ Len(Written(data, ptr)) <= Len(data) + Len(ptr)
  BY ONLY <1>1, <1>4, WrittenLength
<1>7. Block = Written(code, jump) \o Written(data, ptr)
  BY DEF Block, jump, ptr
<1>8. Len(Block) = Len(Written(code, jump)) + Len(Written(data, ptr))
  BY ONLY <1>5, <1>6, <1>7, ConcatProperties
<1>9. Len(data) \in Nat
  BY ONLY <1>1, LenProperties
<1>10. QED BY ONLY <1>1, <1>2, <1>3, <1>4, <1>5, <1>6, <1>8, <1>9, SMTT(30) DEF MaxTrampoline

LEMMA RoomStays ==
    ASSUME RoomInv, orig' = orig, rwx_block_used' = rwx_block_used, fault' = fault,
           pc \notin {"orig", "dead"}, pc' # "orig"
    PROVE  RoomInv'
<1>1. Placed' = Placed
  BY DEF Placed
<1>2. Taken' = Taken
  BY <1>1 DEF Taken
<1>3. QED BY <1>2 DEF RoomInv

LEMMA RoomKeeps ==
    ASSUME IInv, RoomInv, [Next]_vars
    PROVE  RoomInv'
<1>1. ASSUME NEW f \in Functions, KNHookFunction(f) PROVE RoomInv'
  BY <1>1, RoomStays DEF KNHookFunction
<1>2. CASE RewriteWord
  BY <1>2, RoomStays DEF RewriteWord
<1>3. CASE CopyToNewBlock
  <2>1. /\ pc = "rewrite" /\ ~More /\ orig' = orig
        /\ rwx_block_used' = rwx_block_used + Len(Block)
        /\ fault' = IF gHooker = "MAP_FAILED" THEN "MAP_FAILED"
                    ELSE IF rwx_block_used + Len(Block) > RwxSize THEN "overrun" ELSE "none"
        /\ pc' = IF fault' = "none" THEN "orig" ELSE "dead"
    BY <1>3 DEF CopyToNewBlock, Block, AllocRwx
  <2>2. fn \in Functions /\ orig[fn] = NULL /\ rwx_block_used \in Nat /\ RwxSize \in Nat
    BY <2>1, LeafHookAssumption DEF IInv, LoopInv, TypeOK
  <2>3. Len(Block) \in Nat /\ Len(Block) <= MaxTrampoline
    BY <2>1, BlockLength
  <2>4. /\ Cardinality(Placed) + 1 <= Cardinality(Functions) /\ Cardinality(Placed) \in Nat
        /\ Cardinality(Functions) \in Nat
    BY <2>2, PlacedNext, PlacedFinite, LeafHookAssumption, FS_CardinalityType
  <2>5. rwx_block_used <= MaxTrampoline * Cardinality(Placed)
    BY <2>1, <2>4 DEF RoomInv, Taken
  <2>6. rwx_block_used + Len(Block) <= MaxTrampoline * (Cardinality(Placed) + 1)
    BY <2>2, <2>3, <2>4, <2>5 DEF MaxTrampoline
  <2>7. rwx_block_used + Len(Block) <= RwxSize
    <3>1. Cardinality(Functions) * MaxTrampoline <= RwxSize
      BY LeafHookAssumption
    <3>2. QED BY ONLY <2>2, <2>3, <2>4, <2>6, <3>1 DEF MaxTrampoline
  <2>8. fault' # "overrun" /\ (pc' = "orig" \/ pc' = "dead")
    BY <2>1, <2>2, <2>3, <2>7
  <2>9. Placed' = Placed
    BY <2>1 DEF Placed
  <2>10. pc' = "orig" => Taken' = Cardinality(Placed) + 1
    BY <2>9 DEF Taken
  <2>11. QED BY <2>1, <2>6, <2>8, <2>10 DEF RoomInv
<1>4. CASE SetOrig
  <2>1. /\ pc = "orig" /\ pc' = "jump" /\ orig' = [orig EXCEPT ![fn] = new_block]
        /\ rwx_block_used' = rwx_block_used /\ fault' = fault
    BY <1>4 DEF SetOrig
  <2>2. fn \in Functions /\ new_block \in Nat /\ orig[fn] = NULL /\ orig \in [Functions -> {NULL} \cup Nat]
    BY <2>1 DEF IInv, CallInv, TypeOK
  <2>3. Placed' = Placed \cup {fn}
    <3>1. \A f \in Functions : orig'[f] # NULL <=> (orig[f] # NULL \/ f = fn)
      BY <2>1, <2>2 DEF NULL
    <3>2. QED BY <2>2, <3>1 DEF Placed
  <2>4. Cardinality(Placed') = Cardinality(Placed) + 1
    BY <2>2, <2>3, PlacedNext
  <2>5. Taken' = Taken
    BY <2>1, <2>4, PlacedFinite DEF Taken
  <2>6. QED BY <2>1, <2>5 DEF RoomInv
<1>5. CASE WriteLongJump
  BY <1>5, RoomStays DEF WriteLongJump
<1>6. CASE UNCHANGED vars
  <2>1. Placed' = Placed
    BY <1>6 DEF vars, Placed
  <2>2. Taken' = Taken
    BY <1>6, <2>1 DEF vars, Taken
  <2>3. QED BY <1>6, <2>2 DEF vars, RoomInv
<1>7. QED BY <1>1, <1>2, <1>3, <1>4, <1>5, <1>6 DEF Next

LEMMA InitRoom == Init => RoomInv
<1> SUFFICES ASSUME Init PROVE RoomInv
  OBVIOUS
<1>1. rwx_block_used = 0 /\ fault = "none" /\ Cardinality(Placed) \in Nat /\ pc = "idle"
  BY PlacedFinite DEF Init
<1>2. QED BY <1>1 DEF RoomInv, Taken, MaxTrampoline

\* Ten pages are enough: however many functions are hooked and whatever they contain, no
\* trampoline is written past the end of the block, although LHHookerAllocRwx never looks.
THEOREM BlockIsEnough == Spec => []NeverOverruns
<1>1. RoomInv => NeverOverruns
  BY DEF RoomInv, NeverOverruns
<1>2. QED BY <1>1, InitIInv, NextKeeps, InitRoom, RoomKeeps, PTL DEF Spec
==============================================================================
