# KnShim: verification development

KnShim is a native library that is loaded into the Android game Smash Hit. It
loads the game's engine with its own ELF loader, hooks functions of it, and
gives the game's Lua scripts new functions: a registry and a persistent
key-value database, HTTP requests, archive extraction, files, memory access and
game control. It carries its own copy of Lua 5.1, which runs those scripts. This
directory holds TLA+ models of its parts, TLC configurations
that check them and TLAPS proofs about them.

Run everything inside this directory: `tlc -config X.cfg M` for a run,
`tlapm M.tla` for the proofs of a module. `PROJECT.json` lists the runs, the
source lines each definition models, the hazards, and one mutant of the model
per property: the operators commented `Mutant:` are not part of the model, they
stand just before the definition they would replace, and each breaks the
property it is listed with.

## Inventory

Paths are under `src/jni`.

| component | code | state | operations | status |
|---|---|---|---|---|
| hash table | `hashtable.h` | slots, pairs and counts of a `KH_Dict`; ownership of blobs | create, set, get, has, delete, iterate, length, release | modelled, proved |
| registry | `reg.c` 15-133 | `gRegistry`, lost at exit | set, get, has, delete, count, keys | modelled, proved |
| database | `reg.c` 135-368 | `gDatabase`, `database.kn`, `database.kn.new` | set, get, has, delete; load on first use, save on every change | modelled, proved |
| HTTP requests | `http.c`, `extern/http.h` | the userdata's `http_t *`; socket, status, buffers | request, update, release, getters | modelled, proved |
| NXArchive | `nxarchive.c` | read position in a buffer, a path buffer | extract | modelled, proved |
| function hooks | `leafhook.h`, `util.c` 124-151 | one block of executable memory, the code of the game | hook a function | modelled, proved |
| ELF loader | `andrleaf.h` | the image, tables, handles of needed libraries | load, relocate, look up, run constructors, free | modelled, proved |
| boot | `shim.c` | the loaded library, the list of modules | `android_main` | modelled |
| script injection | `script.c` | the table of libraries, the hook of `Script::load` | `KNInitLua`, load of a script | modelled |
| game control | `gamectl.c` | the reload flag and its hook, a buffered instruction | noclip, reload | partly: downloads and the fields of the game are left out; noclip proved |
| memory access, branch inversion | `peekpoke.c`, `util.c` 62-114 | code of the game | write a word, invert a conditional branch | partly: on the word that noclip changes too |
| asset overlay, asset cipher | `overlay.c`, `obfuscate.c` | `gZip`, the hook of `ResMan::load` | mount, unmount, load | partly: reading a zip is one step; proved |
| Lua compiler | `lua/lparser.c`, `lua/lcode.c` | `FuncState`: code, registers, jump lists, blocks | every rule of the grammar | partly: tokens in, no lines, small integers |
| Lua interpreter | `lua/lvm.c`, `lua/ldebug.c` | stack, frames, upvalues, tables | every opcode; the bytecode checker | partly: no metamethods, no hooks |
| Lua calls and coroutines | `lua/ldo.c`, `lua/lbaselib.c` | frames, counters, error functions and status of every thread; the C stack | call, error, pcall, resume, yield, status | partly: without values; proved |
| Lua collector | `lua/lgc.c`, `lua/lfunc.c`, `lua/lstring.c` | colours, lists and phase of the collector | every phase, the barriers, `collectgarbage` | partly: the debt that paces it is any pace |
| Lua tables | `lua/ltable.c` | array part, nodes, last free node | get, set, rehash, next, length | modelled |
| Lua library, scanner, binary chunks; miniz | `lua/l*lib.c`, `lua/llex.c`, `lua/l(un)dump.c`, `extern/miniz.*` | | | not modelled |
| files, system, log | `files.c`, `system.c`, `log.c`, `debuglog.c` | none of their own | thin wrappers of one system call | not modelled |
| old hooker | `src/old` | | | not built |

How they interact. `shim.c` loads `libsmashhit.so` with the ELF loader and runs
the module initialisers, which look up symbols and install hooks. The hook on
the script loader registers the `kn` functions in every Lua state. From then on
everything runs on the game's script thread: a Lua call runs to its end before
the next one. The registry and the database are two hash tables; the archive
extractor reads the buffer of a finished HTTP request; `knEnableReloading` is
the one hook that scripts install themselves.

So two calls never interleave. What does interleave is the world outside of a
call, and that is where the models put their nondeterminism:

- the kernel and the server behind a socket act between any two calls of
  `knHttpUpdate`;
- the process is killed between any two system effects of a save, and the next
  process loads what is on disk;
- every `malloc` of a size that matters, `fopen`, `fwrite`, `fclose`, `rename`,
  `connect`, `send`, `mmap` may fail, each under a constant of its own;
- inside Lua, where one thread of the system runs many of Lua's: the collector
  takes its steps between any two operations of a script, coroutines resume and
  yield in any order, and an error may leave any number of calls at once;
- the order of the calls is the script's: handles can be used after their
  release, functions hooked in any order, keys set and deleted for ever.

What makes each component correct:

- hash table: it is a map that remembers the order of insertion, whatever was
  deleted and however often it grew; its unbounded loop ends; no blob is leaked
  or freed twice.
- database: a change that reports success is what the disk holds, one that
  reports failure changes nothing on disk, and no kill exposes a mixture; what a
  process comes up with is that, or a part of it if its table cannot grow while
  it loads.
- HTTP: descriptors are owned by one live handle; a request that is done has
  read all that the server sent before it closed, be that the whole answer or
  not; a final status is final; no request that is polled pends
  for ever, provided that the server answers or closes.
- NXArchive: whatever the stream holds, no read outside of it, an end, and the
  meaning of the format.
- hooks: the trampoline still does what the displaced instructions did, of the
  kinds that the code rewrites; a hook that runs can call the original; the
  executable block suffices.
- ELF loader: the constructors see the image that the system linker would have
  made, up to the kinds of relocation that the loader implements; freeing undoes
  loading wherever the program headers and the names of the needed libraries
  were processed, and crashes only where they were not.
- game control and overlay: whatever the order of calls, the word of the game
  under noclip is not lost, a request to reload is answered, a zip reader is
  closed once.
- Lua: a program does what its text means; the code of the compiler is sound for
  an interpreter that checks nothing; frames, counters and upvalues agree after
  every error and every yield; what a script can reach is not collected and what
  it cannot is; a table is a dictionary.

## Modules

| module | what it is | corresponds to |
|---|---|---|
| `KDictOps` | operators on ordered dictionaries | |
| `KDict` | abstract specification: the ordered map | what `hashtable.h` promises its callers |
| `KHashTable` | the table itself | `hashtable.h`, every exposed function |
| `KHashTableProofs`, `KHashTableRefines` | theorems | |
| `DurableStore` | abstract specification: a volatile and an atomically durable map | what `reg.c` promises scripts |
| `Reg` | registry and database | `reg.c` |
| `RegProofs` | theorems | |
| `KnHttp`, `KnHttpProofs` | handles, requests, the kernel's sockets and the server; theorems | `http.c`, `extern/http.h` |
| `NXArchive` | the interpreter of the archive stream | `nxarchive.c` |
| `NXFormat` | reference: what a stream means, read from its front | |
| `NXArchiveProofs` | theorems | |
| `LeafHook`, `LeafHookProofs` | the hook engine, theorems | `leafhook.h`, `util.c` |
| `ElfLoad` | the loader | `andrleaf.h` |
| `Shim` | boot, and the calls that change the game; extends `ElfLoad` | `shim.c`, `script.c`, `gamectl.c`, `peekpoke.c`, `overlay.c`, `obfuscate.c`, `util.c` |
| `ShimProofs` | theorems about the loader and the shim | |
| `LuaCode`, `LuaParser` | the code generator; the parser that drives it | `lcode.c`; `lparser.c` |
| `LuaCheck` | the bytecode checker | `ldebug.c` 112-400, `lopcodes.c` |
| `LuaVM` | the interpreter of what the parser made | `lvm.c`, `ldo.c`, `lfunc.c` |
| `LuaMeaning`, `LuaSamples` | reference: what a syntax tree means; the programs | the manual |
| `LuaCalls`, `LuaCallsProofs` | calls, errors and coroutines of many threads; theorems | `ldo.c`, `lbaselib.c`, `lstate.c` |
| `LuaGC` | the incremental collector and the script it runs beside | `lgc.c`, `lfunc.c`, `lstring.c`, `lapi.c`, `lvm.c` |
| `LuaDict` | abstract specification: what a table and `next` promise | |
| `LuaTable` | the table | `ltable.c` |
| `MC...` | instances for TLC | |

**KHashTable.** One action per exposed function. The exception is an insertion
that grows the table: `KH_ResizeDict` copies one pair per step
(`pc = "rehash"`), because its copy loop has a delicate exit: it is bounded by
the first NULL pair, not by `data_count`. Probe sequences, tombstones, the two
shifts of the load limit and the stale copy that `KH_DictRemove` leaves behind
are all there; the DJB2 hash is a constant `Hash`, and `MCKHashTable` checks
that the values it uses are DJB2's. `live` counts the blobs that are allocated.

**Reg.** The dictionaries are the ordered maps that the table was shown to
implement. `SaveDict` takes one step per system effect (open, header, each
pair, close, rename), and `Restart` is enabled at all of them. A file is the
dictionary it encodes and the number of its items that are there, which is all
that `LoadDict` can tell about a file written by `SaveDict`. `LoadDict` is a set
of results: it does not look at what `KH_DictSet` returns, so with `TableFails`
any part of the pairs (`Parts`, in their order) may be what is loaded, and the
next save writes that. `DurableStore` says so too: with `MayForget` a process
comes up with a part of the durable map. An empty blob makes `fwrite` return 0,
which `WriteData` takes for an error: this is in the model.

**KnHttp.** Handles with the fields of `http_internal_t`, and per descriptor the
state of the kernel and of the server. Sizes are counted in segments; the first
`HeaderSegments` are the header. `knHttpUpdate` is `http_process`: first
`SO_ERROR`, then send, then receive and parse. `StaleHeap` lets `malloc` return
a block that still holds an older response.

**NXArchive.** One command per step. A stream is a sequence of cells, a cell
being one integer of the stream or one byte of a name or of a file; `touched` is
what a step read.

**LeafHook.** Memory in words; an instruction is its kind, register and offset.
`Effect` says what the processor does at an address. `KNHookFunction`,
`RewriteWord` (one turn of the loop), `CopyToNewBlock`, `SetOrig` and
`WriteLongJump` are the steps of one call, for both architectures (`arch`):
block size, pointer width, PC bias and scratch register differ. `Result` is what
the code makes of a word it recognises, the immediate of an AArch32 `adr` taken as
it stands in the word; `Effect` expands it. `was` is memory
as the loader left it, kept to state the properties.

**ElfLoad, Shim.** `LeafLoadFromBuffer` is cut where it calls what can fail or
look, and the loops that write the image (over segments and relocations) take
one turn per step. The addresses of symbols are written into the words of the
symbol table in the image, as the code does. A file can fail to be read at
every step, and `LeafFree` can be called before, after and instead of a
successful load. `RelocMeaning` is what the supplement of each processor asks
for, of `ABS` too (`R_ARM_ABS32`, `R_AARCH64_ABS64`, `R_386_32`), which the
loader passes over. `IsFile` says what a file may be, any garbage of these types
included; `WellFormed` what a linker makes, which is what the meaning of an
image is defined for; `GamesHaveHit` that the game has the instruction noclip
looks for. Addresses count words, an odd one is code in Thumb state; three platforms (`build`) differ
in their relocations and in how a table holds its addends. A file is its header,
its program headers, its words and the tables of its dynamic section, each of
which may be missing. After `android_main` the image stays, and `Shim` adds the
calls of scripts that write to it: `NoclipIsCode` relates the instruction that
noclip hides to the word that a poke, a hook or an inverted branch put there.
`base` and `touched` are history.

**The Lua compiler and interpreter** are deterministic, and their hazard is the
number of cases. Each function of `lparser.c` and `lcode.c` is an operator from
`FuncState` to `FuncState`, the rules of the grammar refer to one another through `Rule`, with the jump lists threaded through the code as in
the source and every `lua_assert` kept (`bad`). `LuaVM` runs the code one
instruction per action, on a stack whose registers nobody clears.
`MCLuaCode` compiles and runs some 3,200 programs and compares what they print,
return and raise with `LuaMeaning`, which knows neither registers nor jumps;
`CodeIsSound` is the checker's verdict on each function, which the source only
asserts.

**LuaCalls.** The C stack is a sequence of activations, since in `ldo.c` a Lua
call may be a C call too (a metamethod, `pcall`, `resume`) and an error or a
yield leaves several of them by `longjmp`. Values are left out; the counters
(`nCcalls`, `baseCcalls`, `nexeccalls`), `size_ci` and its growth beyond the
limit while an error is handled, `errfunc` and open upvalues are there.
`life` is history.

**LuaGC.** One `singlestep` per action, beside a script whose operations are the
places in `lvm.c` and `lapi.c` that store a reference, with the barrier each of
them uses. The lists are sets: gray objects and finalizers are taken in any
order, which allows more than the code has, and the sweep takes its objects in
one fixed order, one per step. Open
upvalues, weak tables, finalizers that keep what they were given, strings that
are found again, dead coroutines and `collectgarbage` at any time are the
script's choice. `lost` is history: what was garbage when the cycle began.

**LuaTable.** Nodes and chains as in `ltable.c`, with the main position of a key
from its hash (for numbers the words of the double). A node keeps its key when
its value is cleared; `Collect` marks it as dead, and the key may come back.
`it` and `seen` are a script's traversal. `luaH_resizearray` may be called on
any table here, in the code only on one under construction. Array parts have up
to 4 slots (`MaxArray`). That hash sizes
are powers of two up to `MAXBITS`, and lengths beyond `MAX_INT`, are left out.

## Runs

| run | module, cfg | question | instance and why it is enough |
|---|---|---|---|
| `hashtable` | `MCKHashTable` | Do tombstones, stale pairs, growth and failed growth ever break the index, leak a blob, or lose the order? | 4 keys whose probe sequences collide and wrap around, first size 2, so that it doubles twice (2, 4, 8); the interesting interplay is of a collision chain, a tombstone in it and a growth, which 3 keys reach already; a failed growth leaks two blobs, so blobs are bounded by `MaxBlobs` = 6; states that differ only in the returned value are one (`VIEW`) |
| `database` | `MCReg` | Is the file always absent or exact, is the database an atomic durable map, but for pairs that a load drops, and the registry one of its own? | 2 keys, one also passed as a number; empty values; every fault but those of `fclose` and of opening an existing file, also of a table that cannot grow during a load; kills everywhere |
| `database_faults` | `MCRegAllFaults` | With every fault: does the file change only in a step that reports success, to what the process has in memory, and does a save report failure only after a fault or because of an empty string? | 2 keys, 2 values, one of them empty; files that were cut short are loaded |
| `http` | `MCKnHttp` | Ownership, completeness (of what the server sent), stability and progress, with partial sends and buffers that hold an older response | 2 handles and 2 descriptors (reuse of a number needs 2 and 1), header of 2 segments and body of 1, so that the end can come before, in and after the header |
| `nxarchive` | `MCNXArchive` | Does the interpreter stay in bounds, end, and extract what a recursive reading of the format says? | all streams of up to 4 cells; an archive of 18 cells cut anywhere and with any two cells replaced; a long name and one with a NUL inside, cut anywhere; any file may fail to be written |
| `hooks` | `MCLeafHook` | Does the rewriting keep the meaning, on both architectures, with a second hook before or after? | one function with every combination of the kinds of words, one fixed; the executable block holds exactly the two longest trampolines |
| `hooks_literal` | `MCLeafHookLiteral` | violation: see Disagreements | |
| `shim` | `MCShim` | Do constructors see the image a system linker makes, does freeing undo loading, do noclip, reloads and overlays survive every order of calls? | a library of 22 words for each of three platforms with every kind of symbol and relocation of the model, one of them unimplemented, whole, cut, or with each of its tables missing; two needed libraries that open or not; freed whole, halfway or before the load; then the game, in the build for ARM |
| `lua_code` | `MCLuaCode` | Does a compiled program do what its text means, is its code sound, does it end? | every expression of one operator over a few leaves, as value, condition, target and result; of two logical operators, with and without `not`, over three leaves in two of these places each; pairs of arithmetic operators for the priorities; every statement with every exit and captured variable; programs at and one past each limit of the compiler, with small limits; broken text |
| `lua_calls` | `MCLuaCalls` | Do frames, counters, upvalues and status agree after every call, error, yield and resume? | 3 threads, 3 nested C calls and 2 beyond the limit for an error handler, 4 calls per thread, 8 frames: a coroutine inside a coroutine inside a pcall, and an error in an error handler, just fit |
| `lua_gc` | `MCLuaGC` | Is nothing freed that a script can reach, everything else within a cycle, and does a cycle end? | 6 heaps of 3 to 5 objects, each for one mechanism (weak values and keys with finalizers, strings, tables that change while they are marked, closures, closures of coroutines); a stack slot per thread |
| `lua_table` | `MCLuaTable` | Is a table a dictionary through collisions, collections and rehashes, is `next` right, is `#` a border? | 3 integers, a string and an object, in tables of up to 8 nodes and 4 array slots; in the table of 4 nodes three of them share a main position, and the string's is where a colliding node goes |

Deadlock is not checked where the program may stop: `http` (both handles are
released), `nxarchive` (one stream is extracted), `hooks` (all functions are
hooked) and `shim` (the library cannot be loaded).

Bounds. `MaxAlloced`, `MaxBlobs` (`KHashTable`), `RegKeys`, `RegValues`,
`DbKeys`, `DbValues` (`Reg`), `Segments`, `HeaderSegments` (`KnHttp`),
`PathMax` and the set of streams (`NXArchive`), `FnSize` and `RwxSize`
(`LeafHook`); the theorems hold for all their values. `Files`, `Pokes`, `Zips`
(`Shim`), `Programs` and `StackSize` (`LuaVM`), `MaxOpen`, `MaxFrames`
(`LuaCalls`), `Slots`, `Pools` (`LuaGC`), `MaxArray` (`LuaTable`). Symmetry is
used between the two coroutines of `lua_calls` only; its properties are safety.

Fairness. In `KnHttp` the script polls
every handle (the documentation tells it to, once per frame), a connection
attempt ends (the kernel times it out), and a server that has the whole request
sends and closes at last; `http.h` itself has no timeout, so without the last
assumption a silent server keeps a request pending. In `NXArchive` the loop
runs to its end because nothing else runs on its thread. In `Shim` the game asks
for keys in every frame, which is what answers a reload; the steps of the loader
follow each other on one thread. In `LuaVM` the interpreter runs. In `LuaGC` the
collector goes on: every allocation beyond its threshold makes a step, and there
is always one to make; a script that allocates nothing more is not promised
anything.

## Disagreements between code and documentation

`hooks_literal` is a run that TLC refutes: on AArch64 the literal of a displaced
load is read at index `[i]` of the address that already is its own (`leafhook.h`
234, 238), so a load that is not the first displaced word loads something else.

The models contain the following ones too, and TLC refutes the named property
when it is checked with the named constants; the runs above leave these out:

- `MainFileComplete` (`Reg`, `CloseFails`): the result of `fclose` is not tested,
  so a file cut short by a full disk is renamed over the good one (`reg.c`
  173-175, 214).
- `ResponseReceived` (`KnHttp`, `StaleHeap`): the header is searched for beyond the
  received data, and an older response in a reused block is found
  (`extern/http.h` 558).
- `MeansWhatItSays` (`LuaVM`, `Programs <- MCConstants`): `luaK_goiftrue` codes a
  constant false operand of `and` by `luaK_jump`, which takes along the pending
  jumps of the operand before; they carry that one's value, and
  `((nil and nil) or false) and true` is `nil` where it should be `false`
  (`lcode.c` 547; likewise `luaK_goiffalse`, 575).
- `StatusIsTrue` (`LuaCalls`, `Results = {2}`): a coroutine that returns more
  results than its resumer has room for keeps them on its stack and is
  "suspended" for ever, although it has ended (`lbaselib.c` 490-507, 530).

What properties name as the exception, because the code does it:

- `Unwritable`, in `ReportsAreTrue`: `fwrite` of 0 bytes returns 0, so a database
  with an empty key or value in it cannot be saved until that pair is gone
  (`reg.c` 147-149).
- `MayForget`, in `DurableStore`: a load ignores the result of `KH_DictSet`
  (`reg.c` 250). Pairs for which the table cannot grow are dropped without a word,
  and the next save overwrites the file without them.
- `stale`, in `DoneMeansAll`: a request can be done without a whole header from the
  server if an older response left one in the block (`http.h` 558); and a
  response that the server cut counts as done (`EarlyClose`): nobody compares
  with `Content-Length`.
- `Kept`, in `OrigKeepsMeaning`: an AArch32 `adr` has a rotated immediate, which
  the code masks and uses undecoded (`leafhook.h` 65, 305-308), so that only
  immediates below 256 keep their meaning; an `adr` that subtracts is not
  recognised, as `IS_AARCH32_ADR_SUB` tests for the bits of one that adds
  (`leafhook.h` 66, 70), and is copied as it is; so are the relative words that
  no macro is for. The model has both `adr` as the code treats them.
- `Unimplemented`, in `InitSeesImage`: the words that an absolute relocation is for
  keep what the file has (`andrleaf.h` 585, 645; "only implemented what's from
  libsmashhit.so", 294-295).
- `EvenSym`, in `WellFormed`: `R_ARM_GLOB_DAT` of data at an odd address loses
  bit 0, as if it were the mark of Thumb state (`andrleaf.h` 610).
- `"crashed"`, in `FreedMeansUndone`: `LeafFree` reads through `phdrs` (`andrleaf.h`
  756), which is NULL if no header was read, and whose entries are garbage if not
  all of them could be; after a dynamic section that lacks a table it gives
  `dlclose` (749) offsets instead of handles. It copes with handles that are NULL,
  with a failed `mmap` and with a file without a dynamic section.

Found while modelling, without a run of its own: a failed growth of the table
leaks the two blobs it was given (`hashtable.h` 202); a NULL value (a failed
`KH_CreateBlob`, stored without a test, `reg.c` 45 and 285) would be taken by
the copy loop for the end of the table (`hashtable.h` 167-169); `GetDB` goes on
with an empty database if an existing one cannot be opened, and overwrites it
(`reg.c` 266); the rest of a partial `send` is never sent (`extern/http.h` 506);
a status of 300 to 399 is reported as an error, which `http.c` documents
otherwise; releasing a handle twice reads through NULL (`http.c` 244); a file
that cannot be written does not stop an extraction that then reports success
(`nxarchive.c` 62); a failed `mmap` is not noticed (`leafhook.h` 101);
`knDownloadFile` returns its path because `lua_toboolean` pushes nothing
(`gamectl.c` 174); `LeafFree` does not free the copy of the ELF header, nor a load that fails its stream;
`invert_branch` reports success for `b.al` and `b.nv`, which have no opposite; a
coroutine that is refused with "C stack overflow" at its first resume has lost
its body; the assertion "not in finalize" of the barriers (`lgc.c` 648) does not
hold for a userdata that waits for its finalizer and is reached through a weak
key, which is harmless; `linit.c` opens neither the base library nor `package`.

## Proofs

Theorems hold for every value of the constants that satisfies the named
assumptions of the modules.

**Hash table** (`KHashTableProofs`, `KHashTableRefines`). `IndexSound` is not
inductive. The invariant `IInv` adds three things: `NoStalePairCopied` (no pair
at or above the load limit was ever used, so the copy loop meets NULL exactly
at `data_count`), `CopySound` (while a resize runs, the new arrays hold the
first `j` pairs and the key that caused it is not in the table) and `Dense`.
`TableSound` follows, and with a pigeonhole argument on the used slots
`InsertTerminates`: the `while (1)` of `KH_InsertSlot` meets a free slot.
`TableImplementsKDict` is the refinement: a lookup finds the unique index of a
key because the index is sound, the copy loop stutters, `RehashDone` is `Set`.
`NoBlobLost` is an action property: `SetOwnsBlobs` shows that of all the ways
through `KH_DictSet` only the growth that fails changes the number of blobs
without an owner.

**Database** (`RegProofs`). `SaveInv` says that the temporary file is complete
when it is about to be renamed, that the main file is absent or complete, and
that an error in a save has a cause, a fault or an empty string.
`MainFileIsExact` assumes that `fclose` loses nothing (`~CloseFails`);
so does `RegImplementsDurableStore`. The assumption is needed: TLC refutes
`MainFileComplete` without it. Neither says that a load finds every pair: with
`TableFails` it may drop some (`GetDBRecalled`: what it returns is a part of the
file, in its order), with `ReadFails` all of them, and the durable map forgets
what the process does not find as soon as that saves. `SavesReportTruly` assumes
nothing.

**HTTP** (`KnHttpProofs`). The invariant relates a live handle to the kernel and
the server: what it received and what still waits in the kernel is what the
server sent (`ReceivedInv`), and what it reports as complete is all that the server had sent
when it closed (`CompleteInv`); with `EarlyClose` that can be less than the whole
answer, with `StaleHeap` the header can be an older one. Segments are counted, in
the order in which TCP delivers them; what they hold is not modelled.
`HandlesOwnDescriptors`, `DoneHasAll` and `FinalStays` follow for
any number of handles, descriptors and segments; `FinalStays` needs that parsing
a finished answer again gives the same result (`UpdateKeepsFinal`).

**NXArchive** (`NXArchiveProofs`). `Inv` is `TypeOK` with `ReadsInBounds`; the
lemma about each reader of the stream says that from any position in the buffer
it reads inside of it and returns a position in it. `ArchiveReadsInBounds` and
`ArchivePathRestored` follow for every stream. `ExtractsTheFormat` rests on
`MeaningInv`: at every command, the entries of the whole stream are those written
so far followed by those of the stream from here on. The format (`NXFormat`)
cuts sequences from the front where the code moves a position, so
`MeaningIsReads` first states it by positions (`Reads`). It is a recursive
function: `MeaningsExist` shows that it has a value at every position by going
back from the end of the stream (the least position without one, counted from
the end, cannot be), and `MeaningsType` in the same way that each is a list of
entries. The theorem needs the four commands to be different numbers, which they are
(`ArchiveAssumption`).

**Hook engine** (`LeafHookProofs`). The inductive `IInv` has three parts.
`LoopInv`: while the loop runs, the `k`-th word of the code loads the value the
`k`-th original word computed, provided that the data will stand right behind
the jump back; neither stream ever drops a write. `CallInv`: what was copied is a
`Trampoline`, an assertion about addresses in the executable block only.
`FunctionsInv`: every function with an `orig` has its trampoline, and is untouched
or jumps. A trampoline stays one as long as nothing below `rwx_block_used` is
written (`TrampolineStays`), which is all the other hooks can do.
`OrigMeansOriginal` and `HooksAreComplete` follow for every program, both
architectures and any number of functions, whether or not the executable block
suffices. That it does is `BlockIsEnough`, with a part of its own: `RoomInv` counts
the functions that have a trampoline in the block, each of which is hooked once
and takes at most `MaxTrampoline` words; `LeafHookAssumption` says that the block
has room for as many as there are functions. `OrigMeansOriginal` is
about the words in `Kept`: not those that the code copies as they are although
they depend on the pc, not the AArch32 `adr` whose immediate is rotated, and not
the AArch64 literal loads of `hooks_literal`. `AArch32Assumption` says
that AArch32 has no `adrp` and that the immediate of its `adr` has twelve bits.

**Loader and shim** (`ShimProofs`). `LayoutInv` is the frame of the others: which
addresses are mapped. That relocations leave the symbol table alone is in
`ImageInv`, too.
`ImageInv` follows the two loops: after `n` program headers a word is that of the
file if one of them covers it and zero otherwise; after `n` relocations a word
that one of them is for has its meaning and every other is the file's. That a
relocation stores the meaning is `RelocStores`, one case per type and platform
that the loader implements; the words of the others are excepted.
`HeapInv` tells from what is allocated how far a load got. `UndoneInv` follows
the handles of needed libraries and the functions that were
called, forwards through `init_array` and backwards through `fini_array`.
`LoaderIsLinker` and `FreedIsUndone` hold for every library that is `WellFormed`;
neither says anything of other files, for which the specifications give no
meaning. `NoclipComesBack` needs such a library too, with `HitAt` in its image and
outside of the symbol table (`GamesHaveHit`):
the exchange of the two words, and every write around it, keeps the word of the
game in one of the two places. `OneReader` assumes nothing.

**Calls and coroutines** (`LuaCallsProofs`). None of `CStackBounded`,
`CountsRight`, `FramesAccounted`, `StatusIsTrue` and `PcallRestores` is inductive:
each depends on what an activation further down will do when it is returned to
or when an error unwinds to it. `CallsInv` says that there are levels `l`, one
number per activation, that make the state `Good`:

- threads lie on the C stack in one piece each, on top of the `resume` that
  resumed them (`Fits`), so what a `longjmp` discards belongs to one thread;
- the level of an activation is the number of frames its thread has while it is
  the last one of it, and every activation accounts for the difference to the
  one before (`Leveled`);
- the thread of the last activation of a piece has the frames of that level and,
  in `nCcalls`, the count of C calls below (`AgreesAtLast`);
- what a `pcall` saved in its activation is what an error has to restore: the
  level and count at its own place (`Remembered`);
- a thread that is not on the C stack is fresh, suspended by a yield, finished or
  dead, with counters that fit a later resume (`OffOK`);
- no more C calls than the limit, or its allowance for error handlers (`TopBounded`).

One action of the model composes several functions of `ldo.c` (a return may end
a `pcall`, and with it a coroutine), so the lemmas speak of any state `H`, `c`, `l`
and of one function each: what `Pushed`, `Popped`, a cut of the stack, a resume or
a yield does to `Good`. `StackIsBounded`, `CountsAreRight`, `FramesFit` and
`PcallLeavesAsFound` hold for any number of threads and all limits. `StatusTrue`
assumes `ResultsFit`: a coroutine that returns more than its resumer has room for
is the disagreement listed above.

Only model-checked:

- `LiveNotDead`, `NoBlackToWhite` and `Collected` of the collector: reachability
  and the marking loops are recursive operators, which the prover does not
  support;
- `CodeIsSound` and `MeansWhatItSays`: the compiler and the meaning of a program
  are recursive over the grammar;
- `LengthIsBorder` and the refinement of `LuaDict` by `LuaTable`: chains of nodes
  are followed by recursive operators;
- liveness, and with it every `Ends`: fairness is out of the prover's reach.

## Abstractions, and what is not modelled

- A blob is a value; the small allocation of a blob is assumed to succeed.
- A crash is a kill of the process, not a power failure: what was written is on
  disk in the order it was written. (`SaveDict` does not call `fsync`.)
- `knRegKeys` is modelled as called, without arguments.
- After the peer has closed, `recv` returns 0 for ever, as Linux does.
- URL parsing and the getters of a request have no state and are left out.
- An integer of an archive stream is one cell, so a stream cut inside of an
  integer is one cut before it.
- Of an instruction only kind, register and offset are modelled. That the scratch register of the jumps (x16, r12) is free at
  the hooked addresses is assumed, as the code's TODO says. Instruction caches
  are not modelled.
- The two definitions of the global `ResMan_load` (`overlay.c`, `obfuscate.c`)
  exist in different builds: with both in one they do not link.
- Of the relocations a supplement defines, the model has those the loader
  implements, the absolute one and `NONE`; TLS, `IRELATIVE`, pc-relative and `COPY`
  relocations, which the loader passes over too, are not represented.
- Nothing is said of writes outside of the mapping: the image is a function on the
  mapped words, and `WellFormed` asks of a file that its tables lie in them.
- Logging and messages are left out everywhere.
- A kill is not a power failure, and descriptors are those that a script releases:
  one that it drops keeps its descriptor, and beyond `FD_SETSIZE` descriptors
  `FD_SET` writes outside of its set (`extern/http.h` 488).
- Lua's numbers are small integers; metamethods are calls without a meaning of
  their own (`LuaCalls`). Allocation does not fail inside Lua.
- Not modelled: the string, table, math, io, os and debug libraries and the
  scanner, which are functions of their arguments or wrappers of the C library;
  binary chunks; miniz; the wrappers in `files.c`, `system.c`, `log.c`; the
  getters and setters of the game's fields in `gamectl.c`; `src/old`, not built.

## Plan

Done: the hash table under its map, registry and database under the durable
store, HTTP, NXArchive, the hook engine, the loader with the shim on top of it,
and Lua's calls and coroutines, each with proofs; Lua's compiler, interpreter,
collector and tables, model-checked. Next, in this order:

1. The chains of `LuaTable` as functions instead of recursive operators, so that
   its refinement of `LuaDict` can be proved.
2. Pattern matching (`lstrlib.c`) against a reference matcher and the sort of
   `ltablib.c`, as algorithms.
