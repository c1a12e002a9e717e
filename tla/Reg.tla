-------------------------------- MODULE Reg --------------------------------
(***************************************************************************)
(* jni/reg.c: the registry (a dictionary that lives as long as the         *)
(* process) and the database (a dictionary that every change saves to      *)
(* database.kn).  The dictionaries are those of KDict, which KHashTable    *)
(* implements.  The Lua thread makes one call at a time; a save takes one  *)
(* step per system effect, because the process may be killed between any   *)
(* two of them.                                                            *)
(*                                                                         *)
(* A file holds the first len items of the encoding of dict: the magic,    *)
(* the number of pairs, then for each pair the length and the bytes of its *)
(* key and of its value.                                                   *)
(***************************************************************************)
EXTENDS KDictOps

CONSTANTS LuaValues,   \* what a script may pass as an argument
          ToString,    \* lua_tolstring: the bytes of a value, or NoBlob
          RegKeys, RegValues,   \* bound: arguments of the registry calls
          DbKeys, DbValues,     \* bound: arguments of the database calls
          EmptyBlob,   \* the string of length 0
          Nil, Idle,
          TableFails,  \* may KH_DictSet fail to grow a table?
          OpenFails,   \* may the temporary file not be opened?
          WriteFails,  \* may an fwrite fail?
          CloseFails,  \* may the flush of fclose fail (the disk is full)?
          RenameFails, \* may rename fail?
          ReadFails    \* may fopen fail on an existing database?

Blobs == {ToString[a] : a \in LuaValues} \ {NoBlob}

ASSUME LuaAssumption ==
    /\ RegKeys \cup RegValues \cup DbKeys \cup DbValues \subseteq LuaValues
    /\ ToString \in [LuaValues -> Blobs \cup {NoBlob}]
    /\ NoBlob \notin Blobs \cup {EmptyBlob}
    /\ Idle \notin {"knDbSet", "knDbDelete"} \X Blobs
ASSUME FaultAssumption ==
    {TableFails, OpenFails, WriteFails, CloseFails, RenameFails, ReadFails} \subseteq BOOLEAN

VARIABLES gRegistry,
          gDatabase,
          loaded,     \* gDatabase # NULL
          main,       \* the file at gDatabasePath
          temp,       \* the file at gDatabasePath ".new"
          pc,         \* "idle", or the step of SaveDict that comes next
          call,       \* <<function, key>> of the call that is saving
          i, error,   \* locals of SaveDict
          fault,      \* history: did a call of the system fail in the last save?
          ret         \* <<function, key, result>> of the last call

vars == <<gRegistry, gDatabase, loaded, main, temp, pc, call, i, error, fault, ret>>

Items(d) == 2 + 4 * Len(d)
File(d, n) == [dict |-> d, len |-> n]
NoFile == File(<< >>, -1)
Writing == File(<< >>, -2)     \* stdio decides what of it is on disk; nobody reads it
Complete(f) == f.len = Items(f.dict)

\* The database that the next process is meant to find.
OnDisk == IF main = NoFile THEN << >> ELSE main.dict
------------------------------------------------------------------------------
\* LoadDict calls KH_DictSet for each pair and does not look at its result: a pair for
\* which the table cannot grow is passed over, and the load goes on.  (More than the
\* code can lose: its table grows only for the first pair and when it is 5/8 full.)
Loaded(d) == IF TableFails THEN Parts(d) ELSE {d}
SetUnchecked(D, k, v) ==
    {Put(d, k, v) : d \in D} \cup {d \in D : TableFails /\ ~Contains(d, k)}

\* LoadDict on a file that was cut short.  ReadInt past the end returns an
\* uninitialised integer; a length that is not 0 then makes KH_CreateBlob read
\* from NULL and ends the process (Restart), so only 0 lets the load go on.
ReadPastEnd(D) == SetUnchecked(D, EmptyBlob, EmptyBlob)

LoadPairsCut(f) ==
    LET whole == (f.len - 2) \div 4              \* pairs that are all there
        read  == Loaded(SubSeq(f.dict, 1, whole))
        item  == (f.len - 2) % 4                 \* the first item that is missing
        keyed == SetUnchecked(read, f.dict[whole + 1].key, EmptyBlob)
    IN  CASE item = 0 -> ReadPastEnd(read)
          [] item = 2 -> IF whole + 1 < Len(f.dict) THEN ReadPastEnd(keyed) ELSE keyed
          [] item \in {1, 3} -> {}

LoadCut(f) ==
    IF f.len < 2 THEN {<< >>} \cup ReadPastEnd({<< >>})   \* not even the count
                 ELSE LoadPairsCut(f)

LoadDict(f) ==
    IF f = NoFile THEN {<< >>} ELSE IF Complete(f) THEN Loaded(f.dict) ELSE LoadCut(f)

\* GetDB: the first call of a process loads the file; whether it could is not tested.
GetDB ==
    IF loaded THEN {gDatabase}
              ELSE LoadDict(main) \cup (IF ReadFails THEN {<< >>} ELSE {})

------------------------------------------------------------------------------
Init ==
    /\ gRegistry = << >> /\ gDatabase = << >> /\ loaded = FALSE
    /\ main = NoFile /\ temp = NoFile
    /\ pc = "idle" /\ call = Idle /\ i = 0 /\ error = FALSE /\ fault = FALSE
    /\ ret = <<"none">>

Return(r) == pc = "idle" /\ ret' = r

saveVars == <<main, temp, pc, call, i, error, fault>>
dbVars == <<gDatabase, loaded>>

Found(d, k) == IF Contains(d, k) THEN Lookup(d, k) ELSE Nil

\* Every function returns at once if an argument is missing or is not a string.
Rejected(a) ==
    /\ ToString[a] = NoBlob
    /\ Return(<<"rejected", Nil, Nil>>)
    /\ UNCHANGED <<gRegistry, dbVars, saveVars>>

knRegSet(k, v) ==
    /\ \/ Return(<<"knRegSet", k, TRUE>>) /\ gRegistry' = Put(gRegistry, k, v)
       \/ /\ TableFails /\ ~Contains(gRegistry, k)
          /\ Return(<<"knRegSet", k, FALSE>>) /\ UNCHANGED gRegistry
    /\ UNCHANGED <<dbVars, saveVars>>

knRegDelete(k) ==
    /\ Return(<<"knRegDelete", k, Nil>>)
    /\ gRegistry' = Drop(gRegistry, k)
    /\ UNCHANGED <<dbVars, saveVars>>

knRegGet(k) ==
    /\ Return(<<"knRegGet", k, Found(gRegistry, k)>>)
    /\ UNCHANGED <<gRegistry, dbVars, saveVars>>

knRegHas(k) ==
    /\ Return(<<"knRegHas", k, Contains(gRegistry, k)>>)
    /\ UNCHANGED <<gRegistry, dbVars, saveVars>>

knRegCount ==
    /\ Return(<<"knRegCount", Nil, Len(gRegistry)>>)
    /\ UNCHANGED <<gRegistry, dbVars, saveVars>>

\* Called without arguments, so that the new table is at index 1 of the stack.
knRegKeys ==
    /\ Return(<<"knRegKeys", Nil, [n \in 1..Len(gRegistry) |-> gRegistry[n].key]>>)
    /\ UNCHANGED <<gRegistry, dbVars, saveVars>>

------------------------------------------------------------------------------
knDbGet(k) ==
    /\ pc = "idle"
    /\ \E d \in GetDB : gDatabase' = d /\ ret' = <<"knDbGet", k, Found(d, k)>>
    /\ loaded' = TRUE
    /\ UNCHANGED <<gRegistry, saveVars>>

\* Mutant: a copy of knRegHas that still looks in the registry.
DbHasAsksRegistry(k) ==
    /\ pc = "idle"
    /\ \E d \in GetDB : gDatabase' = d /\ ret' = <<"knDbHas", k, Contains(gRegistry, k)>>
    /\ loaded' = TRUE
    /\ UNCHANGED <<gRegistry, saveVars>>

knDbHas(k) ==
    /\ pc = "idle"
    /\ \E d \in GetDB : gDatabase' = d /\ ret' = <<"knDbHas", k, Contains(d, k)>>
    /\ loaded' = TRUE
    /\ UNCHANGED <<gRegistry, saveVars>>

\* The change in memory; SaveDict follows.
StartSave(op, k) ==
    /\ pc = "idle" /\ pc' = "open"
    /\ call' = <<op, k>> /\ fault' = FALSE
    /\ loaded' = TRUE
    /\ UNCHANGED <<gRegistry, main, temp, i, error, ret>>

knDbSet(k, v) ==
    /\ \E d \in GetDB : gDatabase' = Put(d, k, v)
    /\ StartSave("knDbSet", k)

knDbSetFails(k) ==
    /\ TableFails
    /\ \E d \in GetDB : ~Contains(d, k) /\ gDatabase' = d
    /\ Return(<<"knDbSet", k, FALSE>>)
    /\ loaded' = TRUE
    /\ UNCHANGED <<gRegistry, saveVars>>

knDbDelete(k) ==
    /\ \E d \in GetDB : gDatabase' = Drop(d, k)
    /\ StartSave("knDbDelete", k)

------------------------------------------------------------------------------
\* SaveDict returns b to the script.
Finish(b) ==
    /\ ret' = Append(call, b)
    /\ pc' = "idle" /\ call' = Idle /\ i' = 0 /\ error' = FALSE

memVars == <<gRegistry, gDatabase, loaded>>

\* Mutant: the file itself is opened for writing.
OpenInPlace ==
    /\ pc = "open" /\ pc' = "header"
    /\ temp' = Writing /\ main' = Writing
    /\ UNCHANGED <<memVars, call, i, error, fault, ret>>

OpenTemp ==
    /\ pc = "open"
    /\ \/ pc' = "header" /\ temp' = Writing /\ UNCHANGED <<call, i, error, fault, ret>>
       \/ OpenFails /\ fault' = TRUE /\ Finish(FALSE) /\ UNCHANGED temp
    /\ UNCHANGED <<memVars, main>>

\* fwrite of items that are all there, or of at least one that is not.
Write(bad) ==
    \/ error' = (error \/ bad) /\ UNCHANGED fault
    \/ WriteFails /\ error' = TRUE /\ fault' = TRUE

WriteHeader ==
    /\ pc = "header"
    /\ Write(FALSE)
    /\ pc' = "pairs" /\ i' = 0
    /\ UNCHANGED <<memVars, main, temp, call, ret>>

\* fwrite of no bytes returns 0, which WriteData takes for an error.
WritePair ==
    /\ pc = "pairs" /\ i < Len(gDatabase)
    /\ Write(EmptyBlob \in {gDatabase[i + 1].key, gDatabase[i + 1].value})
    /\ i' = i + 1
    /\ UNCHANGED <<memVars, main, temp, pc, call, ret>>

\* What fclose flushes, if it fails, is any part of the file.
Flushed == IF CloseFails THEN 0..Items(gDatabase) ELSE {Items(gDatabase)}

\* Mutant: renames whether there was an error or not.
CloseIgnoresError ==
    /\ pc = "pairs" /\ i = Len(gDatabase)
    /\ \/ error /\ UNCHANGED temp
       \/ ~error /\ \E n \in Flushed : temp' = File(gDatabase, n)
    /\ pc' = "rename"
    /\ UNCHANGED <<memVars, main, call, i, error, fault, ret>>

CloseTemp ==
    /\ pc = "pairs" /\ i = Len(gDatabase)
    /\ \/ error /\ Finish(FALSE) /\ UNCHANGED temp
       \/ /\ ~error
          /\ \E n \in Flushed : temp' = File(gDatabase, n)
          /\ pc' = "rename"
          /\ UNCHANGED <<call, i, error, ret>>
    /\ UNCHANGED <<memVars, main, fault>>

\* Mutant: the result of rename is not looked at.
RenameUnchecked ==
    /\ pc = "rename"
    /\ \/ main' = temp /\ temp' = NoFile
       \/ RenameFails /\ UNCHANGED <<main, temp>>
    /\ Finish(TRUE)
    /\ UNCHANGED <<memVars, fault>>

Rename ==
    /\ pc = "rename"
    /\ \/ main' = temp /\ temp' = NoFile /\ Finish(TRUE) /\ UNCHANGED fault
       \/ RenameFails /\ fault' = TRUE /\ Finish(FALSE) /\ UNCHANGED <<main, temp>>
    /\ UNCHANGED memVars

SaveDict == OpenTemp \/ WriteHeader \/ WritePair \/ CloseTemp \/ Rename

\* The system kills the game, or the game crashes, and it is started again.
Restart ==
    /\ gRegistry' = << >> /\ gDatabase' = << >> /\ loaded' = FALSE
    /\ pc' = "idle" /\ call' = Idle /\ i' = 0 /\ error' = FALSE /\ fault' = FALSE
    /\ ret' = <<"restart">>
    /\ UNCHANGED <<main, temp>>

RegistryCall ==
    \/ \E a \in RegKeys, b \in RegValues :
           ToString[a] # NoBlob /\ ToString[b] # NoBlob /\ knRegSet(ToString[a], ToString[b])
    \/ \E a \in RegKeys :
           /\ ToString[a] # NoBlob
           /\ \/ knRegGet(ToString[a])
              \/ knRegHas(ToString[a])
              \/ knRegDelete(ToString[a])
    \/ \E a \in RegKeys \cup RegValues : Rejected(a)
    \/ knRegCount
    \/ knRegKeys

DatabaseCall ==
    \/ \E a \in DbKeys, b \in DbValues :
           ToString[a] # NoBlob /\ ToString[b] # NoBlob /\ knDbSet(ToString[a], ToString[b])
    \/ \E a \in DbKeys :
           /\ ToString[a] # NoBlob
           /\ \/ knDbGet(ToString[a])
              \/ knDbHas(ToString[a])
              \/ knDbSetFails(ToString[a])
              \/ knDbDelete(ToString[a])
    \/ \E a \in DbKeys \cup DbValues : Rejected(a)

Next == RegistryCall \/ DatabaseCall \/ SaveDict \/ Restart

Spec == Init /\ [][Next]_vars

------------------------------------------------------------------------------
\* The file at the path of the database is absent or whole, whatever step of a
\* save fails and wherever the process is killed ("to make sure we don't
\* overwrite a good albeit outdated version with a corrupt version").
MainFileComplete == main = NoFile \/ Complete(main)

\* A file that holds all that was saved and nothing else: LoadDict, if the table has room
\* for every pair, reads back the dictionary that was saved.
MainFileExact == main # NoFile => LoadDict(main) = Loaded(main.dict)

\* fwrite of no bytes returns 0, as it does when it fails: with an empty string in it a
\* database cannot be saved ("return true on error" does not say so).
Unwritable(d) == \E n \in 1..Len(d) : EmptyBlob \in {d[n].key, d[n].value}

\* SaveDict returns b.
Reports(b) == pc # "idle" /\ pc' = "idle" /\ ret' = Append(call, b)

\* What a save reports is what it did.  The file changes only in the step that reports
\* success, and then it holds the database (but for what fclose may lose): a save that
\* reports failure, and a process that dies in a save, leave the last saved database.
\* A save reports failure only if a call of the system failed, or the database has an
\* empty string.
ReportsAreTrue ==
    [][/\ main' # main => Reports(TRUE)
       /\ Reports(TRUE) => main'.dict = gDatabase /\ (CloseFails \/ Complete(main'))
       /\ Reports(FALSE) => fault' \/ Unwritable(gDatabase)]_vars

\* The registry is a map and the database a map that is saved atomically: a change that
\* reports success is on disk whole, a change that reports failure is lost with the
\* process, and no kill exposes a mixture.  A process whose file cannot be opened, or
\* whose table cannot grow, comes up with a part of what is on disk, in its order.
Store == INSTANCE DurableStore WITH
    MayForget <- TableFails \/ ReadFails,
    registry  <- gRegistry,
    mem       <- gDatabase,
    awake     <- loaded,
    disk      <- OnDisk,
    pending   <- call

ImplementsDurableStore == Store!Spec
==============================================================================
