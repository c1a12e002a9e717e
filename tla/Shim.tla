-------------------------------- MODULE Shim --------------------------------
(***************************************************************************)
(* android_main (jni/shim.c) loads the library of the game, installs the   *)
(* modules of the shim and runs the game; the functions that scripts then  *)
(* call to change the game: jni/gamectl.c, jni/peekpoke.c, jni/overlay.c,  *)
(* jni/obfuscate.c, and the injection of jni/script.c.  The first word of  *)
(* Level::hitSomething is a word of the image that ElfLoad has made.       *)
(***************************************************************************)
EXTENDS ElfLoad, TLC

CONSTANTS Ret,         \* KN_RET: the instruction that returns
          Opposite,     \* of a conditional branch: the branch with the opposite condition
          Pokes,       \* words that a script writes over hitSomething
          Zips,        \* for each zip that can be mounted: the names in it
          Obfuscated,  \* the names in the obfuscated assets
          Assets       \* the plain assets

ASSUME ShimAssumption == None \notin DOMAIN Zips

Paths == {"levels/a", "menu/b"}
Mp3 == "levels/a" :> "levels/a.mp3" @@ "menu/b" :> "menu/b.mp3"

VARIABLES app,                   \* boot, running, or stopped
          hyperspace,            \* built with HYPERSPACE, or else with BUILD_CIPHER
          gNoclipBufferedInstruction, gWantsReload,
          gWasKeyPressedFunc, ResMan_load,       \* NULL, or the original for the hook
          real_script_load_func,
          gZip, readers,         \* the mounted zip; the zip readers that are open
          lua_reg_table,         \* the libraries of the game that every script gets
          ret,                   \* what the last call or question was answered
          base, touched          \* history: the word of hitSomething that noclip hides; was the
                                 \* word written while it was hidden, or written as Ret?

gameVars == <<gNoclipBufferedInstruction, gWantsReload, gWasKeyPressedFunc, ResMan_load,
              real_script_load_func, gZip, readers, lua_reg_table>>
shimVars == <<app, hyperspace, gameVars, ret, base, touched>>
vars == <<elfVars, shimVars>>

Nothing == <<None>>
Hit == "_ZN5Level12hitSomethingEi"
HitAt == LeafSymbolAddr(Hit) - Base

\* The game, a library with android_main, has hitSomething in its image, and not in the
\* symbol table.
GamesHaveHit ==
    \A b \in Builds : \A l \in DOMAIN Files[b] :
        LET f == Files[b][l]
            Syms(name) == {n \in DOMAIN f.syms : f.syms[n].name = name}
        IN  Syms("android_main") # {} =>
                /\ Syms(Hit) # {}
                /\ \A n \in Syms(Hit) :
                      /\ f.syms[n].shndx \notin {"ABS", "COMMON", "UNDEF"}
                      /\ f.syms[n].value \in 0..(Highest(f) - 1)
                      /\ f.syms[n].value \notin f.symtab..(f.symtab + Len(f.syms) - 1)

Init ==
    /\ ElfInit
    /\ app = "boot" /\ hyperspace \in BOOLEAN
    /\ gNoclipBufferedInstruction = Ret /\ gWantsReload = FALSE
    /\ gWasKeyPressedFunc = NULL /\ ResMan_load = NULL
    /\ real_script_load_func = NULL
    /\ gZip = None /\ readers = 0
    /\ lua_reg_table = <<"base", "game", "game">>
    /\ ret = Nothing /\ base = NULL /\ touched = FALSE

\* KNHookFunction: the original is set if the function was hooked.  The first call makes
\* gHooker, which can fail; then the next call tries again.
gHooker == \E f \in {gWasKeyPressedFunc, real_script_load_func, ResMan_load} : f # NULL
Hooked(orig) == orig' = 1 \/ (~gHooker /\ orig' = NULL)

\* The modules are installed and the main function of the game is called, if it is there.
\* KNInitLua puts the libraries of the shim after the first of the game and ends the table
\* there; with HYPERSPACE it hooks Script::load instead.
AndroidMain ==
    /\ app = "boot" /\ caller = "android_main" /\ pc \in {"loaded", "failed"}
    /\ \/ pc = "failed" /\ app' = "stopped"
          /\ UNCHANGED <<lua_reg_table, real_script_load_func, ResMan_load>>
       \/ /\ pc = "loaded"
          /\ app' = IF LeafSymbolAddr("android_main") = NULL THEN "stopped" ELSE "running"
          /\ Hooked(ResMan_load)
          /\ IF hyperspace
             THEN /\ Hooked(real_script_load_func) /\ real_script_load_func' <= ResMan_load'
                  /\ UNCHANGED lua_reg_table
             ELSE lua_reg_table' = <<lua_reg_table[1], "shim">> /\ UNCHANGED real_script_load_func
    /\ base' = IF app' = "running" THEN mem[HitAt] ELSE NULL
    /\ UNCHANGED <<elfVars, hyperspace, gNoclipBufferedInstruction, gWantsReload, gWasKeyPressedFunc,
                   gZip, readers, ret, touched>>

\* The libraries of a new script, when it is loaded: what the game gives it, and with
\* HYPERSPACE, after Script::load, those of the shim to the script of the main menu.
ScriptLoad(path) ==
    /\ app = "running"
    /\ ret' = <<"script", path, ToSet(lua_reg_table) \cup
                   IF real_script_load_func # NULL /\ path = "menu/main.lua" THEN {"shim"} ELSE {}>>
    /\ UNCHANGED <<elfVars, app, hyperspace, gameVars, base, touched>>

------------------------------------------------------------------------------
imageVars == <<build, lib, caller, pc, error, len, handles, i, opened, ran, heap, app, hyperspace>>
hookVars == <<ResMan_load, real_script_load_func, lua_reg_table>>
playVars == <<gZip, readers>>

\* Noclip: hitSomething returns at once.
NoclipIsOn == gNoclipBufferedInstruction # Ret

\* Mutant: the word is read after it is overwritten.
SwapLosesWord(on) ==
    /\ app = "running"
    /\ mem' = IF NoclipIsOn # on THEN [mem EXCEPT ![HitAt] = gNoclipBufferedInstruction] ELSE mem
    /\ ret' = Nothing /\ UNCHANGED <<touched, gNoclipBufferedInstruction>>
    /\ base' = IF on /\ ~NoclipIsOn THEN mem[HitAt] ELSE base
    /\ UNCHANGED <<imageVars, gWantsReload, gWasKeyPressedFunc, hookVars, playVars>>

knSetNoclip(on) ==
    /\ app = "running"
    /\ IF NoclipIsOn # on
       THEN /\ mem' = [mem EXCEPT ![HitAt] = gNoclipBufferedInstruction]
            /\ gNoclipBufferedInstruction' = mem[HitAt]
       ELSE UNCHANGED <<mem, gNoclipBufferedInstruction>>
    /\ ret' = Nothing /\ UNCHANGED touched
    /\ base' = IF on /\ ~NoclipIsOn THEN mem[HitAt] ELSE base
    /\ UNCHANGED <<imageVars, gWantsReload, gWasKeyPressedFunc, hookVars, playVars>>

\* A script writes the word of hitSomething, or inverts the branch that is there:
\* unconditional instructions are refused.
Write(word) ==
    /\ mem' = [mem EXCEPT ![HitAt] = word]
    /\ touched' = (touched \/ NoclipIsOn \/ word = Ret)
    /\ base' = IF NoclipIsOn THEN base ELSE word
    /\ UNCHANGED <<imageVars, gameVars>>

knPoke(word) == app = "running" /\ Write(word) /\ ret' = Nothing

knInvertBranch ==
    /\ app = "running"
    /\ IF mem[HitAt] \in DOMAIN Opposite /\ build # "i386"
       THEN Write(Opposite[mem[HitAt]]) /\ ret' = <<"knInvertBranch", Hit>>
       ELSE /\ ret' = <<"knInvertBranch", None>>
            /\ UNCHANGED <<elfVars, app, hyperspace, gameVars, base, touched>>

------------------------------------------------------------------------------
noclipVars == <<elfVars, app, hyperspace, gNoclipBufferedInstruction, base, touched, hookVars>>

knReload ==
    /\ app = "running" /\ gWantsReload' = TRUE /\ ret' = Nothing
    /\ UNCHANGED <<noclipVars, gWasKeyPressedFunc, playVars>>

knEnableReloading ==
    /\ app = "running" /\ ret' = Nothing
    /\ IF gWasKeyPressedFunc = NULL THEN Hooked(gWasKeyPressedFunc) ELSE UNCHANGED gWasKeyPressedFunc
    /\ UNCHANGED <<noclipVars, gWantsReload, playVars>>

\* Mutant: the request is taken back by any key.
HookLoses(ch, down) ==
    /\ app = "running"
    /\ LET asked == gWasKeyPressedFunc # NULL /\ gWantsReload
       IN  /\ ret' = <<"wasKeyPressed", ch, (asked /\ ch = "r") \/ down>>
           /\ gWantsReload' = (gWantsReload /\ ~asked)
    /\ UNCHANGED <<noclipVars, gWasKeyPressedFunc, playVars>>

\* The game asks whether a key was pressed: the hook, if it is installed, or the original.
WasKeyPressed(ch, down) ==
    /\ app = "running"
    /\ LET simulated == gWasKeyPressedFunc # NULL /\ gWantsReload /\ ch = "r"
       IN  /\ ret' = <<"wasKeyPressed", ch, simulated \/ down>>
           /\ gWantsReload' = (gWantsReload /\ ~simulated)
    /\ UNCHANGED <<noclipVars, gWasKeyPressedFunc, playVars>>

------------------------------------------------------------------------------
frameVars == <<noclipVars, gWantsReload, gWasKeyPressedFunc>>

\* Mutant: a second zip is mounted over the first.
MountsTwice(zip) ==
    /\ app = "running" /\ hyperspace
    /\ gZip' = zip /\ readers' = readers + 1 /\ ret' = <<"knMountOverlay", TRUE>>
    /\ UNCHANGED <<frameVars>>

\* malloc and mz_zip_reader_init_file can fail.
knMountOverlay(zip) ==
    /\ app = "running" /\ hyperspace
    /\ \/ /\ gZip = None /\ gZip' = zip /\ readers' = readers + 1
          /\ ret' = <<"knMountOverlay", TRUE>>
       \/ /\ UNCHANGED <<gZip, readers>> /\ ret' = <<"knMountOverlay", FALSE>>
    /\ UNCHANGED <<frameVars>>

knUnmountOverlay ==
    /\ app = "running" /\ hyperspace
    /\ ret' = <<"knUnmountOverlay", gZip # None>>
    /\ gZip' = None /\ readers' = IF gZip = None THEN readers ELSE readers - 1
    /\ UNCHANGED <<frameVars>>

\* The names that override an asset: KNResMan_load asks the zip, ResManLoadHook the
\* obfuscated assets, and for the three directories of levels only.
Overriding(path) ==
    IF ResMan_load = NULL THEN {}
    ELSE IF hyperspace THEN (IF gZip = None THEN {} ELSE Zips[gZip])
    ELSE IF path = "levels/a" THEN Obfuscated ELSE {}

\* The path itself, then with the suffix, then ResMan::load of the game.
ResManLoad(path) ==
    /\ app = "running"
    /\ LET names == SelectSeq(<<path, Mp3[path]>>, LAMBDA name : name \in Overriding(path))
       IN  ret' = IF names # << >> THEN <<"load", path, "override", Head(names)>>
                  ELSE IF path \in Assets THEN <<"load", path, "game", path>>
                  ELSE <<"load", path, "none", None>>
    /\ UNCHANGED <<frameVars, gZip, readers>>

\* lua_toboolean pushes nothing: the result is the argument on top of the stack.
knDownloadFile ==
    /\ app = "running"
    /\ \E status \in BOOLEAN : ret' = <<"knDownloadFile", status, "path">>
    /\ UNCHANGED <<frameVars, gZip, readers>>

Script ==
    \/ \E on \in BOOLEAN : knSetNoclip(on)
    \/ \E word \in Pokes : knPoke(word)
    \/ knInvertBranch \/ knReload \/ knEnableReloading
    \/ \E zip \in DOMAIN Zips : knMountOverlay(zip)
    \/ knUnmountOverlay \/ knDownloadFile

Game ==
    \/ \E ch \in {"r", "other"}, down \in BOOLEAN : WasKeyPressed(ch, down)
    \/ \E path \in Paths : ResManLoad(path)
    \/ \E path \in {"menu/main.lua", "level"} : ScriptLoad(path)

Next ==
    \/ app = "boot" /\ ElfNext /\ UNCHANGED shimVars
    \/ AndroidMain \/ Script \/ Game

\* The game asks for the key in every frame.
Spec == Init /\ [][Next]_vars /\ WF_vars(\E down \in BOOLEAN : WasKeyPressed("r", down))

------------------------------------------------------------------------------
\* Whether noclip is on is derived from the buffered word, and that is right as long as no
\* script writes Ret over hitSomething, or another word while noclip is
\* on: the function returns at once exactly if noclip is on, and the word that comes back
\* is the one that was there.
NoclipIsCode ==
    app = "running" /\ ~touched =>
        /\ mem[HitAt] = IF NoclipIsOn THEN Ret ELSE base
        /\ NoclipIsOn => gNoclipBufferedInstruction = base

\* Once the hook is there, a request is not lost: the game is told, once, that the key was
\* pressed, whether it was or not.
Reloads ==
    (gWantsReload /\ gWasKeyPressedFunc # NULL) ~> (ret = <<"wasKeyPressed", "r", TRUE>> /\ ~gWantsReload)

\* There is a zip reader exactly as long as an overlay is mounted.
OverlayOwned == readers = IF gZip = None THEN 0 ELSE 1
==============================================================================
