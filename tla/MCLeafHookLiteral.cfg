SPECIFICATION Spec
CONSTANTS
    Functions <- MCFunctions
    Hook <- MCHook
    Programs <- MCPrograms
    FnSize <- MCFnSize
    RwxSize <- MCRwxSize
    StreamMax <- MCStreamMax
    MapFails = TRUE
INVARIANTS LiteralsKept
CHECK_DEADLOCK FALSE
