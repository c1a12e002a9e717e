SPECIFICATION Spec
CONSTANTS
    Functions <- MCFunctions
    Hook <- MCHook
    Programs <- MCPrograms
    FnSize <- MCFnSize
    RwxSize <- MCRwxSize
    StreamMax <- MCStreamMax
    MapFails = TRUE
INVARIANTS TypeOK OrigKeepsMeaning HooksReachOriginal NeverOverruns
CHECK_DEADLOCK FALSE
