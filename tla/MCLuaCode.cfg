SPECIFICATION Spec
CONSTANTS
  MaxIndexRK = 3
  MaxStack = 20
  FieldsPerFlush = 2
  MaxVars = 10
  MaxUpvalues = 4
  MaxCCalls = 10
  StackSize = 40
  Programs <- MCSources
  TokensOf <- MCTokens
  Globals <- MCGlobals
INVARIANTS CodeIsSound MeansWhatItSays
PROPERTY Finishes
