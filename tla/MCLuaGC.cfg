SPECIFICATION Spec
CONSTANTS
  Kind <- MCKind
  Main = "M"
  Globals = "G"
  Slots <- MCSlots
  Pools <- MCPools
INVARIANTS LiveNotDead NoBlackToWhite Collected
PROPERTY CyclesEnd
