SPECIFICATION Spec
CONSTANTS
  String1 = String1
  Number1 = Number1
  String2 = String2
  StringEmpty = StringEmpty
  Table = Table
  One = One
  Two = Two
  EmptyBlob = EmptyBlob
  NoBlob = NoBlob
  Nil = Nil
  Idle = Idle
  LuaValues <- MCLuaValues
  ToString <- MCToString
  RegKeys <- TwoKeys
  RegValues <- OneString
  DbKeys <- TwoKeys
  DbValues <- WithEmpty
  TableFails = TRUE
  OpenFails = TRUE
  WriteFails = TRUE
  CloseFails = FALSE
  RenameFails = TRUE
  ReadFails = FALSE
INVARIANTS
  MainFileExact
PROPERTIES
  ImplementsDurableStore
