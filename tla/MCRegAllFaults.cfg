SPECIFICATION Spec
CONSTANTS
  String1 = String1
  Number1 = Number1
  String2 = String2
  StringEmpty = StringEmpty
  Table = Table
  One = One
  Two = Two
  EmptyBlob = EmptyBlob
  NoBlob = NoBlob
  Nil = Nil
  Idle = Idle
  LuaValues <- MCLuaValues
  ToString <- MCToString
  RegKeys <- NoValues
  RegValues <- NoValues
  DbKeys <- TwoKeys
  DbValues <- WithEmpty
  TableFails = TRUE
  OpenFails = TRUE
  WriteFails = TRUE
  CloseFails = TRUE
  RenameFails = TRUE
  ReadFails = TRUE
PROPERTIES
  ReportsAreTrue
