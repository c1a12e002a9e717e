SPECIFICATION Spec
CONSTANTS
  Buffers <- MCBuffers
  Header = 3
  File = 4
  Dir = 5
  End = 6
  Magic <- MCMagic
  Location <- MCLocation
  Slash = 9
  PathMax = 5
  WriteFails = TRUE
INVARIANTS
  TypeOK
  ReadsInBounds
  ExtractsMeaning
PROPERTIES
  Ends
CHECK_DEADLOCK FALSE
