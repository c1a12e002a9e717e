SPECIFICATION Spec
CONSTANTS
  Handles = {h1, h2}
  Descriptors = {3, 4}
  Codes <- MCCodes
  HeaderSegments = 2
  Segments = 3
  SizeModulus = 256
  NoSocket = NoSocket
  EarlyClose = TRUE
  PartialSend = TRUE
  StaleHeap = TRUE
INVARIANTS
  DescriptorsOwned
  DoneMeansAll
PROPERTIES
  
  EventuallyFinishes
CHECK_DEADLOCK FALSE
