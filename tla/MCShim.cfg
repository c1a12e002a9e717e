SPECIFICATION Spec
CONSTANTS
  Files <- MCFiles
  Libs <- MCLibs
  Provides <- MCProvides
  Base = 100
  Stub = 700
  MapFails = TRUE
  ReadFails = TRUE
  Ret = 999
  Opposite <- MCOpposite
  Pokes = {999}
  Zips <- MCZips
  Obfuscated <- MCObfuscated
  Assets <- MCAssets
INVARIANTS
  InitSeesImage
  FreedMeansUndone
  NoclipIsCode
  OverlayOwned
PROPERTIES
  Reloads
CHECK_DEADLOCK FALSE
