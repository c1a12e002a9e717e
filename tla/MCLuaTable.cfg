SPECIFICATION Spec
CONSTANTS
  Keys <- MCKeys
  HashOf <- MCHash
  MaxArray = 1
INVARIANT LengthIsBorder
PROPERTIES IsADictionary SizesAreBest
