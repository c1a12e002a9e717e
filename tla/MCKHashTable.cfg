SPECIFICATION Spec
CONSTANTS
    Keys = {"a", "b", "h", "i"}
    Values = {v1}
    NoBlob = NoBlob
    Hash <- HashMixed
    InitialSize = 2
    HashEmpty = 255
    MaxAlloced = 8
    ResizeFails = TRUE
    MaxBlobs = 6
VIEW WithoutRet
INVARIANTS IndexSound SlotLeft NoStalePairCopied
PROPERTIES BlobsOwned ImplementsKDict
