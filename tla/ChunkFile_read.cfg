SPECIFICATION Spec
CONSTANTS
    whole = whole
    two = two
    three = three
    none = none
    None <- none
    Version <- MCVersion
    Chunks <- MCChunks
    MaxWrites = 3
INVARIANT
    ReadReturnsLastWritten
