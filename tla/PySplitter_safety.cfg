SPECIFICATION Spec
CONSTANTS
    c1 = c1
    c2 = c2
    base = base
    none = none
    Chunk <- MCChunk
    Base <- base
    None <- none
    Path <- MCPath
    RelTag <- MCRelTag
    ValidTag <- MCValidTag
    MaxFields = 3
SYMMETRY ChunkSymmetry
INVARIANTS
    TypeOK
    EntriesResolve
    IdsResolve
    PySplitterInv
PROPERTIES
    ReturnedEntriesStable
    ImplementsStore
