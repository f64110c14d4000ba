SPECIFICATION Spec
CONSTANTS
    c1 = c1
    c2 = c2
    c3 = c3
    root = root
    kid = kid
    grandkid = grandkid
    base = base
    none = none
    Chunk <- MCChunk
    Base <- base
    None <- none
    Root <- root
    Child <- MCChild
    Parent <- MCParent
    FieldsInParent <- MCFieldsInParent
    Path <- MCPath
    RelTag <- MCRelTag
    ValidTag <- MCValidTag
    MaxFields = 3
SYMMETRY ChunkSymmetry
INVARIANTS
    TypeOK
    EntriesResolve
    BaseResolves
    TagsAreAbsolute
    NoChunkWithoutEntry
    SplitterInv
PROPERTIES
    ImplementsStore
    ReturnedEntriesStable
