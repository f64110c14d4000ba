SPECIFICATION Spec
CONSTANTS
    none = none
    None <- none
    Field <- MCField
    Kind <- MCKind
    Key <- MCKey
    Chunk <- MCChunk
    Contents <- MCContents
    Inputs <- MCInputs
    Records <- MCRecords
INVARIANTS
    TypeOK
    EveryChunkOnce
    NoChunkMissingFromOK
    OuterFirst
    SameFieldInOrder
    EarlierChunksFirst
    DenseReadSurvives
    ComparatorIsStrictWeak
    MergerInv
CHECK_DEADLOCK FALSE
