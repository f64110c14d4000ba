SPECIFICATION Spec
CONSTANTS
    none = none
    None <- none
    Field <- MCField
    Kind <- MCKind
    Key <- MCKey
    Chunk <- MCChunk
    Contents <- MCContents
    Inputs <- MCInputs
    Records <- MCRecords
INVARIANT
    SortedByDepth
CHECK_DEADLOCK FALSE
