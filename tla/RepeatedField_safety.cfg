SPECIFICATION SplitMergeSpec
CONSTANTS
    none = none
    None <- none
    Inputs <- MCInputs
    Factories = 1
    MaxSize = 4
    ExtraBytes = 1
    EncodingBytes <- MCEncodingBytes
    IntBits = 3
    MaxTries = 2
    Chunk = {0, 1, 2, 3, 4, 5, 6, 7, 8, 9, 10, 11}
INVARIANTS
    TypeOK
    ElementsInOrder
    AllOrNothing
    SlicesFit
    OnlyFirstEmpty
    Greedy
    RepeatedFieldInv
    MergedBack
CHECK_DEADLOCK FALSE
