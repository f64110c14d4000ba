SPECIFICATION Spec
CONSTANTS
    none = none
    None <- none
    IntBits = 4
    LongBits = 6
    Kind <- MCKind
    Name <- MCName
    KeyTypes <- MCKeyTypes
    CppPaths <- MCCppPaths
    PyPaths <- MCPyPaths
    Sizes = {0, 2}
    SampleKeys <- MCSampleKeys
INVARIANTS
    FieldTagsInv
    LeadsBack
    
    SameTag
    FoundIsTagged
CHECK_DEADLOCK FALSE
