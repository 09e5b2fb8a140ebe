CONSTANTS
    Names = {A, B}
    None = None
    Nobody = Nobody
    Length = 1
    Narrow = 1
    MaxSymbols = 0
    MaxNodes = 4
    Files <- AllFiles
    Trees <- AllTrees
SPECIFICATION StructureSpec
CHECK_DEADLOCK FALSE
INVARIANT EveryConstantIsSelected
