CONSTANTS
    Names = {A, B}
    None = None
    Nobody = Nobody
    Length = 4
    Narrow = 3
    MaxSymbols = 3
    MaxNodes = 6
    Files <- AllFiles
    Trees <- AllTrees
SPECIFICATION StructureSpec
CHECK_DEADLOCK FALSE
INVARIANTS RefusesExactlyNonForests CandidatesPartition OwnersAreInnermost PartialContextIsSafe OwnersAreLexical SymbolsAreLexical RefusedForConstantsOnly
