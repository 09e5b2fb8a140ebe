CONSTANTS
    here = here
    lib = lib
    root = root
    there = there
    good = good
    partial = partial
    hollow = hollow
    raising = raising
    uncut = uncut
    latin = latin
    binary = binary
    long = long
    huge = huge
    Languages = {"python"}
    LanguageOf <- Python
    Size <- SizeOf
    Binary <- BinaryOf
    Text <- TextOf
    Parse <- ParseOf
    Cut <- CutOf
    Limit = 2
    None = None
    Paths = {here, there}
    Class <- Mixed
    Directory <- InLibrary
    Root = root
    Nodes = {n1, n2}
    Contents = {partial, raising, uncut, binary, huge}
    MaxEdits = 2
SPECIFICATION Spec
SYMMETRY NodeSymmetry
INVARIANTS ChunksComeFromParse FailuresAreEarned ChangesAreReal
PROPERTIES ScansAreComplete
