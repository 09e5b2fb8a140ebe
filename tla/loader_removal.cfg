CONSTANTS
    Repositories = {"r1"}
    Initial = {"absent"}
    Scenarios <- MCRemoval
SPECIFICATION Spec
PROPERTIES LoadedIsKept
