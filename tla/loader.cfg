CONSTANTS
    Repositories = {"r1", "r2"}
    Initial = {"absent", "empty", "foreign", "complete"}
    Scenarios <- MCScenarios
SPECIFICATION FairSpec
INVARIANTS FailureLeavesNothing
PROPERTIES PreexistingIsKept LoadedStaysComplete LoadsEnd
