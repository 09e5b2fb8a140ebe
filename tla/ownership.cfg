CONSTANTS
    Processes = {p1, p2, p3}
    Started = {p1, p2}
    Adapters = {a1, a2, a3}
    Timings = {}
    None = None
SPECIFICATION FairSpec
CHECK_DEADLOCK FALSE
INVARIANTS OwnedExclusively AdaptersShareState FailedTeardownIsFinal ReleasedAtExit ReleasedWhenUnused
PROPERTIES ConstructorsEnd
