CONSTANTS
    Identities = {"m1", "m2"}
    Versions = {"v1", "v2"}
    Ids = {1, 2, 3}
    Texts = {"x", "y"}
    Inventories <- MCInventories
    Capacity = 2
    MaxAttempts = 2
    MaxCalls = 5
    Faults = {"read", "write", "transient", "permanent", "response", "publish"}
    None = None
SPECIFICATION Spec
INVARIANTS CallsAreBounded VectorsAreCurrent IndexIsInventory CountersAreTrue AnswersAreComparable
