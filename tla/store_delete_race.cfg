CONSTANTS
    r1 = r1
    r2 = r2
    Namespaces = {n1}
    Tokens = {k1, k2}
    Rows <- MCRows
    Inventories <- MCSmallInventories
    Capacity = 1
    Writers = {w1}
    Searchers = {s1}
    Deleters = {w1}
    Faults = {}
    None = None
SPECIFICATION Spec
INVARIANTS DeleteSucceedsOrIsBusy
