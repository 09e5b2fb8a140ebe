CONSTANTS
    r1 = r1
    r2 = r2
    Namespaces = {n1}
    Tokens = {k1, k2}
    Rows <- MCRows
    Inventories <- MCInventories
    Capacity = 1
    Writers = {w1, w2}
    Searchers = {s1}
    Deleters = {w1}
    Faults = {"read", "write", "delete", "pointer_read", "pointer_write", "provider", "interrupt", "crash"}
    None = None
SPECIFICATION Spec
SYMMETRY TokenSymmetry
INVARIANTS ActiveComplete SuccessPublishes QuiescentClean
