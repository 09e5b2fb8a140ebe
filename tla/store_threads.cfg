CONSTANTS
    r1 = r1
    r2 = r2
    Namespaces = {n1}
    Tokens = {k1, k2}
    Rows <- MCRows
    Inventories <- MCSmallInventories
    Capacity = 1
    Writers = {w1, w2}
    Searchers = {s1, s2}
    Deleters = {w1, w2}
    Faults = {"pointer_write"}
    None = None
SPECIFICATION Spec
SYMMETRY TokenSymmetry
INVARIANTS OneDeleterPerCollection QuiescentTidy NoFalseCorruption RaisingPreservesIndex
PROPERTIES LeasedImmutable ImplementsAtomicIndex
