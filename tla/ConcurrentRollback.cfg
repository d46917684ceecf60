SPECIFICATION Spec
CONSTANTS
    Names = {a}
    Hashes = {h1, h2}
    Versions = {1, 2, 3}
    Companies = {c1}
    Writers = {w1, w2}
    Ops <- GrowingOps
    Faults <- AllFaults
SYMMETRY WriterSymmetry
INVARIANTS TableConsistent
PROPERTIES RollbackTakesOwnRow ContentArrives
CHECK_DEADLOCK TRUE
