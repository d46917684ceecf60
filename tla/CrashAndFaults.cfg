SPECIFICATION Spec
CONSTANTS
    Names = {a, b}
    Hashes = {h1, h2}
    Versions = {1, 2, 3}
    Companies = {c1, c2}
    Writers = {w1}
    Ops <- AllOps
    Faults <- SurvivableFaults
SYMMETRY FileSymmetry
INVARIANTS TypeOK ContentPresent
CHECK_DEADLOCK TRUE
