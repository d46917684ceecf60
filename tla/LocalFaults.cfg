SPECIFICATION AtomicSpec
CONSTANTS
    c1 = c1
    c2 = c2
    Names = {a, b}
    Hashes = {h1}
    Versions = {1, 2}
    Companies = {c1}
    Writers = {w1}
    Ops <- AllOps
    Backups <- OwnBackups
    Faults <- AllFaults
SYMMETRY NameSymmetry
INVARIANTS TypeOK ListedComplete
PROPERTIES KeepsOtherVersions
CHECK_DEADLOCK TRUE
