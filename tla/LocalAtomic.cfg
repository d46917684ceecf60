SPECIFICATION AtomicSpec
CONSTANTS
    c1 = c1
    c2 = c2
    Names = {a}
    Hashes = {h1, h2}
    Versions = {1, 2}
    Companies = {c1, c2}
    Writers = {w1, w2}
    Ops <- VersionOps
    Backups <- AllBackups
    Faults <- WriteFaults
SYMMETRY WriterSymmetry
INVARIANTS NoStrayMarkers
PROPERTIES ActsAtomically
CHECK_DEADLOCK TRUE
