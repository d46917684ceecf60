SPECIFICATION RestoreSpec
CONSTANTS
    c1 = c1
    Names = {a}
    Hashes = {h1, h2}
    Versions = {1, 2}
    Companies = {c1}
    Writers = {w1, w2}
    Ops <- VersionOps
    Faults <- AnyFault
    Backups <- FullBackups
    RestoreFaults <- AnyRestoreFault
SYMMETRY RaceSymmetry
INVARIANTS TableConsistent
PROPERTIES VersionsImmutable
CHECK_DEADLOCK TRUE
