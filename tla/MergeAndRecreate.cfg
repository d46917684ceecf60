SPECIFICATION AtomicSpec
CONSTANTS
    c1 = c1
    c2 = c2
    Names = {a}
    Hashes = {h1, h2}
    Versions = {1, 2, 3}
    Companies = {c1, c2}
    Writers = {w1}
    Ops <- AllOps
    Faults <- RolledBackFaults
    Backups <- AllBackups
    RestoreFaults <- RestoreCallFaults
INVARIANT NoOrphanContent
PROPERTIES ActsAtomically RestoredAsAWhole MergeKeepsVersions
CHECK_DEADLOCK TRUE
