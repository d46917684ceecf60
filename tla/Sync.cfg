SPECIFICATION SyncSpec
CONSTANTS
    Names = {a, b}
    Hashes = {1, 2}
    Versions = {1, 2}
    Companies = {c1, c2}
    Writers = {w1}
    Ops <- CalledOps
    Faults <- RolledBackFaults
    Backups <- AllBackups
    RestoreFaults <- RestoreCallFaults
    SplitSource = TRUE
    MaxChanges = 3
    MaxFailures = 1
INVARIANTS CopyIsSnapshot SidesAgree SyncDelivers NoOrphanContent
PROPERTIES SyncArrives
CHECK_DEADLOCK TRUE
