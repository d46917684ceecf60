SPECIFICATION SyncSpec
CONSTANTS
    Names = {a}
    Hashes = {1, 2}
    Versions = {1, 2}
    Companies = {c1}
    Writers = {w1}
    Ops <- CalledOps
    Faults <- DeleteFaults
    Backups <- AllBackups
    RestoreFaults <- NoFaults
    SplitSource = FALSE
    MaxChanges = 1
    MaxFailures = 1
PROPERTIES SyncArrives
CHECK_DEADLOCK TRUE
