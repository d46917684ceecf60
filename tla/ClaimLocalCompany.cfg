SPECIFICATION AtomicSpec
CONSTANTS
    c1 = c1
    c2 = c2
    Names = {a}
    Hashes = {h1, h2}
    Versions = {1, 2}
    Companies = {c1, c2}
    Writers = {w1}
    Ops <- AddOps
    Backups <- NoBackups
    Faults <- NotifyFaults
PROPERTIES FailedAddKeepsCompany
CHECK_DEADLOCK TRUE
