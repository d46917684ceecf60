SPECIFICATION Spec
CONSTANTS
    Names = {a, b}
    Hashes = {1, 2}
    Versions = {1, 2, 3}
    Companies = {c1}
    Writers = {w1}
    Ops <- GrowingOps
    Faults <- NoFaults
INVARIANT ProviderReadsVersion
CHECK_DEADLOCK TRUE
