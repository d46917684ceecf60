SPECIFICATION Spec
CONSTANTS
    Names = {a, b}
    Hashes = {1, 2}
    Versions = {1, 2, 3}
    Companies = {c1}
    Writers = {w1, w2}
    Ops <- GrowingOps
    Faults <- PutFaults
INVARIANT NoVersionLacksContent
CHECK_DEADLOCK TRUE
