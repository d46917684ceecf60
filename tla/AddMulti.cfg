SPECIFICATION MultiSpec
CONSTANTS
    d1 = d1
    d2 = d2
    Docs = {d1, d2}
    Versions = {1, 2, 3}
    Callers = {w1, w2}
    DocLists <- AllLists
    Faults <- AllFaults
PROPERTIES AllOrNothing RollbackTakesOwnVersions CallsWindDown MultiReturns
CHECK_DEADLOCK TRUE
