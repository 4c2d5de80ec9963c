SPECIFICATION Spec
CONSTANTS
    Row = {r1, r2, r3}
    Sim = {r1}
    Mine = {r2}
    Worker = {w1}
    QueueSize = 1
    MaxEntries = 2
    MaxRows = 1
    Lossy = {r2}
    Often = FALSE
    Faults = TRUE
    Nil = Nil
INVARIANTS
    TypeOK
    PurgeKeepsOrder
    LoggedOnce
    OldRowsStayAway
