SPECIFICATION FairMetricsSpec
CONSTANTS
    Transaction = {t1, t2, t3}
    Blocked = {t1, t2}
    Worker = {w1, w2}
    Faults = TRUE
    MaxResets = 1
    NoTransaction = NoTransaction
INVARIANTS
    CountedOnce
    BlocksAreRequests
PROPERTIES
    CountsArrive
