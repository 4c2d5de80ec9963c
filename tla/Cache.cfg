SPECIFICATION Spec
CONSTANTS
    Request = {r1, r2}
    Reload = {l1, l2}
    Save = {s1}
    Reset = {}
    Seed = Seed
    Nil = Nil
    Resident = TRUE
    Faults = FALSE
    QueueSize = 3
INVARIANTS
    TypeOK
    MatricesCurrent
    ResidentKeepsAll
    CopiesBehindCache
