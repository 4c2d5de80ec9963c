SPECIFICATION Spec
CONSTANTS
    Request = {r1}
    Reload = {l1}
    Save = {}
    Reset = {x1}
    Seed = Seed
    Nil = Nil
    Resident = FALSE
    Faults = TRUE
    QueueSize = 1
PROPERTIES
    EverythingFinishes
