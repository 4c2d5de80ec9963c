SPECIFICATION Spec
CONSTANTS
    Row = {r1, r2, r3}
    Thread = {t1, t2}
    Intent = {safe, exfil}
    Initial = safe
    Faults = TRUE
    MaxLosses = 1
    Nil = Nil
SYMMETRY Symmetry
INVARIANTS
    BeliefsKeepAll
    MatricesArrive
    IntentMatches
\* Every row may be dealt with, and then nothing is left to do.
CHECK_DEADLOCK FALSE
