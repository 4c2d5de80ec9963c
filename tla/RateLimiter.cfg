SPECIFICATION LimiterSpec
CONSTANTS
    Header = {k1, k2}
    Entry = {e1, e2, e3, e4, e5, e6}
    Window = 2
    Limit = 3
SYMMETRY Symmetry
INVARIANTS
    AdmissionsBounded
PROPERTIES
    RefusedOnlyUnderFlood
