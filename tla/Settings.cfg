SPECIFICATION FairSpec
CONSTANTS
    Handler = {h1, h2}
    Secret = {k1}
    Mask = Mask
    Url = {u1, u2}
    Override = u2
    Session = {s1}
    Theta = {2, 3}
    Standard = 3
    Policy = {good, other}
    Valid = {good, other}
    None = None
    Empty = Empty
    MaxSaves = 2
    MaxCrashes = 1
INVARIANTS
    ConfigAgrees
    ZeroNeedsRace
    LossNeedsCut
    PolicyAgrees
PROPERTIES
    FileRestored
CHECK_DEADLOCK FALSE
