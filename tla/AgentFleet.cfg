SPECIFICATION Spec
CONSTANTS
    Key = {k1, k2}
    Registered = {k1}
    Outsider = {c1}
    Loop = {l1, l2}
    Nil = Nil
INVARIANTS
    RunningLoopsAreKnown
PROPERTIES
    RevokedStayOut
    StoppedLoopsEnd
