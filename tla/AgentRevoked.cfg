SPECIFICATION Spec
CONSTANTS
    Key = {k1}
    Registered = {k1}
    Outsider = {c1}
    Loop = {}
    Nil = Nil
PROPERTIES
    RevokedBlocked
