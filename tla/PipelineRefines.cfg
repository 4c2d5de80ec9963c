SPECIFICATION Spec
CONSTANTS
    h1 = h1
    h2 = h2
    b1 = b1
    b2 = b2
    Handler = {h1, h2}
    Body = {b1, b2}
    NoBody = NoBody
    NoHandler = NoHandler
    Window = 1
    Limit = 1
    ThetaOff = 1
    MaxSurprise = 1
PROPERTIES
    ServesSerially
    EveryRequestAnswered
