SPECIFICATION HistorySpec
CONSTANTS
    h1 = h1
    h2 = h2
    b1 = b1
    b2 = b2
    Handler = {h1, h2}
    Body = {b1, b2}
    NoBody = NoBody
    NoHandler = NoHandler
    Window = 2
    Limit = 2
    ThetaOff = 1
    MaxSurprise = 2
SYMMETRY Symmetry
INVARIANTS
    SessionSerialised
    ForwardedWithinThreshold
    ReplyIsForOwnBody
    LogAgreesWithReply
    ReplaysBounded
PROPERTIES
    BypassOnlyWhenSpent
