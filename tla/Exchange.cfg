SPECIFICATION Spec
CONSTANTS
    a = a
    b = b
    None = None
    Datum <- MCDatum
    Bodies <- MCBodies
    MaxParts = 2
INVARIANTS
    DataStayIn
    OwnValuesBack
    AnswerArrives
    BadOnlyByRedaction
    BlockExplained
    NumberedInPasses
