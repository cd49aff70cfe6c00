CONSTANTS
    Methods = {"GET", "POST"}
    BodyChunks = 2
SPECIFICATION Spec
INVARIANT
    GetReturnsWholeBody
PROPERTY
    RequestsReturn
CHECK_DEADLOCK FALSE
