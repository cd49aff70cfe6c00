CONSTANTS
    Methods = {"GET", "POST"}
    BodyChunks = 2
SPECIFICATION Spec
INVARIANT
    NoCancelBeforeRead
CHECK_DEADLOCK FALSE
