\* A method without a result: FakeGroupUpdater.UpdateGroup.
CONSTANTS
    Callers = {c1, c2}
    Vals = {nilErr, someErr}
    ZeroVal = nilErr
    Stubs = {s1, s2}
    NoStub = NoStub
    Pending = Pending
    NoOne = NoOne
    VoidMethod = TRUE
    MaxConfig = 2
    MaxObserve = 2
SPECIFICATION FairSpec
PROPERTY
    ImplementsAtomicFake
CHECK_DEADLOCK FALSE
