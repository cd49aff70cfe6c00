\* A method with a result: FakeProvisioner.RegisterGateway, FakeReader.Get.
CONSTANTS
    Callers = {c1, c2}
    Vals = {nilErr, someErr}
    ZeroVal = nilErr
    Stubs = {s1}
    NoStub = NoStub
    Pending = Pending
    NoOne = NoOne
    VoidMethod = FALSE
    MaxConfig = 2
    MaxObserve = 2
SPECIFICATION FairSpec
INVARIANT
    ArgsIndexConsistent
PROPERTIES
    ImplementsAtomicFake
    CallsComplete
CHECK_DEADLOCK FALSE
