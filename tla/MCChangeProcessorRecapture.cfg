CONSTANTS
    NoObj = NoObj
    NoLabel = NoLabel
    NoGraph = NoGraph
    GatewayClassKey = "gc"
    CRDKey = "crd"
    GatewayKey = "gw"
    Routes = {"r1"}
    Services = {"sa"}
    Secrets = {"kb"}
    Slices = {}
    GrantKeys = {"gb"}
    NsKeys = {"a", "b"}
    HomeNs = "a"
    NsOf <- MCNsOf
    SupportedVersion = "v1"
    ValsOf <- MCValsOfListener
    SliceRelabel = FALSE

SPECIFICATION Spec
PROPERTY NoopCaptureIsIgnored
