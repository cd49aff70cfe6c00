CONSTANTS
    NoObj = NoObj
    NoLabel = NoLabel
    NoGraph = NoGraph
    GatewayClassKey = "gc"
    CRDKey = "crd"
    GatewayKey = "gw"
    Routes = {"r1"}
    Services = {"sa", "sb"}
    Secrets = {}
    Slices = {"e1"}
    GrantKeys = {"gb"}
    NsKeys = {"a"}
    HomeNs = "a"
    NsOf <- MCNsOf
    SupportedVersion = "v1"
    ValsOf <- MCValsOfBackends
    SliceRelabel = FALSE

SPECIFICATION Spec
INVARIANT GraphFresh
