CONSTANTS
    Unset = Unset
    Policies = {"p1", "p2", "p3"}
    Rank <- MCRank
    PolicyInputs <- MCPolicyInputs
    Gateways = {"g1", "g2", "g3"}
    GatewayValid <- MCGatewayValid
    RefServices = {"s1", "s2"}
    GatewaysOf <- MCGatewaysOf
    Routes = {"r1", "r2", "r3", "r4"}
    RouteOK <- MCRouteOK
    RouteParents <- MCRouteParents
    Telemetry <- MCTelemetry
    RouteLocations <- MCRouteLocations
    MaxAncestors = 16
SPECIFICATION Spec
INVARIANT
    AttachOrderIndependent
CHECK_DEADLOCK FALSE
