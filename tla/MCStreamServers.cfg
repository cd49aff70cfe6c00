CONSTANTS
    ServerInputs <- MCServerInputs
    UpstreamInputs <- MCUpstreamInputs
    RewriteModes = {"ProxyProtocol", "XForwardedFor"}
SPECIFICATION Spec
INVARIANTS
    PrereadPerPort
    SocketPerRoutableServer
CHECK_DEADLOCK FALSE
