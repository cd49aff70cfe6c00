---------------------------- MODULE StreamServers ----------------------------
(***************************************************************************)
(* createStreamServers (nginx/config/stream_servers.go): the NGINX stream  *)
(* servers for the TLS passthrough servers of a dataplane Configuration,  *)
(* one loop iteration per step.  A passthrough server is                  *)
(*   [port, hostname ("" when none), upstream ("" when none)];            *)
(* a stream upstream is [name, endpoints: how many].  An output server is *)
(*   a socket server   [kind |-> "socket", port, host, proxyPass, rewrite]*)
(*     listening on the unix socket getSocketNameTLS(port, host), or      *)
(*   a preread server  [kind |-> "preread", port, host]                   *)
(*     listening on the port, ssl_preread on, passing through the         *)
(*     getTLSPassthroughVarName(port) map.                               *)
(***************************************************************************)
EXTENDS Naturals, Sequences, FiniteSets

CONSTANTS
    ServerInputs,     \* the TLSPassthroughServers sequences to try
    UpstreamInputs,   \* the StreamUpstreams sequences to try
    RewriteModes      \* BaseHTTPConfig.RewriteClientIPSettings.Mode values

VARIABLES
    servers,          \* conf.TLSPassthroughServers
    streamUpstreams,  \* conf.StreamUpstreams
    mode,             \* conf.BaseHTTPConfig.RewriteClientIPSettings.Mode
    pc,               \* "start" | "loop" | "done"
    i,                \* index of the next passthrough server
    upstreams,        \* the name -> upstream map built before the loop
    portSet,          \* ports that already have a preread server
    out               \* streamServers

vars == <<servers, streamUpstreams, mode, pc, i, upstreams, portSet, out>>

\* getRewriteClientIPSettingsForStream: proxy_protocol and set_real_ip_from
\* only in proxy protocol mode.
RewriteClientIPForStream(m) == IF m = "ProxyProtocol" THEN "proxy" ELSE "none"

Init ==
    /\ servers \in ServerInputs
    /\ streamUpstreams \in UpstreamInputs
    /\ mode \in RewriteModes
    /\ pc = "start"
    /\ i = 1
    /\ upstreams = <<>>
    /\ portSet = {}
    /\ out = <<>>

\* The range loop over StreamUpstreams: a later upstream of the same name
\* replaces an earlier one.
UpstreamMap(us) ==
    [n \in {us[k].name : k \in DOMAIN us} |->
        us[CHOOSE k \in DOMAIN us :
              us[k].name = n /\ \A l \in DOMAIN us : us[l].name = n => l <= k]]

\* No passthrough servers: nil; otherwise build the upstream map.
Start ==
    /\ pc = "start"
    /\ IF servers = <<>>
       THEN /\ pc' = "done"
            /\ UNCHANGED upstreams
       ELSE /\ upstreams' = UpstreamMap(streamUpstreams)
            /\ pc' = "loop"
    /\ UNCHANGED <<servers, streamUpstreams, mode, i, portSet, out>>

\* Does server get a socket server: its upstream is known, named, and has
\* endpoints, and it has a hostname.
Routable(ups, server) ==
    /\ server.upstream \in DOMAIN ups
    /\ server.upstream # ""
    /\ server.hostname # ""
    /\ ups[server.upstream].endpoints > 0

SocketServer(server) ==
    [kind |-> "socket", port |-> server.port, host |-> server.hostname,
     proxyPass |-> server.upstream, rewrite |-> RewriteClientIPForStream(mode)]

PrereadServer(server) ==
    [kind |-> "preread", port |-> server.port, host |-> server.hostname]

\* Variant for mutation runs: no portSet, every server gets a preread
\* server on its port.
LoopStepNoPortSet ==
    /\ pc = "loop"
    /\ i <= Len(servers)
    /\ LET server == servers[i] IN
       out' = out \o (IF Routable(upstreams, server)
                      THEN <<SocketServer(server)>> ELSE <<>>)
                  \o <<PrereadServer(server)>>
    /\ i' = i + 1
    /\ UNCHANGED <<servers, streamUpstreams, mode, pc, upstreams, portSet>>

\* Variant for mutation runs: the port check comes first, so a second
\* server on a port gets no socket server.
LoopStepPortFirst ==
    /\ pc = "loop"
    /\ i <= Len(servers)
    /\ LET server == servers[i] IN
       IF server.port \in portSet
       THEN UNCHANGED <<portSet, out>>
       ELSE /\ portSet' = portSet \cup {server.port}
            /\ out' = out \o (IF Routable(upstreams, server)
                              THEN <<SocketServer(server)>> ELSE <<>>)
                          \o <<PrereadServer(server)>>
    /\ i' = i + 1
    /\ UNCHANGED <<servers, streamUpstreams, mode, pc, upstreams>>

\* One iteration: the socket server when routable, then the preread server
\* unless the port already has one.
LoopStep ==
    /\ pc = "loop"
    /\ i <= Len(servers)
    /\ LET server == servers[i]
           sock   == IF Routable(upstreams, server)
                     THEN <<SocketServer(server)>> ELSE <<>>
       IN
       IF server.port \in portSet
       THEN /\ out' = out \o sock
            /\ UNCHANGED portSet
       ELSE /\ portSet' = portSet \cup {server.port}
            /\ out' = out \o sock \o <<PrereadServer(server)>>
    /\ i' = i + 1
    /\ UNCHANGED <<servers, streamUpstreams, mode, pc, upstreams>>

LoopEnd ==
    /\ pc = "loop"
    /\ i > Len(servers)
    /\ pc' = "done"
    /\ UNCHANGED <<servers, streamUpstreams, mode, i, upstreams, portSet, out>>

Next == Start \/ LoopStep \/ LoopEnd

Spec == Init /\ [][Next]_vars

-----------------------------------------------------------------------------
(***************************************************************************)
(* Reference definitions, stated over the whole input instead of the loop *)
(* state.                                                                 *)
(***************************************************************************)
InputPorts == {servers[k].port : k \in DOMAIN servers}

\* The upstream of name n that the configuration uses: the last one so
\* named in StreamUpstreams.
UsedUpstream(n, k) ==
    /\ streamUpstreams[k].name = n
    /\ \A l \in DOMAIN streamUpstreams : l > k => streamUpstreams[l].name # n

ShouldHaveSocket(server) ==
    /\ server.hostname # "" /\ server.upstream # ""
    /\ \E k \in DOMAIN streamUpstreams :
          UsedUpstream(server.upstream, k) /\ streamUpstreams[k].endpoints > 0

FirstOnPort(k) == \A l \in 1..(k - 1) : servers[l].port # servers[k].port

OutOfKind(kd) == {out[k] : k \in {x \in DOMAIN out : out[x].kind = kd}}
CountOfKind(kd) == Cardinality({k \in DOMAIN out : out[k].kind = kd})

(***************************************************************************)
(* PrereadPerPort: when createStreamServers returns, every port of a      *)
(* passthrough server has exactly one ssl_preread server, named after the *)
(* first passthrough server on that port, and no other port has one: two  *)
(* listen directives on one port would make NGINX reject the config.      *)
(***************************************************************************)
PrereadPerPort ==
    pc = "done" =>
        /\ CountOfKind("preread") = Cardinality(InputPorts)
        /\ OutOfKind("preread") =
             {PrereadServer(servers[k]) : k \in {x \in DOMAIN servers : FirstOnPort(x)}}

(***************************************************************************)
(* SocketPerRoutableServer: when createStreamServers returns, there is    *)
(* one socket server for every passthrough server with a hostname whose   *)
(* upstream (the last StreamUpstream of that name) has endpoints, also    *)
(* for the second and later servers on a port, and no other.              *)
(***************************************************************************)
SocketPerRoutableServer ==
    pc = "done" =>
        /\ CountOfKind("socket") =
             Cardinality({k \in DOMAIN servers : ShouldHaveSocket(servers[k])})
        /\ OutOfKind("socket") =
             {SocketServer(servers[k]) :
                 k \in {x \in DOMAIN servers : ShouldHaveSocket(servers[x])}}


=============================================================================
