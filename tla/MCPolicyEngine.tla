--------------------------- MODULE MCPolicyEngine ---------------------------
(***************************************************************************)
(* Three policies, each an UpstreamSettingsPolicy or a policy of the     *)
(* Gateway and route kind.  Service s1 is in the GatewayNsNames of two    *)
(* valid Gateways; s2 of a valid one, an invalid one and one that is not  *)
(* in the graph.  Routes r1 and r2 share location l1; r2 and r3 have a    *)
(* parent without telemetry (g2), r3 no other; r4 is not attachable.  A   *)
(* Gateway target is the valid g1, the missing gx or the invalid g3.      *)
(* Policies may carry no foreign ancestors or one short of the cap.  An   *)
(* upstream spec sets zoneSize, keepAlive timeout or both, so conflict is *)
(* not transitive and the precedence order of the pairs is observable.    *)
(***************************************************************************)
EXTENDS PolicyEngine

SvcRef(g, n) == [group |-> g, kind |-> "Service", name |-> n]

MCRefChoices ==
    { << SvcRef("", "s1") >>,
      << SvcRef("core", "s1"), SvcRef("", "s2") >>,
      << [group |-> "gateway.networking.k8s.io", kind |-> "Gateway",
          name |-> "s1"] >> }

KA(c, r, t, to) == [connections |-> c, requests |-> r, time |-> t, timeout |-> to]

MCSpecChoices ==
    { [zoneSize |-> "ok",  keepAlive |-> Unset],
      [zoneSize |-> "bad", keepAlive |-> Unset],
      [zoneSize |-> "ok",  keepAlive |-> KA(Unset, Unset, Unset, "ok")],
      [zoneSize |-> Unset, keepAlive |-> KA(Unset, Unset, Unset, "ok")] }

HRef(n) == [group |-> GatewayAPIGroup, kind |-> "HTTPRoute", name |-> n]
GRef(n) == [group |-> GatewayAPIGroup, kind |-> "GRPCRoute", name |-> n]

GwRef(n) == [group |-> GatewayAPIGroup, kind |-> "Gateway", name |-> n]

MCRouteRefChoices ==
    { << HRef("r1") >>,
      << HRef("r1"), HRef("r2"), GwRef("g1") >>,
      << GRef("r3"), HRef("r4"), GwRef("gx"), GwRef("g3") >> }

MCPolicyInputs ==
    [kind : {USPKind}, refs : MCRefChoices, spec : MCSpecChoices,
     foreign : {0, 15}]
    \cup
    [kind : {RouteKind}, refs : MCRouteRefChoices, spec : {"tracing", "plain"},
     foreign : {0, 15}]

MCRank == [p \in {"p1", "p2", "p3"} |->
             CASE p = "p1" -> 1 [] p = "p2" -> 2 [] p = "p3" -> 3]

MCGatewayValid == [g \in {"g1", "g2", "g3"} |-> g # "g3"]

MCGatewaysOf == [s \in {"s1", "s2"} |->
                   IF s = "s1" THEN {"g1", "g2"} ELSE {"g2", "g3", "gx"}]

MCRouteOK == [r \in {"r1", "r2", "r3", "r4"} |-> r # "r4"]

MCRouteParents == [r \in {"r1", "r2", "r3", "r4"} |->
                     CASE r = "r1" -> {"g1"} [] r = "r2" -> {"g1", "g2"}
                       [] r = "r3" -> {"g2"} [] r = "r4" -> {"g1"}]

MCTelemetry == [g \in {"g1", "g2", "g3"} |-> g = "g1"]

MCRouteLocations == [r \in {"r1", "r2", "r3", "r4"} |->
                       IF r \in {"r1", "r2"} THEN {"l1"} ELSE {"l2"}]

=============================================================================
