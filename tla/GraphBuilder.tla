---------------------------- MODULE GraphBuilder ----------------------------
(***************************************************************************)
(* The graph builder (spec 4.5) with the reference resolver (4.3) and the  *)
(* route attacher (4.4) folded in, as a pure function from the object      *)
(* store to a graph snapshot.  The store is a function from object keys    *)
(* to the latest observed object, NoObj for an absent one.  Objects are    *)
(* abstracted to the fields the graph reads:                               *)
(*   GatewayClass  "ours" | "other"  (controller name matches or not)      *)
(*   CRD           bundle version, SupportedVersion or another             *)
(*   Gateway       [secret |-> TLS certificate ref or NoObj,               *)
(*                  sel    |-> listener uses a namespace selector]         *)
(*   Route         [svc |-> the Service its backendRef names]              *)
(*   Service, Secret   an opaque content version                           *)
(*   EndpointSlice [svc |-> kubernetes.io/service-name label or NoLabel]   *)
(*   ReferenceGrant [from |-> source kind, to |-> target kind]; it lives   *)
(*                  in NsOf[g] and permits references from HomeNs          *)
(*   Namespace     "match" | "nomatch" (labels vs the listener selector)   *)
(* The Gateway and every Route live in HomeNs; the route's parentRef names *)
(* the Gateway.                                                            *)
(***************************************************************************)
CONSTANTS
    NoObj,            \* absent object / cleared reference
    NoLabel,          \* EndpointSlice without the service-name label
    GatewayClassKey,
    CRDKey,
    GatewayKey,
    Routes,           \* route keys
    Services,         \* service keys
    Secrets,          \* secret keys
    Slices,           \* endpoint slice keys
    GrantKeys,        \* reference grant keys
    NsKeys,           \* namespace keys (= namespace names)
    HomeNs,           \* namespace of the Gateway and the Routes
    NsOf,             \* namespace of every Service, Secret and ReferenceGrant
    SupportedVersion  \* bundle version compiled into the controller

ObjKeys == {GatewayClassKey, CRDKey, GatewayKey}
             \cup Routes \cup Services \cup Secrets \cup Slices
             \cup GrantKeys \cup NsKeys

Exists(st, k) == st[k] # NoObj

(***************************************************************************)
(* Reference resolver: a same-namespace reference is always permitted; a  *)
(* cross-namespace one needs a ReferenceGrant in the target namespace     *)
(* whose From kind and To kind both match.                                *)
(***************************************************************************)
RefPermitted(st, fromKind, toKind, target) ==
    \/ NsOf[target] = HomeNs
    \/ \E g \in GrantKeys :
          /\ Exists(st, g)
          /\ NsOf[g] = NsOf[target]
          /\ st[g].from = fromKind
          /\ st[g].to = toKind

GatewayClassValid(st) == st[GatewayClassKey] = "ours"

\* The Gateway has effective listeners only when its class is ours.
HasListeners(st) == Exists(st, GatewayKey) /\ GatewayClassValid(st)

ListenerSecret(st) ==
    IF HasListeners(st) THEN st[GatewayKey].secret ELSE NoObj

ListenerSecretPermitted(st) ==
    /\ ListenerSecret(st) # NoObj
    /\ RefPermitted(st, "Gateway", "Secret", ListenerSecret(st))

\* Listener TLS resolution: RefNotPermitted, then NotFound, then valid.
ListenerTLS(st) ==
    CASE ListenerSecret(st) = NoObj           -> "none"
      [] ~ListenerSecretPermitted(st)        -> "notPermitted"
      [] ~Exists(st, ListenerSecret(st))     -> "notFound"
      [] OTHER                               -> "valid"

SelectorUsed(st) == HasListeners(st) /\ st[GatewayKey].sel

\* AllowedRoutes.Namespaces: All, or a selector matched by HomeNs's labels.
RouteNsAllowed(st) ==
    ~st[GatewayKey].sel \/ (HomeNs \in NsKeys /\ st[HomeNs] = "match")

\* Route attacher: the parentRef's Gateway must be in the graph with
\* listeners, and the listener must allow the route's namespace.
Attached(st, r) == HasListeners(st) /\ RouteNsAllowed(st)

\* BackendRef resolution: a not permitted ref is cleared (SvcNsName = {}).
BackendSvc(st, r) ==
    IF RefPermitted(st, "HTTPRoute", "Service", st[r].svc)
    THEN st[r].svc ELSE NoObj

GraphRoutes(st) ==
    IF Exists(st, GatewayKey) THEN {r \in Routes : Exists(st, r)} ELSE {}

ReferencedServices(st) ==
    {BackendSvc(st, r) : r \in {x \in GraphRoutes(st) : Attached(st, x)}}
        \ {NoObj}

ReferencedSecrets(st) ==
    IF ListenerSecretPermitted(st) THEN {ListenerSecret(st)} ELSE {}

ReferencedNamespaces(st) ==
    IF SelectorUsed(st) THEN {n \in NsKeys : st[n] = "match"} ELSE {}

SlicesOf(st, s) ==
    {e \in Slices : Exists(st, e) /\ st[e].svc = s}

(***************************************************************************)
(* Build: the graph snapshot.  Endpoints of a referenced Service are part *)
(* of what a rebuild hands to the configuration generator, so they are    *)
(* part of the snapshot.                                                  *)
(***************************************************************************)
Build(st) ==
  [ class      |-> IF Exists(st, GatewayClassKey)
                   THEN [valid      |-> GatewayClassValid(st),
                         bestEffort |-> /\ Exists(st, CRDKey)
                                        /\ st[CRDKey] # SupportedVersion]
                   ELSE NoObj,
    gateway    |-> IF Exists(st, GatewayKey)
                   THEN [valid     |-> GatewayClassValid(st),
                         listener  |-> IF HasListeners(st)
                                       THEN [tls |-> ListenerTLS(st),
                                             sel |-> st[GatewayKey].sel]
                                       ELSE NoObj]
                   ELSE NoObj,
    routes     |-> [r \in GraphRoutes(st) |->
                      [attached |-> Attached(st, r),
                       svc      |-> BackendSvc(st, r)]],
    secrets    |-> [k \in ReferencedSecrets(st) |-> st[k]],
    services   |-> [s \in ReferencedServices(st) |->
                      [obj |-> st[s], slices |-> SlicesOf(st, s)]],
    namespaces |-> [n \in ReferencedNamespaces(st) |-> st[n]] ]

\* The shape of a snapshot, for type invariants.
IsGraph(g) ==
    /\ g.class \in {NoObj} \cup [valid : BOOLEAN, bestEffort : BOOLEAN]
    /\ g.gateway \in {NoObj} \cup
         [valid : BOOLEAN,
          listener : {NoObj} \cup [tls : {"none", "notPermitted", "notFound", "valid"},
                                   sel : BOOLEAN]]
    /\ DOMAIN g.routes \subseteq Routes
    /\ \A r \in DOMAIN g.routes :
          g.routes[r] \in [attached : BOOLEAN, svc : Services \cup {NoObj}]
    /\ DOMAIN g.secrets \subseteq Secrets
    /\ DOMAIN g.services \subseteq Services
    /\ \A s \in DOMAIN g.services : g.services[s].slices \subseteq Slices
    /\ DOMAIN g.namespaces \subseteq NsKeys

EmptyStore == [k \in ObjKeys |-> NoObj]

=============================================================================
