-------------------------- MODULE MCChangeProcessor --------------------------
(***************************************************************************)
(* Model-checking instances of ChangeProcessor.  The Gateway and the      *)
(* HTTPRoute r1 live in namespace a; Service sa in a, Service sb, Secret  *)
(* kb and ReferenceGrant gb in namespace b.  Two universes keep each run  *)
(* small:                                                                 *)
(*   Backends: GatewayClass, Gateway (no TLS), r1 -> sa | sb, both        *)
(*             Services, one EndpointSlice, the grant, namespace a.       *)
(*   Listener: GatewayClass, CRD, Gateway with a TLS ref to kb, kb, the   *)
(*             grant, r1 -> sa, sa, namespaces a and b.                   *)
(***************************************************************************)
EXTENDS ChangeProcessor

MCNsOf == [x \in {"sa", "sb", "kb", "gb"} |-> IF x = "sa" THEN "a" ELSE "b"]

\* Versions each upsert may carry.  sb and kb get two content versions so
\* that both an identical re-upsert and an update are possible.  Each grant
\* set has one grant that fits the reference and one whose From kind is
\* wrong.
MCValsOfBackends ==
  [k \in {"gc", "crd", "gw", "r1", "sa", "sb", "e1", "gb", "a"} |->
     CASE k = "gc"  -> {"ours", "other"}
       [] k = "crd" -> {"v1"}
       [] k = "gw"  -> {[secret |-> NoObj, sel |-> FALSE],
                        [secret |-> NoObj, sel |-> TRUE]}
       [] k = "r1"  -> {[svc |-> "sa"], [svc |-> "sb"]}
       [] k = "sa"  -> {"v1"}
       [] k = "sb"  -> {"v1", "v2"}
       [] k = "e1"  -> {[svc |-> "sa"], [svc |-> "sb"], [svc |-> NoLabel]}
       [] k = "gb"  -> {[from |-> "HTTPRoute", to |-> "Service"],
                        [from |-> "Gateway", to |-> "Service"]}
       [] k = "a"   -> {"match", "nomatch"}]

MCValsOfListener ==
  [k \in {"gc", "crd", "gw", "r1", "sa", "kb", "gb", "a", "b"} |->
     CASE k = "gc"  -> {"ours", "other"}
       [] k = "crd" -> {"v1", "v2"}
       [] k = "gw"  -> {[secret |-> "kb", sel |-> FALSE],
                        [secret |-> "kb", sel |-> TRUE]}
       [] k = "r1"  -> {[svc |-> "sa"]}
       [] k = "sa"  -> {"v1"}
       [] k = "kb"  -> {"c1", "c2"}
       [] k = "gb"  -> {[from |-> "Gateway", to |-> "Secret"],
                        [from |-> "HTTPRoute", to |-> "Secret"]}
       [] k \in {"a", "b"} -> {"match", "nomatch"}]

=============================================================================
