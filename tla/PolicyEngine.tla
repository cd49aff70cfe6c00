---------------------------- MODULE PolicyEngine ----------------------------
(***************************************************************************)
(* The policy engine (spec 4.6) for two policy kinds: UpstreamSettings-  *)
(* Policy, which targets Services (UpstreamSettingsValidator), and a kind *)
(* that targets Gateways and routes (RoutePolicyValidator).  One pass,    *)
(* phase by phase:                                                        *)
(*   validate  P2: Validate, ValidateGlobalSettings and, for route        *)
(*             targets, the overlap check, one policy a step              *)
(*   conflict  P3: the pairs of policies in precedence order (older       *)
(*             first, ties by name: Rank), the lower one of a valid       *)
(*             conflicting pair of one kind on a shared target is marked  *)
(*             Conflicted                                                 *)
(*   attach    P4: each surviving policy's targetRefs in order.  A        *)
(*             Service: its GatewayNsNames in map order (any order), one  *)
(*             Gateway ancestor per Gateway.  A Gateway: one ancestor,    *)
(*             with a condition when it is missing or invalid.  A route:  *)
(*             one route ancestor and the global settings checked         *)
(*             against each parent Gateway.  All capped at MaxAncestors   *)
(*             together with the ancestors other controllers already      *)
(*             wrote to the status.                                       *)
(***************************************************************************)
EXTENDS Naturals, Sequences, SequencesExt, UpstreamSettingsValidator,
        RoutePolicyValidator

CONSTANTS
    Policies,        \* policy keys
    Rank,            \* [Policies -> 1..N], injective: precedence, 1 wins
    PolicyInputs,    \* set of [kind, refs : Seq(target ref), spec, foreign : Nat]
    Gateways,        \* Gateways in the graph
    GatewayValid,    \* [Gateways -> BOOLEAN]
    RefServices,     \* the graph's ReferencedServices
    GatewaysOf,      \* [RefServices -> SUBSET gateway names]: GatewayNsNames
    Routes,          \* the graph's L7 routes
    RouteOK,         \* [Routes -> BOOLEAN]: Valid, Attachable, has ParentRefs
    RouteParents,    \* [Routes -> SUBSET Gateways]: ParentRefs' Gateways
    Telemetry,       \* [Gateways -> BOOLEAN]: effective NginxProxy telemetry
    RouteLocations,  \* [Routes -> SUBSET locations]: (listener, host, path)
    MaxAncestors     \* the ancestor cap, 16

VARIABLES
    pol,             \* [Policies -> PolicyInputs]: the pass's input
    phase,           \* "validate" | "conflict" | "attach" | "done"
    valid,           \* [Policies -> BOOLEAN]
    cond,            \* [Policies -> {"none", "invalid", "conflicted"}]
    toValidate,      \* policies not validated yet
    pairs,           \* conflict pairs not yet compared, in precedence order
    toAttach,        \* policies whose targetRefs are not all walked yet
    tgtIdx,          \* [Policies -> Nat]: next targetRef to walk
    anc,             \* [Policies -> Seq([gw, ok])]: the policy's Ancestors
    svcPolicies,     \* [RefServices -> SUBSET Policies]: Service.Policies
    routePolicies,   \* [Routes -> SUBSET Policies]: L7Route.Policies
    invalidFor,      \* [Policies -> SUBSET Gateways]: InvalidForGateways
    gwPolicies,      \* [Gateways -> SUBSET Policies]: Gateway.Policies
    affected         \* [Gateways \cup Routes -> Seq(kind)]: the policy-kind
                     \* Affected conditions in the object's Conditions

attachVars == <<anc, svcPolicies, routePolicies, invalidFor, gwPolicies>>
vars == <<pol, phase, valid, cond, toValidate, pairs, toAttach, tgtIdx,
          attachVars, affected>>

USPKind   == "UpstreamSettingsPolicy"
RouteKind == "RoutePolicy"

\* A target object: the empty group is the core group.
TargetObj(ref) ==
    <<IF ref.group = "" THEN "core" ELSE ref.group, ref.kind, ref.name>>
Targets(p) == {TargetObj(pol[p].refs[i]) : i \in DOMAIN pol[p].refs}
SameTarget(a, b) == Targets(a) \cap Targets(b) # {}

Precedes(x, y) ==
    \/ Rank[x[1]] < Rank[y[1]]
    \/ Rank[x[1]] = Rank[y[1]] /\ Rank[x[2]] < Rank[y[2]]
ConflictOrder ==
    SetToSortSeq({<<a, b>> \in Policies \X Policies : Rank[a] < Rank[b]},
                 Precedes)

Init ==
    /\ pol \in [Policies -> PolicyInputs]
    /\ phase = "validate"
    /\ valid = [p \in Policies |-> FALSE]
    /\ cond = [p \in Policies |-> "none"]
    /\ toValidate = Policies
    /\ pairs = ConflictOrder
    /\ toAttach = {}
    /\ tgtIdx = [p \in Policies |-> 1]
    /\ anc = [p \in Policies |-> <<>>]
    /\ svcPolicies = [s \in RefServices |-> {}]
    /\ routePolicies = [r \in Routes |-> {}]
    /\ invalidFor = [p \in Policies |-> {}]
    /\ gwPolicies = [g \in Gateways |-> {}]
    /\ affected = [t \in Gateways \cup Routes |-> <<>>]

RefSet(p) == {pol[p].refs[i] : i \in DOMAIN pol[p].refs}
IsRouteRef(ref) == RouteRefOK(ref) /\ ref.name \in Routes
TargetedRoutes(p) == {ref.name : ref \in {x \in RefSet(p) : IsRouteRef(x)}}

\* Variant for mutation runs: the overlap check never fires.
RouteOverlapNever(targeted) == FALSE

\* The overlap check for route targets: a targeted route shares a
\* (listener, hostname, path) location with a route not targeted.
RouteOverlap(targeted) ==
    \E r \in targeted, other \in Routes \ targeted :
        RouteLocations[r] \cap RouteLocations[other] # {}

\* The kind's validator; for route targets also the overlap check.
PolicyOK(p) ==
    IF pol[p].kind = USPKind
    THEN Validate(RefSet(p), pol[p].spec) /\ ValidateGlobalSettings(pol[p].spec)
    ELSE ~RouteOverlap(TargetedRoutes(p)) /\ RouteValidate(RefSet(p), pol[p].spec)

ValidatePolicy(p) ==
    /\ phase = "validate"
    /\ p \in toValidate
    /\ valid' = [valid EXCEPT ![p] = PolicyOK(p)]
    /\ cond' = [cond EXCEPT ![p] = IF PolicyOK(p) THEN "none" ELSE "invalid"]
    /\ toValidate' = toValidate \ {p}
    /\ phase' = IF toValidate' = {} THEN "conflict" ELSE "validate"
    /\ UNCHANGED <<pol, pairs, toAttach, tgtIdx, attachVars, affected>>

\* Different kinds never conflict; within a kind its validator decides.
KindConflicts(a, b) ==
    /\ pol[a].kind = pol[b].kind
    /\ IF pol[a].kind = USPKind THEN Conflicts(pol[a].spec, pol[b].spec)
                                ELSE RouteConflicts(pol[a].spec, pol[b].spec)

\* Variant for mutation runs: the higher-precedence policy's validity is
\* not checked, so a policy that already lost can still knock out another.
MarkConflictedAnyWinner ==
    /\ phase = "conflict"
    /\ pairs # <<>>
    /\ LET a == Head(pairs)[1]
           b == Head(pairs)[2]
       IN IF /\ valid[b]
             /\ SameTarget(a, b)
             /\ KindConflicts(a, b)
          THEN /\ valid' = [valid EXCEPT ![b] = FALSE]
               /\ cond' = [cond EXCEPT ![b] = "conflicted"]
          ELSE UNCHANGED <<valid, cond>>
    /\ pairs' = Tail(pairs)
    /\ UNCHANGED <<pol, phase, toValidate, toAttach, tgtIdx, attachVars,
                   affected>>

\* Compare the next pair; invalid policies never take part.
MarkConflicted ==
    /\ phase = "conflict"
    /\ pairs # <<>>
    /\ LET a == Head(pairs)[1]
           b == Head(pairs)[2]
       IN IF /\ valid[a] /\ valid[b]
             /\ SameTarget(a, b)
             /\ KindConflicts(a, b)
          THEN /\ valid' = [valid EXCEPT ![b] = FALSE]
               /\ cond' = [cond EXCEPT ![b] = "conflicted"]
          ELSE UNCHANGED <<valid, cond>>
    /\ pairs' = Tail(pairs)
    /\ UNCHANGED <<pol, phase, toValidate, toAttach, tgtIdx, attachVars,
                   affected>>

EndConflicts ==
    /\ phase = "conflict"
    /\ pairs = <<>>
    /\ phase' = "attach"
    /\ toAttach' = {p \in Policies : valid[p]}
    /\ UNCHANGED <<pol, valid, cond, toValidate, pairs, tgtIdx, attachVars,
                   affected>>

-----------------------------------------------------------------------------
AncGateways(a) == {a[i].obj : i \in DOMAIN a}

\* Variant for mutation runs: the cap test lets one ancestor too many in.
AncestorsFullOffByOne(foreign, a) == foreign + Len(a) > MaxAncestors

\* ngfPolicyAncestorsFull: other controllers' ancestors plus ours.
AncestorsFull(foreign, a) == foreign + Len(a) >= MaxAncestors

NewAncestor(g) == [obj |-> g, ok |-> GatewayValid[g]]

\* Variant for mutation runs: the Gateway's ancestor is appended again.
AttachGatewayNoDedup(foreign, acc, g) ==
    CASE g \notin Gateways                 -> acc
      [] AncestorsFull(foreign, acc.anc)   -> acc
      [] OTHER -> [anc    |-> Append(acc.anc, NewAncestor(g)),
                   attach |-> acc.attach \/ GatewayValid[g]]

\* Variant for mutation runs: a valid Gateway attaches the policy even
\* when no ancestor can be recorded for it.
AttachGatewayIgnoringCap(foreign, acc, g) ==
    CASE g \notin Gateways                 -> acc
      [] g \in AncGateways(acc.anc)
           \/ AncestorsFull(foreign, acc.anc) ->
             [acc EXCEPT !.attach = @ \/ GatewayValid[g]]
      [] OTHER -> [anc    |-> Append(acc.anc, NewAncestor(g)),
                   attach |-> acc.attach \/ GatewayValid[g]]

\* Variant for mutation runs: a Gateway missing from the graph is taken
\* for an invalid one and recorded as an ancestor.
AttachGatewayUnknownAsInvalid(foreign, acc, g) ==
    CASE g \in AncGateways(acc.anc)        -> acc
      [] AncestorsFull(foreign, acc.anc)   -> acc
      [] g \notin Gateways ->
             [acc EXCEPT !.anc = Append(@, [obj |-> g, ok |-> FALSE])]
      [] OTHER -> [anc    |-> Append(acc.anc, NewAncestor(g)),
                   attach |-> acc.attach \/ GatewayValid[g]]

\* One Gateway of the Service's GatewayNsNames: skipped when it is not in
\* the graph; a Gateway already an ancestor is not added again but still
\* attaches when valid; when the ancestors are full nothing is recorded;
\* otherwise the ancestor is appended, an invalid Gateway's with a
\* condition and no attachment.
AttachGateway(foreign, acc, g) ==
    CASE g \notin Gateways                 -> acc
      [] g \in AncGateways(acc.anc)        ->
             [acc EXCEPT !.attach = @ \/ GatewayValid[g]]
      [] AncestorsFull(foreign, acc.anc)   -> acc
      [] OTHER -> [anc    |-> Append(acc.anc, NewAncestor(g)),
                   attach |-> acc.attach \/ GatewayValid[g]]

\* attachPolicyToService over the Gateways in the given order.
AttachToService(p, order, a) ==
    FoldLeft(LAMBDA acc, g : AttachGateway(pol[p].foreign, acc, g),
             [anc |-> a, attach |-> FALSE], order)

IsServiceRef(ref) == TargetObj(ref) \in {"core"} \X {"Service"} \X RefServices

\* The parents of route r whose effective NginxProxy the policy's global
\* settings fail against.
FailingParents(p, r) ==
    {g \in RouteParents[r] : ~RouteValidateGlobalSettings(pol[p].spec, Telemetry[g])}

\* attachPolicyToRoute: nothing when the ancestors are full; a route that
\* is not Valid, Attachable and with ParentRefs gets a "TargetRef is
\* invalid" ancestor and no attachment; otherwise the global settings are
\* checked against each parent Gateway, every failing one is added to
\* InvalidForGateways and its condition to the route ancestor, and the
\* policy attaches unless it is invalid for all parents.  Route
\* ancestors are not deduplicated.
AttachRoute(p, r) ==
    LET fails == FailingParents(p, r) IN
    CASE AncestorsFull(pol[p].foreign, anc[p]) ->
             [anc |-> anc[p], attach |-> FALSE, inv |-> invalidFor[p]]
      [] ~RouteOK[r] ->
             [anc |-> Append(anc[p], [obj |-> r, ok |-> FALSE]),
              attach |-> FALSE, inv |-> invalidFor[p]]
      [] OTHER ->
             [anc |-> Append(anc[p], [obj |-> r, ok |-> fails = {}]),
              attach |-> fails # RouteParents[r],
              inv |-> invalidFor[p] \cup fails]

TargetedGateways(p) == {ref.name : ref \in {x \in RefSet(p) : GatewayRefOK(x)}}

\* Variant for mutation runs: a Gateway missing from the graph is recorded
\* as an ancestor without its "TargetRef is not found" condition.
AttachToGatewayMissingOK(p, g) ==
    CASE AncestorsFull(pol[p].foreign, anc[p]) -> [anc |-> anc[p], attach |-> FALSE]
      [] g \notin Gateways ->
             [anc |-> Append(anc[p], [obj |-> g, ok |-> TRUE]), attach |-> FALSE]
      [] OTHER -> [anc    |-> Append(anc[p], [obj |-> g, ok |-> GatewayValid[g]]),
                   attach |-> GatewayValid[g]]

\* attachPolicyToGateway: nothing when the ancestors are full; otherwise a
\* Gateway ancestor is appended, not deduplicated, with "TargetRef is not
\* found" when the Gateway is not in the graph and "TargetRef is invalid"
\* when it is invalid; only a valid Gateway gets the policy.
AttachToGateway(p, g) ==
    CASE AncestorsFull(pol[p].foreign, anc[p]) -> [anc |-> anc[p], attach |-> FALSE]
      [] g \notin Gateways ->
             [anc |-> Append(anc[p], [obj |-> g, ok |-> FALSE]), attach |-> FALSE]
      [] OTHER -> [anc    |-> Append(anc[p], [obj |-> g, ok |-> GatewayValid[g]]),
                   attach |-> GatewayValid[g]]

\* Walk the next targetRef of p; Gateway map order is any permutation.
AttachTarget(p) ==
    /\ phase = "attach"
    /\ p \in toAttach
    /\ tgtIdx[p] <= Len(pol[p].refs)
    /\ LET ref == pol[p].refs[tgtIdx[p]] IN
       CASE IsServiceRef(ref) ->
              \E order \in SetToSeqs(GatewaysOf[ref.name]) :
                LET r == AttachToService(p, order, anc[p]) IN
                /\ anc' = [anc EXCEPT ![p] = r.anc]
                /\ svcPolicies' = IF r.attach
                                  THEN [svcPolicies EXCEPT ![ref.name] = @ \cup {p}]
                                  ELSE svcPolicies
                /\ UNCHANGED <<routePolicies, invalidFor, gwPolicies>>
         [] IsRouteRef(ref) ->
              LET r == AttachRoute(p, ref.name) IN
              /\ anc' = [anc EXCEPT ![p] = r.anc]
              /\ invalidFor' = [invalidFor EXCEPT ![p] = r.inv]
              /\ routePolicies' = IF r.attach
                                  THEN [routePolicies EXCEPT ![ref.name] = @ \cup {p}]
                                  ELSE routePolicies
              /\ UNCHANGED <<svcPolicies, gwPolicies>>
         [] GatewayRefOK(ref) ->
              LET r == AttachToGateway(p, ref.name) IN
              /\ anc' = [anc EXCEPT ![p] = r.anc]
              /\ gwPolicies' = IF r.attach
                               THEN [gwPolicies EXCEPT ![ref.name] = @ \cup {p}]
                               ELSE gwPolicies
              /\ UNCHANGED <<svcPolicies, routePolicies, invalidFor>>
         [] OTHER -> UNCHANGED attachVars
    /\ tgtIdx' = [tgtIdx EXCEPT ![p] = @ + 1]
    /\ UNCHANGED <<pol, phase, valid, cond, toValidate, pairs, toAttach,
                   affected>>

FinishPolicy(p) ==
    /\ phase = "attach"
    /\ p \in toAttach
    /\ tgtIdx[p] > Len(pol[p].refs)
    /\ toAttach' = toAttach \ {p}
    /\ phase' = IF toAttach' = {} THEN "status" ELSE "attach"
    /\ UNCHANGED <<pol, valid, cond, toValidate, pairs, tgtIdx, attachVars,
                   affected>>

\* A pass in which no policy survives goes straight to the status step.
NothingToAttach ==
    /\ phase = "attach"
    /\ toAttach = {}
    /\ phase' = "status"
    /\ UNCHANGED <<pol, valid, cond, toValidate, pairs, toAttach, tgtIdx,
                   attachVars, affected>>

-----------------------------------------------------------------------------
\* The kinds addStatusToTargetRefs has an Affected condition for (the
\* Gateway and route kinds: ClientSettingsPolicy, ObservabilityPolicy).
AffectedKinds == {RouteKind}

\* The object of a targetRef that gets the condition: a Gateway or an
\* HTTPRoute or GRPCRoute present in the graph; any other kind, and a
\* missing object, none.
AffectedTargets(ref) ==
    IF \/ ref.kind = "Gateway" /\ ref.name \in Gateways
       \/ ref.kind \in RouteKinds /\ ref.name \in Routes
    THEN {ref.name} ELSE {}

\* Variant for mutation runs: the condition is appended without looking
\* for one already there.
AddAffectedNoDedup(conds, k) ==
    IF k \in AffectedKinds THEN Append(conds, k) ELSE conds

\* addStatusToTargetRefs: append the kind's Affected condition unless the
\* list already has it; a kind without one changes nothing.
AddAffected(conds, k) ==
    IF k \in AffectedKinds /\ k \notin Range(conds) THEN Append(conds, k) ELSE conds

StampRef(p, acc, ref) ==
    [t \in DOMAIN acc |->
        IF t \in AffectedTargets(ref) THEN AddAffected(acc[t], pol[p].kind) ELSE acc[t]]

\* addPolicyAffectedStatusToTargetRefs: every processed policy, valid or
\* not, in map order (any order), and each of its targetRefs in order.
StampAffected ==
    /\ phase = "status"
    /\ \E order \in SetToSeqs(Policies) :
         affected' = FoldLeft(LAMBDA acc, p :
                                FoldLeft(LAMBDA a, ref : StampRef(p, a, ref),
                                         acc, pol[p].refs),
                              affected, order)
    /\ phase' = "done"
    /\ UNCHANGED <<pol, valid, cond, toValidate, pairs, toAttach, tgtIdx,
                   attachVars>>

Next ==
    \/ \E p \in Policies : ValidatePolicy(p)
    \/ MarkConflicted
    \/ EndConflicts
    \/ \E p \in Policies : AttachTarget(p) \/ FinishPolicy(p)
    \/ NothingToAttach
    \/ StampAffected

Spec == Init /\ [][Next]_vars

-----------------------------------------------------------------------------
TypeOK ==
    /\ pol \in [Policies -> PolicyInputs]
    /\ phase \in {"validate", "conflict", "attach", "status", "done"}
    /\ valid \in [Policies -> BOOLEAN]
    /\ cond \in [Policies -> {"none", "invalid", "conflicted"}]
    /\ toValidate \subseteq Policies /\ toAttach \subseteq Policies
    /\ \A p \in Policies :
          /\ tgtIdx[p] \in 1..(Len(pol[p].refs) + 1)
          /\ \A i \in DOMAIN anc[p] :
                anc[p][i] \in [obj : Gateways \cup Routes \cup TargetedGateways(p),
                                ok : BOOLEAN]
    /\ svcPolicies \in [RefServices -> SUBSET Policies]
    /\ routePolicies \in [Routes -> SUBSET Policies]
    /\ invalidFor \in [Policies -> SUBSET Gateways]
    /\ gwPolicies \in [Gateways -> SUBSET Policies]
    /\ affected \in [Gateways \cup Routes -> Seq(AffectedKinds)]

\* Reference reading of a clash: same kind, and both would set one NGINX
\* upstream directive, or both would turn tracing on.
SetSameSetting(a, b) ==
    /\ pol[a].kind = pol[b].kind
    /\ IF pol[a].kind = USPKind
       THEN SetSameDirective(pol[a].spec, pol[b].spec)
       ELSE pol[a].spec = "tracing" /\ pol[b].spec = "tracing"

(***************************************************************************)
(* NoValidConflict (spec 4.6 P3): once conflicts are marked, no two valid *)
(* policies of one kind that share a target would both set one NGINX     *)
(* setting.  Directives is the reference reading of an upstream settings  *)
(* policy; it checks the validator's conflicts function field by field.   *)
(***************************************************************************)
NoValidConflict ==
    phase \in {"attach", "status", "done"} =>
        \A a, b \in Policies :
            (a # b /\ valid[a] /\ valid[b] /\ SameTarget(a, b))
                => ~SetSameSetting(a, b)

(***************************************************************************)
(* ConflictLoserHasWinner (markConflictedPolicies): a policy marked       *)
(* Conflicted lost to a policy of higher precedence that is still valid   *)
(* and really overlaps it.  It depends on the pairs being walked in       *)
(* precedence order: the winner's own fate is settled before it is used. *)
(***************************************************************************)
ConflictLoserHasWinner ==
    \A b \in Policies :
        cond[b] = "conflicted" =>
            \E a \in Policies :
                /\ Rank[a] < Rank[b]
                /\ valid[a]
                /\ SameTarget(a, b)
                /\ SetSameSetting(a, b)

(***************************************************************************)
(* AncestorsWithinCap (spec I5, P5): the ancestors other controllers      *)
(* wrote plus the ones attachPolicyToService recorded never exceed the    *)
(* cap, whatever Services and Gateway orders the targetRefs lead through. *)
(***************************************************************************)
AncestorsWithinCap ==
    \A p \in Policies :
        anc[p] # <<>> => pol[p].foreign + Len(anc[p]) <= MaxAncestors

(***************************************************************************)
(* AncestorsUnique (spec 4.6 Service target): a Gateway is an ancestor    *)
(* of a policy at most once, also when two targeted Services share it.    *)
(***************************************************************************)
AncestorsUnique ==
    \A p \in Policies :
        \A i, j \in DOMAIN anc[p] : i # j => anc[p][i].obj # anc[p][j].obj

(***************************************************************************)
(* AttachedHasValidAncestor (spec I2, I5): a policy in a Service's        *)
(* Policies has, among its recorded ancestors, a valid Gateway of that    *)
(* Service, and a policy in a Gateway's Policies has that Gateway as an   *)
(* ancestor without condition; a dropped ancestor records no attachment.  *)
(***************************************************************************)
AttachedHasValidAncestor ==
    /\ \A s \in RefServices : \A p \in svcPolicies[s] :
          \E i \in DOMAIN anc[p] : anc[p][i].ok /\ anc[p][i].obj \in GatewaysOf[s]
    /\ \A g \in Gateways : \A p \in gwPolicies[g] :
          \E i \in DOMAIN anc[p] : anc[p][i] = [obj |-> g, ok |-> TRUE]

(***************************************************************************)
(* AncestorConditionsAccurate (spec I2): a policy ancestor carries no     *)
(* condition exactly when the object it names is usable: a Gateway in the *)
(* graph and valid, or a Valid, Attachable route with ParentRefs whose    *)
(* parents all pass the policy's global settings.  The Service, Gateway   *)
(* and route attach paths must each get this right.                       *)
(***************************************************************************)
TargetUsable(p, x) ==
    \/ x \in Gateways /\ GatewayValid[x]
    \/ x \in Routes /\ RouteOK[x] /\ FailingParents(p, x) = {}
AncestorConditionsAccurate ==
    \A p \in Policies : \A i \in DOMAIN anc[p] :
        anc[p][i].ok <=> TargetUsable(p, anc[p][i].obj)

(***************************************************************************)
(* NoPartialLocation (spec 4.6 overlap rule): a route policy attached to  *)
(* a route also targets every other route that shares a (listener, host,  *)
(* path) location with it, so NGINX never serves one location with the    *)
(* policy for some of its routes and without it for the others.  The      *)
(* overlap check in validation and the attach walk must agree for this.   *)
(***************************************************************************)
NoPartialLocation ==
    \A r, other \in Routes : \A p \in routePolicies[r] :
        (r # other /\ RouteLocations[r] \cap RouteLocations[other] # {})
            => other \in TargetedRoutes(p)

(***************************************************************************)
(* AffectedMarksTargets (spec 4.6, policy-affected status propagation):  *)
(* when the pass ends, a Gateway or route in the graph carries a kind's   *)
(* Affected condition exactly once when some policy of that kind names it *)
(* in its targetRefs, valid, conflicted or not, and no other Affected     *)
(* condition; so every object a policy is attached to carries it.  Two    *)
(* policies of one kind on one object, in either map order, must not      *)
(* stamp it twice.                                                        *)
(***************************************************************************)
StampedBy(t) ==
    {pol[p].kind : p \in {q \in Policies :
                            \E i \in DOMAIN pol[q].refs : t \in AffectedTargets(pol[q].refs[i])}}
AffectedMarksTargets ==
    phase = "done" =>
        /\ \A t \in Gateways \cup Routes :
              /\ IsInjective(affected[t])
              /\ Range(affected[t]) = StampedBy(t) \cap AffectedKinds
        /\ \A g \in Gateways : \A p \in gwPolicies[g] : pol[p].kind \in Range(affected[g])
        /\ \A r \in Routes : \A p \in routePolicies[r] : pol[p].kind \in Range(affected[r])

(***************************************************************************)
(* AttachOrderIndependent (spec 1 and P3, a deterministic graph): the     *)
(* next Service targetRef of a policy records the same ancestors and the  *)
(* same attachment whatever order the GatewayNsNames map yields.          *)
(***************************************************************************)
Outcome(r) == [gws |-> {r.anc[i] : i \in DOMAIN r.anc}, attach |-> r.attach]
AttachOrderIndependent ==
    \A p \in toAttach :
        (tgtIdx[p] <= Len(pol[p].refs) /\ IsServiceRef(pol[p].refs[tgtIdx[p]]))
            => LET s == pol[p].refs[tgtIdx[p]].name IN
               \A o1, o2 \in SetToSeqs(GatewaysOf[s]) :
                   Outcome(AttachToService(p, o1, anc[p]))
                     = Outcome(AttachToService(p, o2, anc[p]))


=============================================================================
