------------------------ MODULE RoutePolicyValidator ------------------------
(***************************************************************************)
(* The validator of a policy kind that targets Gateways and routes (spec  *)
(* 4.6 and 9: Validate, ValidateGlobalSettings, Conflicts), such as       *)
(* ClientSettingsPolicy or ObservabilityPolicy, whose code is not in this *)
(* repository.  Its spec is abstracted to whether it turns tracing on     *)
(* ("tracing") or not ("plain"):                                          *)
(*   - target refs must be Gateways, HTTPRoutes or GRPCRoutes of the      *)
(*     Gateway API group;                                                 *)
(*   - tracing needs telemetry in the parent Gateway's effective          *)
(*     NginxProxy, else ValidateGlobalSettings reports NginxProxyNotSet   *)
(*     (the validatorError of TestAttachPolicyToRoute);                   *)
(*   - two tracing policies conflict.                                     *)
(***************************************************************************)

RouteKinds == {"HTTPRoute", "GRPCRoute"}
GatewayAPIGroup == "gateway.networking.k8s.io"

RouteRefOK(ref) == ref.group = GatewayAPIGroup /\ ref.kind \in RouteKinds
GatewayRefOK(ref) == ref.group = GatewayAPIGroup /\ ref.kind = "Gateway"

RouteValidate(targetRefs, spec) ==
    \A ref \in targetRefs : RouteRefOK(ref) \/ GatewayRefOK(ref)

RouteValidateGlobalSettings(spec, telemetryEnabled) ==
    spec = "tracing" => telemetryEnabled

RouteConflicts(a, b) == a = "tracing" /\ b = "tracing"

=============================================================================
