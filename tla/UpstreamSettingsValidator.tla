---------------------- MODULE UpstreamSettingsValidator ----------------------
(***************************************************************************)
(* The UpstreamSettingsPolicy validator (policies/upstreamsettings/       *)
(* validator.go).  A policy spec is abstracted to which of its optional   *)
(* fields are set and, for the fields that carry NGINX size or duration   *)
(* strings, whether the generic validator accepts the string:             *)
(*   [zoneSize  |-> Unset | "ok" | "bad",                                 *)
(*    keepAlive |-> Unset | [connections |-> Unset | "set",               *)
(*                           requests    |-> Unset | "set",               *)
(*                           time        |-> Unset | "ok" | "bad",        *)
(*                           timeout     |-> Unset | "ok" | "bad"]]       *)
(* A target ref is [group |-> ..., kind |-> ..., name |-> ...].           *)
(***************************************************************************)
CONSTANT Unset   \* a nil pointer field

IsSet(x) == x # Unset

\* policies.ValidateTargetRef with the kinds and groups Validate passes.
SupportedKinds  == {"Service"}
SupportedGroups == {"", "core"}
TargetRefOK(ref) == ref.group \in SupportedGroups /\ ref.kind \in SupportedKinds

\* validateUpstreamKeepAlive: Time and Timeout must be NGINX durations.
KeepAliveOK(ka) ==
    /\ ka.time # "bad"
    /\ ka.timeout # "bad"

\* validateSettings: ZoneSize must be an NGINX size; KeepAlive as above.
SettingsOK(spec) ==
    /\ spec.zoneSize # "bad"
    /\ IsSet(spec.keepAlive) => KeepAliveOK(spec.keepAlive)

\* Validate: the first bad target ref, else the settings, decide; either
\* failure yields one PolicyInvalid condition.
Validate(targetRefs, spec) ==
    /\ \A ref \in targetRefs : TargetRefOK(ref)
    /\ SettingsOK(spec)

\* ValidateGlobalSettings returns no conditions for this policy kind.
ValidateGlobalSettings(spec) == TRUE

\* Variant for mutation runs: the KeepAlive.Timeout comparison is missing.
ConflictsNoTimeout(a, b) ==
    \/ IsSet(a.zoneSize) /\ IsSet(b.zoneSize)
    \/ /\ IsSet(a.keepAlive) /\ IsSet(b.keepAlive)
       /\ \/ IsSet(a.keepAlive.connections) /\ IsSet(b.keepAlive.connections)
          \/ IsSet(a.keepAlive.requests) /\ IsSet(b.keepAlive.requests)
          \/ IsSet(a.keepAlive.time) /\ IsSet(b.keepAlive.time)

\* conflicts: two specs conflict when both set ZoneSize, or both set
\* KeepAlive and within it both set the same one of its four fields.
Conflicts(a, b) ==
    \/ IsSet(a.zoneSize) /\ IsSet(b.zoneSize)
    \/ /\ IsSet(a.keepAlive) /\ IsSet(b.keepAlive)
       /\ \/ IsSet(a.keepAlive.connections) /\ IsSet(b.keepAlive.connections)
          \/ IsSet(a.keepAlive.requests) /\ IsSet(b.keepAlive.requests)
          \/ IsSet(a.keepAlive.time) /\ IsSet(b.keepAlive.time)
          \/ IsSet(a.keepAlive.timeout) /\ IsSet(b.keepAlive.timeout)

(***************************************************************************)
(* Reference definition: the NGINX upstream directives a spec would set.  *)
(* Two policies on one Service conflict exactly when they would both set  *)
(* one of these directives.                                               *)
(***************************************************************************)
Directives(spec) ==
    {d \in {"zone"} : IsSet(spec.zoneSize)}
    \cup (IF IsSet(spec.keepAlive)
          THEN {d \in {"keepalive", "keepalive_requests", "keepalive_time",
                       "keepalive_timeout"} :
                  \/ d = "keepalive" /\ IsSet(spec.keepAlive.connections)
                  \/ d = "keepalive_requests" /\ IsSet(spec.keepAlive.requests)
                  \/ d = "keepalive_time" /\ IsSet(spec.keepAlive.time)
                  \/ d = "keepalive_timeout" /\ IsSet(spec.keepAlive.timeout)}
          ELSE {})

SetSameDirective(a, b) == Directives(a) \cap Directives(b) # {}

=============================================================================
