# TLA+ models of nginx-gateway-fabric

This directory holds TLA+ models of the parts of the control plane whose
source, or whose behaviour-pinning tests, are under `src/`. The models are
checked with TLC. `PROJECT.json` lists the components, the runs, the mutants,
the map from every modelled definition to the code lines it translates, the
findings, and the hazards.

## 1. The system and its parts

The controller watches Kubernetes and Gateway API objects. It turns them into
NGINX configuration in four steps:

1. **Object store and relevance tracker.** The change processor (spec 4.7)
   records every upsert and delete in the store (4.1). It asks the relevance
   tracker (4.2) whether the change can alter the graph. The tracker answers
   from the *previous* graph's reference sets (referenced Services, Secrets,
   Namespaces), without building a new graph. A relevant change sets the
   dirty bit.
2. **Graph builder.** `Process` rebuilds the graph from the store when the
   dirty bit is set, and otherwise returns "no change". The graph builder
   (4.5) covers the gateway class, the listeners, the reference resolver with
   its ReferenceGrants (4.3), and the route attacher (4.4).
3. **Policy engine.** The policy engine (4.6) processes policies such as
   UpstreamSettingsPolicy (targets Services) or ObservabilityPolicy (targets
   Gateways and routes) in three phases:
   - it validates each policy with its kind's validator (`validator.go` for
     UpstreamSettingsPolicy). A policy that targets a route sharing a
     (listener, hostname, path) location with a route it does not target is
     invalid;
   - it marks the loser of each conflicting pair of one kind as conflicted;
   - it attaches the valid policies to their targets, under a cap of 16
     ancestors. A policy that targets a Service is attached through every
     Gateway of that Service. A policy that targets a route gets a route
     ancestor; its global settings are checked against each parent Gateway's
     NginxProxy, and it attaches unless they fail for every parent. A
     policy that targets a Gateway gets an ancestor for it: a missing
     Gateway's ancestor carries a NotFound condition, an invalid Gateway's
     is not accepted, and only a valid Gateway attaches.
   - Finally (`addPolicyAffectedStatusToTargetRefs`) every processed policy,
     valid or not, stamps its kind's Affected condition onto each Gateway or
     route of the graph it names, once per kind.
4. **Configuration generation.** The dataplane configuration is rendered into
   NGINX config. For TLS passthrough, `createStreamServers`
   (`stream_servers.go`) emits the stream servers.

Around these steps are the test tooling that `src/` contains:

- counterfeiter fakes (`FakeReader`, `FakeProvisioner`, `FakeGroupUpdater`),
  which concurrent code under test calls;
- the end-to-end HTTP helpers (`tests/framework/request.go`);
- an e2e suite and a retry-function test.

The change processor, the graph builder and most of the policy engine are not
in `src/`. Their models come from `spec.md` and are marked `spec_modelled` in
the map. They are checked against what `change_processor_test.go` and
`policies_test.go` pin.

## 2. Modules and how they correspond to the code

| Module | Models | State | Actions |
|---|---|---|---|
| `GraphBuilder` | graph builder, resolver, attacher (4.3-4.5) | none (pure) | `Build(store)` |
| `RelevanceTracker` | relevance rules (4.2) | none (pure) | `RelevantUpsert`, `RelevantDelete` |
| `ChangeProcessor` | facade over store and tracker (4.1, 4.7) | `store`, `dirty`, `latest` | `CaptureUpsert`, `CaptureDelete`, `Process` |
| `UpstreamSettingsValidator` | `Validator.Validate`, `ValidateGlobalSettings`, `Conflicts` | none (pure) | operators |
| `RoutePolicyValidator` | a route policy kind's validator (spec 9, the tests' `validatorError`) | none (pure) | operators |
| `PolicyEngine` | processPolicies / markConflictedPolicies / Service, route and Gateway attachment | `pol`, `valid`, `cond`, `anc` (each ancestor an object and whether its condition is accepted), `svcPolicies`, `routePolicies`, `gwPolicies`, `invalidFor`, `affected` (the Affected conditions of each Gateway and route), phase and loop cursors | `ValidatePolicy`, `MarkConflicted`, `EndConflicts`, `AttachTarget`, `FinishPolicy`, `NothingToAttach`, `StampAffected` |
| `StreamServers` | `createStreamServers` | inputs, `upstreams`, `portSet`, `out`, loop index | `Start`, `LoopStep`, `LoopEnd` |
| `HttpRequest` | `Get` / `Post` / `makeRequest` with the server and the network | client `pc`, `ctx`, server progress, chunks sent and read | `NewRequest`, `DoReturn`, `DoFail`, `ReturnFromMakeRequest`, `ReadBody`, `SendHeaders`, `SendBody`, `Expire` |
| `CounterfeiterFake` | one faked method, called concurrently and read by the test | mutex holder, `ArgsForCall`, invocations, stub and returns fields, each caller's locals, the test's last observation | `Call`, `Lock`, `Lookup` (methods with a result only), `AppendAndCapture`, `RecordInvocation`, `Unlock`, `Return`, `Configure`, `CallCount`, `ArgsForCall`, `Invocations` |
| `AtomicFake` | what a fake promises: each call is one atomic step | calls, results, configuration, observation | `ACall`, `AReturn`, `AConfigure`, `AObserve` |

`MCChangeProcessor`, `MCPolicyEngine`, `MCStreamServers` and
`MCCounterfeiterFake` give the constants their model values.

Each action is one whole handler or one loop iteration:

- A Capture call updates the store and sets the dirty bit in one step.
  Callers serialize Capture and Process (spec 5), so atomic steps are
  faithful.
- One iteration of `createStreamServers` is one `LoopStep`. It creates the
  socket server first, then does the port-set check.
- In the fake, every statement that touches shared state between `Lock` and
  the return is its own step. This lets the test's configuration calls, and
  the other callers, interleave exactly where Go lets them.

**Refinement.** `CounterfeiterFake` instantiates `AtomicFake` with this
mapping:

- the abstract calls are the recorded invocations;
- a call counts as made once `recordInvocation` has run (its linearization
  point), still inside the method mutex;
- an observation (`XCallCount`, `XArgsForCall(i)`, `Invocations()`) maps to
  itself. `XCallCount` and `XArgsForCall` take the read lock, so they never
  see a call between its append and its record; `Invocations()` takes only
  the invocations mutex and sees exactly the recorded calls;
- its abstract result is the one fixed by the stub and the returns it
  captured.

`ImplementsAtomicFake` checks `AF!ASpec` as a property.

**Pure algorithms.** The validator, the build function and the relevance rules
are operators. `Directives` and `SetSameDirective` restate Conflicts as a
reference definition: two policies conflict when they set a directive in
common. `InputPorts`, `ShouldHaveSocket` and `FirstOnPort` restate the stream
servers' expected output over the whole input.

## 3. Runs

| Run | Expect | Checks | Shows |
|---|---|---|---|
| `cp_backends` | pass | `GraphFresh` | With a route, two backend Services and an EndpointSlice, an ignored change never leaves the published graph stale (~480k states). |
| `cp_listener` | pass | `GraphFresh` | Same, for a TLS listener with a cross-namespace Secret behind a ReferenceGrant and a namespace selector (~860k states). |
| `cp_relabel` | violation | `GraphFresh` | An EndpointSlice relabelled away from a referenced Service is judged by its new label only, so the graph keeps stale endpoints. |
| `cp_recapture` | violation | `NoopCaptureIsIgnored` | A no-op capture rebuilds the graph. The shortest trace deletes a referenced Service that was never upserted: spec 4.2 calls that relevant, P7 says it is no change. Re-upserting an identical referenced Secret also rebuilds; the test at change_processor_test.go:1679 expects this and P2 forbids it. |
| `policy_engine` | pass | `TypeOK`, `NoValidConflict`, `ConflictLoserHasWinner`, `AncestorsWithinCap`, `AncestorsUnique`, `AttachedHasValidAncestor`, `AncestorConditionsAccurate`, `NoPartialLocation`, `AffectedMarksTargets` | Every Go map order is tried, and conflicts (including a chain where the middle policy loses first) and the ancestor cap are handled correctly in all of them. Every ancestor's condition is accepted exactly when its Gateway or route is usable (spec I2), including missing and invalid Gateway targets. A route policy never covers only part of a shared location. Each targeted Gateway and route ends with its kind's Affected condition exactly once, whatever order the policies are visited in (~1.9M states, about 2 min). |
| `policy_order` | violation | `AttachOrderIndependent` | With one ancestor slot left, which Gateway gets it depends on map order. This contradicts the deterministic graph the spec promises. |
| `stream_servers` | pass | `PrereadPerPort`, `SocketPerRoutableServer` | Every port gets one preread server. Every routable passthrough server gets a socket server, also the later servers on a shared port. |
| `http_request` | pass | `GetReturnsWholeBody`, `RequestsReturn` | A truncated body is always reported as an error. Every request returns however the server stalls, even if the network never fails; the deadline is what ends a `client.Do` waiting on a silent server. |
| `http_cancel` | violation | `NoCancelBeforeRead` | `makeRequest`'s deferred `cancel()` can fail `Get`'s body read with "context canceled" although the response came back in time; `Post` (the shortest trace) hands its caller a response whose context is already canceled. |
| `fake_result` | pass | `ArgsIndexConsistent`, `ImplementsAtomicFake`, `CallsComplete` | Fakes of methods with a result are linearizable, calls and the test's reads included, and every call returns (~49k states). |
| `fake_void` | violation | `ImplementsAtomicFake` | `UpdateGroup` re-reads `UpdateGroupStub` after unlocking. It can run a stub installed after the call, or call nil. |

Every property of a passing run has a mutant in `PROJECT.json`. A mutant is a
plausible bug in the mapped definition that makes TLC report the property
violated. Examples: a dropped `valid` check on the winner, an overlap check that never
fires, a request context without a deadline, an off-by-one in the
ancestor cap, a missing Gateway ancestor without its NotFound condition,
an Affected condition appended without looking for one already there, the port check moved before socket creation, a lookup of
`ReturnsOnCall` from index 1, a missing unlock.

## 4. Bounds and why they suffice

**Change processor.** Each run has one Gateway, one route and one or two
Services. Every object kind the relevance rules distinguish occurs:
referenced and unreferenced, in the home namespace and in another one, with
and without a fitting grant. Each upsert may carry two versions, so both an
identical re-upsert and a real update happen. The runs explore every sequence
of Capture and Process calls over that universe.

**Policy engine.** The run uses three policies with distinct precedence.
Each is an UpstreamSettingsPolicy or a route policy. An UpstreamSettingsPolicy
picks among three target-ref lists and four settings: zoneSize valid,
zoneSize invalid, keepAlive timeout, and both zoneSize and timeout. The last
conflicts with the first and the third, which do not conflict with each other,
so the order in which markConflictedPolicies visits the pairs decides the
outcome. Some target a Service. A route policy turns tracing on or not
and targets one of three route lists:

- `r1` alone, which shares location `l1` with `r2`: invalid by the overlap
  rule;
- `r1` and `r2` together, whose parents are a Gateway with telemetry (`g1`)
  and one without (`g2`): a tracing policy fails for some parents only;
- `r3` and `r4`: `r3`'s only parent is `g2`, so a tracing policy fails for
  all its parents, and `r4` is not attachable.

The second and third lists also name Gateways: the valid `g1`, the missing
`gx` and the invalid `g3`, so every outcome of Gateway attachment occurs.

- There are two Services. One is shared by a valid, an invalid and an unknown
  Gateway.
- The foreign-ancestor count is 0 or 15. With 15, the 16 cap is reached by the
  second Gateway, and the boundary is the case that matters.

**Stream servers.** Up to three servers on two ports are used, with
hostnames empty or set and upstreams unknown, empty or with endpoints. There
are up to two stream upstreams, including two of the same name.

**HTTP request.** A two-chunk body lets a read stop mid-body.

**Fakes.** Two callers, two configuration calls and two observer calls
(three callers in the void runs' place would not add a case: the races are
between one call and the test goroutine) are enough to reach:

- a reconfiguration between two calls;
- a reconfiguration inside one call;
- a ReturnsOnCall index that a call will or will not hit;
- an observation while a call holds the mutex, and `XArgsForCall(i)` with
  `i` past the calls made so far (which panics in the code and the
  abstract spec alike).

## 5. Fairness

- **`HttpRequest`.** The client goroutine is weakly fair. The timer of
  `context.WithTimeout` is weakly fair: it fires once its deadline passes.
  Its steps that do not depend on the network are weakly fair. `client.Do`
  is split in two. `DoReturn` returns once headers arrived or the context
  ended, and it is fair. `DoFail` is a dial or connection error, and it is
  not fair, because the network need not ever fail. The server gets no
  fairness either, because a test server may stall for ever. So
  `RequestsReturn` cannot rely on a network error to end `client.Do`. Against
  a silent server only the deadline ends it. The body read ends anyway,
  because the deferred cancel has ended the context by then.
- **`CounterfeiterFake`.** Acquiring the mutex is strongly fair. Go's
  `sync.Mutex` switches to starvation mode and hands the lock to a waiter
  that has waited more than 1 ms, so a waiting caller cannot be passed over
  for ever. The other caller steps are weakly fair, because the goroutines
  are runnable. The test's configuration and observer calls get no
  fairness. A read lock is modelled as taken whenever no writer holds the
  mutex; `sync.RWMutex` also makes readers wait behind a waiting writer,
  which only removes behaviours.
- **Other modules.** The change processor, the policy engine and the stream
  servers are checked only for safety, so they need no fairness.

## 6. What is not modelled

- **The policy ingest pre-filter.** The P1
  pre-filter only drops policies that target other controllers' objects.
  Route targets are routes in the graph; a route ancestor is not
  deduplicated (the test "attachment with existing ancestor" pins that), and
  the model's target lists never name a route twice. The route policy's own
  field validation is reduced to tracing on or off. ClientSettingsPolicy and
  ObservabilityPolicy are one kind in the model, so the Affected step is
  checked with one condition kind: adding a second kind would more than
  double the policy run, which already takes over two minutes. The early
  return of `attachPolicies` when the graph has no Gateways is not modelled:
  every instance has Gateways.
- **Route matching and rendering.** Route matching, hostnames, filters,
  status conditions and text rendering are not modelled. They are not in
  `src/`, and the change processor's properties do not depend on them.
  `executeStreamServers` and the templates are formatting only.
- **`NewRetryUpdateFunc`.** Its code is not in `src/`. Its test pins only
  single-call outcomes.
- **The snippets-filter e2e suite.** It drives a live cluster. Its
  unchecked `Conditions[1]` index is listed as a hazard without a property.
- **Other counterfeiter methods.** The generated methods are all the same
  code, so the one model stands for them. `Invocations()` returns a
  shallow copy whose slices share backing arrays with the fake's; a later
  `append` never changes the copy's elements, so the copy is modelled as
  the value.
