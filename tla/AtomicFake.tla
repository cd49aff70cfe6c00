----------------------------- MODULE AtomicFake -----------------------------
(***************************************************************************)
(* What a counterfeiter fake method promises its test: each call is one   *)
(* atomic step that appends the call to ArgsForCall and fixes its result  *)
(* from the configuration in force at that moment (a stub set with        *)
(* XCalls, else the XReturnsOnCall value for the call's index, else the   *)
(* XReturns value); the caller gets that result when the call returns.    *)
(* For a method without results the "result" is the stub that ran.        *)
(* The test's observers (XCallCount, XArgsForCall, Invocations) each see  *)
(* the calls made so far, in one step.                                    *)
(***************************************************************************)
EXTENDS Naturals, Sequences, FiniteSets

CONSTANTS
    Callers,      \* goroutines that call the faked method once each
    Vals,         \* values XReturns / XReturnsOnCall may configure
    ZeroVal,      \* the zero value of the result (a nil error)
    Stubs,        \* stub functions XCalls may install
    NoStub,       \* a nil stub
    Pending,      \* no result yet
    VoidMethod,   \* the method has no results (FakeGroupUpdater.UpdateGroup)
    MaxConfig,    \* bound on the test's configuration calls
    MaxObserve    \* bound on the test's observer calls

VARIABLES
    calls,        \* ArgsForCall: callers in call order
    apc,          \* [Callers -> {"idle", "called", "done"}]
    result,       \* [Callers -> result or Pending]
    stubF,        \* XStub
    returnsF,     \* XReturns result
    onCallF,      \* XReturnsOnCall: call index -> result
    cfgOps,       \* configuration calls made so far
    observed,     \* what the test's last observer call returned
    obsOps        \* observer calls made so far

avars == <<calls, apc, result, stubF, returnsF, onCallF, cfgOps, observed, obsOps>>

StubRan(s) == <<"stub", s>>
NoResult == "none"
Panicked == "panic"   \* a runtime panic: nil func call, index out of range
CallIndices == 0..(Cardinality(Callers) - 1)

\* The result of a call with index idx under a configuration.
Outcome(stub, onCall, returns, idx) ==
    CASE stub # NoStub         -> StubRan(stub)
      [] VoidMethod            -> NoResult
      [] idx \in DOMAIN onCall -> onCall[idx]
      [] OTHER                 -> returns

AInit ==
    /\ calls = <<>>
    /\ apc = [c \in Callers |-> "idle"]
    /\ result = [c \in Callers |-> Pending]
    /\ stubF = NoStub
    /\ returnsF = ZeroVal
    /\ onCallF = [i \in {} |-> NoResult]
    /\ cfgOps = 0
    /\ observed = <<"none">>
    /\ obsOps = 0

ACall(c) ==
    /\ apc[c] = "idle"
    /\ calls' = Append(calls, c)
    /\ result' = [result EXCEPT ![c] =
                    Outcome(stubF, onCallF, returnsF, Len(calls))]
    /\ apc' = [apc EXCEPT ![c] = "called"]
    /\ UNCHANGED <<stubF, returnsF, onCallF, cfgOps, observed, obsOps>>

AReturn(c) ==
    /\ apc[c] = "called"
    /\ apc' = [apc EXCEPT ![c] = "done"]
    /\ UNCHANGED <<calls, result, stubF, returnsF, onCallF, cfgOps, observed,
                   obsOps>>

\* The test's configuration calls, each atomic.
AConfigure ==
    /\ cfgOps < MaxConfig
    /\ cfgOps' = cfgOps + 1
    /\ \/ \E s \in Stubs \cup {NoStub} :
             /\ stubF' = s
             /\ UNCHANGED <<returnsF, onCallF>>
       \/ /\ ~VoidMethod
          /\ \E v \in Vals :
                /\ stubF' = NoStub
                /\ \/ returnsF' = v /\ UNCHANGED onCallF
                   \/ \E i \in CallIndices :
                         /\ onCallF' = [j \in DOMAIN onCallF \cup {i} |->
                                          IF j = i THEN v ELSE onCallF[j]]
                         /\ UNCHANGED returnsF
    /\ UNCHANGED <<calls, apc, result, observed, obsOps>>

\* XCallCount(), XArgsForCall(i) (out of range panics) and Invocations(),
\* each atomic.
AObserve ==
    /\ obsOps < MaxObserve
    /\ obsOps' = obsOps + 1
    /\ \/ observed' = <<"CallCount", Len(calls)>>
       \/ \E i \in CallIndices :
             observed' = <<"ArgsForCall", i,
                           IF i < Len(calls) THEN calls[i + 1] ELSE Panicked>>
       \/ observed' = <<"Invocations", calls>>
    /\ UNCHANGED <<calls, apc, result, stubF, returnsF, onCallF, cfgOps>>

ANext ==
    \/ \E c \in Callers : ACall(c) \/ AReturn(c)
    \/ AConfigure
    \/ AObserve

ASpec == AInit /\ [][ANext]_avars

=============================================================================
