-------------------------- MODULE CounterfeiterFake --------------------------
(***************************************************************************)
(* One method of a counterfeiter-generated fake, as in                    *)
(* FakeProvisioner.RegisterGateway, FakeReader.Get / List (methods with   *)
(* a result) and FakeGroupUpdater.UpdateGroup (a method without one),     *)
(* called concurrently by goroutines of the code under test while the     *)
(* test goroutine configures it.  A call takes the method mutex, looks up *)
(* XReturnsOnCall by the number of calls so far, appends its arguments,   *)
(* captures the stub and XReturns, records the invocation under the       *)
(* invocations mutex, unlocks, and only then runs the stub or returns.    *)
(* The configuration calls (XCalls, XReturns, XReturnsOnCall) each hold   *)
(* the method mutex for their whole body, so each is one step.            *)
(***************************************************************************)
EXTENDS Naturals, Sequences, FiniteSets

CONSTANTS
    Callers, Vals, ZeroVal, Stubs, NoStub, Pending, VoidMethod, MaxConfig,
    MaxObserve,   \* bound on the test's observer calls
    NoOne         \* the mutex is free

VARIABLES
    mu,           \* the method's mutex: holder or NoOne
    args,         \* xArgsForCall: callers in append order
    invocations,  \* invocations["X"]
    stubField,    \* XStub
    returnsField, \* xReturns.result1
    onCallField,  \* xReturnsOnCall
    cfgOps,       \* configuration calls made so far
    pc,           \* [Callers -> program point]
    idx,          \* [Callers -> len(xArgsForCall) read under the lock]
    specific,     \* [Callers -> specificReturn]
    ret,          \* [Callers -> ret.result1]
    stub,         \* [Callers -> the captured stub]
    fakeReturns,  \* [Callers -> the captured xReturns]
    result,       \* [Callers -> what the call returned, Pending before]
    observed,     \* what the test's last observer call returned
    obsOps        \* observer calls made so far

vars == <<mu, args, invocations, stubField, returnsField, onCallField, cfgOps,
          pc, idx, specific, ret, stub, fakeReturns, result, observed, obsOps>>
locals == <<idx, specific, ret, stub, fakeReturns>>
obs == <<observed, obsOps>>

StubRan(s) == <<"stub", s>>
NoResult == "none"
Panicked == "panic"   \* a call of a nil func value

Init ==
    /\ mu = NoOne
    /\ args = <<>>
    /\ invocations = <<>>
    /\ stubField = NoStub
    /\ returnsField = ZeroVal
    /\ onCallField = [i \in {} |-> NoResult]
    /\ cfgOps = 0
    /\ pc = [c \in Callers |-> "idle"]
    /\ idx = [c \in Callers |-> 0]
    /\ specific = [c \in Callers |-> FALSE]
    /\ ret = [c \in Callers |-> ZeroVal]
    /\ stub = [c \in Callers |-> NoStub]
    /\ fakeReturns = [c \in Callers |-> ZeroVal]
    /\ result = [c \in Callers |-> Pending]
    /\ observed = <<"none">>
    /\ obsOps = 0

\* A goroutine of the code under test calls the faked method.
Call(c) ==
    /\ pc[c] = "idle"
    /\ pc' = [pc EXCEPT ![c] = "lock"]
    /\ UNCHANGED <<obs, mu, args, invocations, stubField, returnsField, onCallField,
                   cfgOps, locals, result>>

\* Variant for mutation runs: the caller enters without waiting for the
\* holder to unlock.
LockIgnoringHolder(c) ==
    /\ pc[c] = "lock"
    /\ mu' = c
    /\ pc' = [pc EXCEPT ![c] = IF VoidMethod THEN "append" ELSE "lookup"]
    /\ UNCHANGED <<obs, args, invocations, stubField, returnsField, onCallField,
                   cfgOps, locals, result>>

\* fake.xMutex.Lock(): wait until the mutex is free. A method without
\* results goes on to the append: it has no XReturnsOnCall to look up.
Lock(c) ==
    /\ pc[c] = "lock"
    /\ mu = NoOne
    /\ mu' = c
    /\ pc' = [pc EXCEPT ![c] = IF VoidMethod THEN "append" ELSE "lookup"]
    /\ UNCHANGED <<obs, args, invocations, stubField, returnsField, onCallField,
                   cfgOps, locals, result>>

\* Variant for mutation runs: XReturnsOnCall counted from one.
LookupFromOne(c) ==
    /\ pc[c] = "lookup"
    /\ idx' = [idx EXCEPT ![c] = Len(args)]
    /\ specific' = [specific EXCEPT ![c] = Len(args) + 1 \in DOMAIN onCallField]
    /\ ret' = [ret EXCEPT ![c] = IF specific'[c] THEN onCallField[Len(args) + 1] ELSE ZeroVal]
    /\ pc' = [pc EXCEPT ![c] = "append"]
    /\ UNCHANGED <<obs, mu, args, invocations, stubField, returnsField, onCallField,
                   cfgOps, stub, fakeReturns, result>>

\* ret, specificReturn := fake.xReturnsOnCall[len(fake.xArgsForCall)]
Lookup(c) ==
    /\ pc[c] = "lookup"
    /\ idx' = [idx EXCEPT ![c] = Len(args)]
    /\ specific' = [specific EXCEPT ![c] = Len(args) \in DOMAIN onCallField]
    /\ ret' = [ret EXCEPT ![c] = IF specific'[c] THEN onCallField[Len(args)] ELSE ZeroVal]
    /\ pc' = [pc EXCEPT ![c] = "append"]
    /\ UNCHANGED <<obs, mu, args, invocations, stubField, returnsField, onCallField,
                   cfgOps, stub, fakeReturns, result>>

\* Append the arguments; stub := fake.XStub; fakeReturns := fake.xReturns.
AppendAndCapture(c) ==
    /\ pc[c] = "append"
    /\ args' = Append(args, c)
    /\ stub' = [stub EXCEPT ![c] = stubField]
    /\ fakeReturns' = [fakeReturns EXCEPT ![c] = returnsField]
    /\ pc' = [pc EXCEPT ![c] = "record"]
    /\ UNCHANGED <<obs, mu, invocations, stubField, returnsField, onCallField,
                   cfgOps, idx, specific, ret, result>>

\* recordInvocation: under the invocations mutex, which nests inside the
\* method mutex here and is taken alone by Invocations(), so it is never
\* waited on while holding it.
RecordInvocation(c) ==
    /\ pc[c] = "record"
    /\ invocations' = Append(invocations, c)
    /\ pc' = [pc EXCEPT ![c] = "unlock"]
    /\ UNCHANGED <<obs, mu, args, stubField, returnsField, onCallField, cfgOps,
                   locals, result>>

\* Variant for mutation runs: an early return that skips the Unlock.
UnlockMissing(c) ==
    /\ pc[c] = "unlock"
    /\ pc' = [pc EXCEPT ![c] = "return"]
    /\ UNCHANGED <<obs, mu, args, invocations, stubField, returnsField,
                   onCallField, cfgOps, locals, result>>

\* fake.xMutex.Unlock()
Unlock(c) ==
    /\ pc[c] = "unlock"
    /\ mu' = NoOne
    /\ pc' = [pc EXCEPT ![c] = "return"]
    /\ UNCHANGED <<obs, args, invocations, stubField, returnsField, onCallField,
                   cfgOps, locals, result>>

\* After the unlock, a method with a result: `return stub(...)` runs the
\* captured stub, else the specific or the default return.
ReturnWithResult(c) ==
    /\ pc[c] = "return"
    /\ result' = [result EXCEPT ![c] =
         CASE stub[c] # NoStub -> StubRan(stub[c])
           [] specific[c]      -> ret[c]
           [] OTHER            -> fakeReturns[c]]
    /\ pc' = [pc EXCEPT ![c] = "done"]
    /\ UNCHANGED <<obs, mu, args, invocations, stubField, returnsField,
                   onCallField, cfgOps, locals>>

\* After the unlock, a method without a result tests the captured stub but
\* calls fake.XStub, read again without the lock: by now it may be another
\* stub, or nil, and calling a nil func panics.
ReturnVoid(c) ==
    /\ pc[c] = "return"
    /\ result' = [result EXCEPT ![c] =
         CASE stub[c] = NoStub    -> NoResult
           [] stubField = NoStub  -> Panicked
           [] OTHER               -> StubRan(stubField)]
    /\ pc' = [pc EXCEPT ![c] = IF result'[c] = Panicked THEN "panicked" ELSE "done"]
    /\ UNCHANGED <<obs, mu, args, invocations, stubField, returnsField,
                   onCallField, cfgOps, locals>>

Return(c) == IF VoidMethod THEN ReturnVoid(c) ELSE ReturnWithResult(c)

\* XCalls(stub): set the stub under the lock.
Calls(s) ==
    /\ mu = NoOne /\ cfgOps < MaxConfig
    /\ stubField' = s
    /\ cfgOps' = cfgOps + 1
    /\ UNCHANGED <<obs, mu, args, invocations, returnsField, onCallField, pc,
                   locals, result>>

\* XReturns(v): clear the stub, set the default result.
Returns(v) ==
    /\ ~VoidMethod
    /\ mu = NoOne /\ cfgOps < MaxConfig
    /\ stubField' = NoStub
    /\ returnsField' = v
    /\ cfgOps' = cfgOps + 1
    /\ UNCHANGED <<obs, mu, args, invocations, onCallField, pc, locals, result>>

\* XReturnsOnCall(i, v): clear the stub, set the result of call i (the map
\* is made on first use).
ReturnsOnCall(i, v) ==
    /\ ~VoidMethod
    /\ mu = NoOne /\ cfgOps < MaxConfig
    /\ stubField' = NoStub
    /\ onCallField' = [j \in DOMAIN onCallField \cup {i} |->
                         IF j = i THEN v ELSE onCallField[j]]
    /\ cfgOps' = cfgOps + 1
    /\ UNCHANGED <<obs, mu, args, invocations, returnsField, pc, locals, result>>


CallIndices == 0..(Cardinality(Callers) - 1)

\* The test goroutine reads the fake.
Observe(o) ==
    /\ obsOps < MaxObserve
    /\ observed' = o
    /\ obsOps' = obsOps + 1
    /\ UNCHANGED <<mu, args, invocations, stubField, returnsField, onCallField,
                   cfgOps, pc, locals, result>>

\* Variant for mutation runs: XCallCount reads len(xArgsForCall) without
\* taking the read lock.
CallCountNoLock ==
    Observe(<<"CallCount", Len(args)>>)

\* XCallCount(): len(xArgsForCall) under the read lock, which waits while a
\* call holds the method mutex.
CallCount ==
    /\ mu = NoOne
    /\ Observe(<<"CallCount", Len(args)>>)

\* XArgsForCall(i): xArgsForCall[i] under the read lock; an index past the
\* calls made so far panics.
ArgsForCall(i) ==
    /\ mu = NoOne
    /\ Observe(<<"ArgsForCall", i, IF i < Len(args) THEN args[i + 1] ELSE Panicked>>)

\* Invocations(): a copy of the invocations map under the invocations
\* mutex alone.
Invocations ==
    Observe(<<"Invocations", invocations>>)

CallerStep(c) ==
    \/ Call(c) \/ Lock(c) \/ Lookup(c) \/ AppendAndCapture(c) \/ RecordInvocation(c)
    \/ Unlock(c) \/ Return(c)

Configure ==
    \/ \E s \in Stubs \cup {NoStub} : Calls(s)
    \/ \E v \in Vals : Returns(v)
    \/ \E i \in CallIndices, v \in Vals : ReturnsOnCall(i, v)

Observer ==
    \/ CallCount
    \/ \E i \in CallIndices : ArgsForCall(i)
    \/ Invocations

Next ==
    \/ \E c \in Callers : CallerStep(c)
    \/ Configure
    \/ Observer

\* Goroutines are scheduled fairly; sync.Mutex hands the lock to a waiter
\* that keeps being passed over (starvation mode), so a Lock that is
\* enabled again and again is eventually taken.
Fairness ==
    \A c \in Callers :
        /\ SF_vars(Lock(c))
        /\ WF_vars(Lookup(c) \/ AppendAndCapture(c) \/ RecordInvocation(c)
                   \/ Unlock(c) \/ Return(c))

Spec == Init /\ [][Next]_vars
FairSpec == Spec /\ Fairness

-----------------------------------------------------------------------------
(***************************************************************************)
(* ArgsIndexConsistent: the index a call used to look up XReturnsOnCall   *)
(* is the position its arguments took in XArgsForCall, so                 *)
(* XReturnsOnCall(i) answers exactly the call XArgsForCall(i) shows.      *)
(* Reading len() and appending are two statements; only the mutex keeps   *)
(* another caller out between them.                                       *)
(***************************************************************************)
ArgsIndexConsistent ==
    \A c \in Callers :
        pc[c] \in {"record", "unlock", "return", "done", "panicked"}
            => idx[c] < Len(args) /\ args[idx[c] + 1] = c

\* The result the call will return, fixed by what it captured.
Captured(c) ==
    CASE stub[c] # NoStub -> StubRan(stub[c])
      [] VoidMethod       -> NoResult
      [] specific[c]      -> ret[c]
      [] OTHER            -> fakeReturns[c]

AbstractPc(c) ==
    CASE pc[c] \in {"idle", "lock", "lookup", "append", "record"} -> "idle"
      [] pc[c] \in {"done", "panicked"}          -> "done"
      [] OTHER                                   -> "called"

AF == INSTANCE AtomicFake
        WITH calls <- invocations,
             apc <- [c \in Callers |-> AbstractPc(c)],
             result <- [c \in Callers |->
                          CASE AbstractPc(c) = "idle" -> Pending
                            [] pc[c] \in {"done", "panicked"} -> result[c]
                            [] OTHER -> Captured(c)],
             stubF <- stubField,
             returnsF <- returnsField,
             onCallF <- onCallField

(***************************************************************************)
(* ImplementsAtomicFake: the fake behaves as if each call were one atomic *)
(* step taken when its invocation is recorded, its result fixed then by   *)
(* the stub, XReturnsOnCall or XReturns in force, whatever the test       *)
(* reconfigures while calls are in flight; and XCallCount, XArgsForCall   *)
(* and Invocations, read by the test while calls are in flight, agree    *)
(* with one such sequence of atomic calls although Invocations takes a    *)
(* different mutex from the other two.                                    *)
(***************************************************************************)
ImplementsAtomicFake == AF!ASpec

(***************************************************************************)
(* CallsComplete: every call of the fake returns, however many goroutines *)
(* call it and however the test interleaves its configuration calls: the  *)
(* method mutex is always released, and the invocations mutex, taken      *)
(* inside it, is never held while waiting for it.                         *)
(***************************************************************************)
CallsComplete ==
    \A c \in Callers : pc[c] = "lock" ~> pc[c] = "done"

=============================================================================
