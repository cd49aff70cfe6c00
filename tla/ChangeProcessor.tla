--------------------------- MODULE ChangeProcessor ---------------------------
(***************************************************************************)
(* The change processor facade (spec 4.7) over the object store (4.1):    *)
(* CaptureUpsert and CaptureDelete update the store and set the dirty bit *)
(* when the relevance tracker says so; Process rebuilds and publishes a   *)
(* graph when dirty and returns "no change" otherwise.  Callers serialize *)
(* all three calls (spec 5), so each is one atomic step.                  *)
(***************************************************************************)
EXTENDS RelevanceTracker

CONSTANTS
    ValsOf,        \* [ObjKeys -> SUBSET objects]: versions an upsert may carry
    SliceRelabel   \* may an upsert change an existing slice's service label?

VARIABLES
    store,         \* the object store: latest observed version per key
    dirty,         \* the relevance bit
    latest         \* the last published graph, NoGraph before the first

vars == <<store, dirty, latest>>

Init ==
    /\ store = EmptyStore
    /\ dirty = FALSE
    /\ latest = NoGraph

\* The Kubernetes EndpointSlice controller labels a slice with its Service
\* when it creates it; SliceRelabel says whether a later upsert may change it.
UpsertAllowed(k, v) ==
    k \in Slices /\ store[k] # NoObj => SliceRelabel \/ store[k].svc = v.svc

CaptureUpsert(k, v) ==
    /\ UpsertAllowed(k, v)
    /\ store' = [store EXCEPT ![k] = v]
    /\ dirty' = (dirty \/ RelevantUpsert(latest, k, store[k], v))
    /\ UNCHANGED latest

\* Deletes of the CRD are not events the processor receives.
CaptureDelete(k) ==
    /\ k # CRDKey
    /\ store' = [store EXCEPT ![k] = NoObj]
    /\ dirty' = (dirty \/ RelevantDelete(latest, k, store[k]))
    /\ UNCHANGED latest

Process ==
    /\ IF dirty
       THEN /\ latest' = Build(store)
            /\ dirty' = FALSE
       ELSE UNCHANGED <<latest, dirty>>
    /\ UNCHANGED store

Next ==
    \/ \E k \in ObjKeys : \E v \in ValsOf[k] : CaptureUpsert(k, v)
    \/ \E k \in ObjKeys : CaptureDelete(k)
    \/ Process

Spec == Init /\ [][Next]_vars

-----------------------------------------------------------------------------
\* The graph a caller holds after Process returned: the last published one,
\* or the empty graph of the empty store before anything was published.
Published == PrevView(latest)

(***************************************************************************)
(* GraphFresh: whenever the dirty bit is clear, the graph the caller      *)
(* holds is the graph a rebuild from the current store would produce.     *)
(* This is what makes Process's "no change" safe: every capture the       *)
(* tracker called irrelevant (a Secret, Service, EndpointSlice or         *)
(* Namespace judged against the previous graph's reference sets) left the *)
(* graph unchanged.                                                       *)
(***************************************************************************)
GraphFresh == ~dirty => Published = Build(store)

(***************************************************************************)
(* NoopCaptureIsIgnored (spec 8, P2 and P7): a capture that leaves the    *)
(* store as it was, re-upserting an object identical to the stored one or *)
(* deleting an object that is not there, never makes the next Process     *)
(* return a graph.                                                        *)
(***************************************************************************)
NoopCaptureIsIgnored ==
    [][\A k \in ObjKeys :
          /\ \A v \in ValsOf[k] : (CaptureUpsert(k, v) /\ store[k] = v) => dirty' = dirty
          /\ (CaptureDelete(k) /\ store[k] = NoObj) => dirty' = dirty]_vars

=============================================================================
