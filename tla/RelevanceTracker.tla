-------------------------- MODULE RelevanceTracker --------------------------
(***************************************************************************)
(* The relevance tracker (spec 4.2): whether one upsert or delete can     *)
(* change the graph, answered from the previously published graph's      *)
(* reference sets alone, without building a graph.                       *)
(***************************************************************************)
EXTENDS GraphBuilder

\* Kinds kept in the store and compared by generation / bundle version:
\* GatewayClass, Gateway, Routes, ReferenceGrant, the Gateway API CRD.
PersistedKeys == {GatewayClassKey, CRDKey, GatewayKey} \cup Routes \cup GrantKeys

\* The previous graph as the tracker sees it; before the first publication
\* every reference set is empty.
CONSTANT NoGraph   \* no graph published yet (model value)
PrevView(latest) == IF latest = NoGraph THEN Build(EmptyStore) ELSE latest

SelectorInGraph(g) ==
    /\ g.gateway # NoObj
    /\ g.gateway.listener # NoObj
    /\ g.gateway.listener.sel

\* Variant for mutation runs: a namespace counts only by its new labels,
\* forgetting that it was in the previous graph's ReferencedNamespaces.
RelevantUpsertNewLabelsOnly(latest, k, old, new) ==
  LET g == PrevView(latest) IN
  CASE k \in PersistedKeys -> old # new
    [] k \in Secrets       -> k \in DOMAIN g.secrets
    [] k \in Services      -> k \in DOMAIN g.services
    [] k \in Slices        -> new.svc \in DOMAIN g.services
    [] k \in NsKeys        -> new = "match" /\ SelectorInGraph(g)

\* Upsert of object new at key k, whose stored version was old.
RelevantUpsert(latest, k, old, new) ==
  LET g == PrevView(latest) IN
  CASE k \in PersistedKeys -> old # new
    [] k \in Secrets       -> k \in DOMAIN g.secrets
    [] k \in Services      -> k \in DOMAIN g.services
    [] k \in Slices        -> new.svc \in DOMAIN g.services
    [] k \in NsKeys        -> \/ k \in DOMAIN g.namespaces
                              \/ new = "match" /\ SelectorInGraph(g)

\* Variant for mutation runs: relevance asked after the object was removed,
\* so the slice's label is no longer there to read.
RelevantDeleteAfterRemove(latest, k, old) ==
  LET g == PrevView(latest) IN
  CASE k \in PersistedKeys -> old # NoObj
    [] k \in Secrets       -> k \in DOMAIN g.secrets
    [] k \in Services      -> k \in DOMAIN g.services
    [] k \in Slices        -> FALSE
    [] k \in NsKeys        -> k \in DOMAIN g.namespaces

\* Delete of key k whose stored version was old; the slice's label is read
\* from the stored object before it is removed.
RelevantDelete(latest, k, old) ==
  LET g == PrevView(latest) IN
  CASE k \in PersistedKeys -> old # NoObj
    [] k \in Secrets       -> k \in DOMAIN g.secrets
    [] k \in Services      -> k \in DOMAIN g.services
    [] k \in Slices        -> old # NoObj /\ old.svc \in DOMAIN g.services
    [] k \in NsKeys        -> k \in DOMAIN g.namespaces

=============================================================================
