---------------------------- MODULE DiscoveryProofs ----------------------------
(***************************************************************************)
(* What Discovery keeps for any number of consumers and namespaces, and    *)
(* under which conditions.                                                 *)
(***************************************************************************)
EXTENDS Discovery, TLAPS

USE DEF server, cache

\* No hub has an invalid namespaceSelector; a run shows that hubs miss resources
\* otherwise.
HubsAreQuiet == \A spec \in HubSpecs : spec.namespaceSelector # Invalid

\* Specifications select from their own namespace only.
SpecificationsStayHome == \A spec \in SpecificationSpecs : spec.namespaceSelector = Own

LEMMA InitTyped == Init => TypeOK
<1> SUFFICES ASSUME Init PROVE TypeOK
  OBVIOUS
<1>1. moved \in BOOLEAN
  BY Zenon DEF Init
<1>. QED BY <1>1, DiscoveryAssumption DEF Init, TypeOK

LEMMA NextTyped == TypeOK /\ [Next]_vars => TypeOK'
<1> SUFFICES ASSUME TypeOK, [Next]_vars PROVE TypeOK'
  OBVIOUS
<1> USE DiscoveryAssumption DEF Tick
<1>1. ASSUME NEW n \in Namespaces, ChangeNamespace(n) \/ DeliverNamespace(n)
      PROVE  TypeOK'
  <2>1. moved' \in BOOLEAN
    BY <1>1, Zenon DEF TypeOK, ChangeNamespace, DeliverNamespace
  <2>. QED BY <1>1, <2>1 DEF TypeOK, ChangeNamespace, DeliverNamespace
<1>2. ASSUME NEW r \in Resources, ChangeResource(r)
      PROVE  TypeOK'
  BY <1>2 DEF TypeOK, ChangeResource
<1>3. ASSUME NEW r \in Resources, DeliverResource(r)
      PROVE  TypeOK'
  <2>1. Requests(r, cachedResource[r], resource[r]) \subseteq Consumers
    BY DEF Requests, HubRequests, SpecificationRequests, Consumers
  <2>. QED BY <1>3, <2>1 DEF TypeOK, DeliverResource
<1>4. ASSUME NEW c \in Consumers, ChangeConsumer(c)
      PROVE  TypeOK'
  <2>1. PICK spec \in Specs(c) \cup {None} : consumer' = [consumer EXCEPT ![c] = spec]
    BY <1>4 DEF ChangeConsumer
  <2>2. spec \in HubSpecs \cup SpecificationSpecs \cup {None}
    BY DEF Specs
  <2>3. \A e \in Consumers : consumer'[e] \in Specs(e) \cup {None}
    BY <2>1 DEF TypeOK
  <2>. QED BY <1>4, <2>1, <2>2, <2>3 DEF TypeOK, ChangeConsumer
<1>5. ASSUME NEW c \in Consumers, DeliverConsumer(c) \/ Skip(c) \/ Reject(c)
      PROVE  TypeOK'
  BY <1>5 DEF TypeOK, DeliverConsumer, Skip, Reject
<1>6. ASSUME NEW c \in Consumers, Discover(c)
      PROVE  TypeOK'
  <2>1. Lookup(c) \subseteq Resources
    BY DEF Lookup
  <2>. QED BY <1>6, <2>1 DEF TypeOK, Discover
<1>7. CASE Restart
  BY <1>7 DEF TypeOK, Restart
<1>8. CASE UNCHANGED vars
  BY <1>8 DEF TypeOK, vars
<1>. QED BY <1>1, <1>2, <1>3, <1>4, <1>5, <1>6, <1>7, <1>8 DEF Next

\* Every variable keeps to its type.
THEOREM TypeCorrect == Spec => []TypeOK
  BY InitTyped, NextTyped, PTL DEF Spec

-------------------------------------------------------------------------------
(* A trigger for every change of a lookup.                                  *)

\* Namespaces in the cache are the ones on the server, until they change.
NamespacesKnown == moved \/ cachedNamespace = namespace

\* The conditions under which c's map function agrees with its lookup.
Watched(c) ==
  \/ c \in Hubs /\ HubsAreQuiet
  \/ c \in Specifications /\ SpecificationsStayHome

\* A changed resource that c selects, or selected, enqueues c.
LEMMA SelectedIsRequested ==
  ASSUME TypeOK, NEW c \in Consumers, Watched(c), Managed(c), Valid(cachedConsumer[c]),
         NEW r \in Resources, NEW old, NEW new,
         NEW label \in {old, new} \ {None},
         label \in cachedConsumer[c].selector, r[1] \in SelectedNamespaces(c)
  PROVE  c \in Requests(r, old, new)
<1>1. Matches(c, label) /\ cachedConsumer[c] # None /\ cachedConsumer[c] \in Specs(c)
  BY DEF Matches, Valid, Managed, TypeOK
<1>2. CASE c \in Hubs /\ HubsAreQuiet
  <2>1. \A h \in Hubs : cachedConsumer[h] # None => cachedConsumer[h].namespaceSelector # Invalid
    BY <1>2 DEF TypeOK, Specs, HubsAreQuiet, Consumers
  <2>. QED BY <1>1, <1>2, <2>1 DEF Requests, HubRequests
<1>3. CASE c \in Specifications /\ SpecificationsStayHome
  <2>1. Home[c] = r[1]
    BY <1>1, <1>3, DiscoveryAssumption DEF Specs, SpecificationsStayHome, SelectedNamespaces
  <2>. QED BY <1>1, <1>3, <2>1 DEF Requests, SpecificationRequests
<1>. QED BY <1>2, <1>3 DEF Watched

\* Of what c looks up, a delivery of r changes r at most.
LEMMA LookupChangesWithResource ==
  ASSUME TypeOK, NEW c \in Consumers, Watched(c), Managed(c), Valid(cachedConsumer[c]),
         NEW r \in Resources, DeliverResource(r), c \notin queue'
  PROVE  Lookup(c)' = Lookup(c)
<1>1. /\ cachedConsumer' = cachedConsumer /\ cachedNamespace' = cachedNamespace
      /\ cachedResource'[r] = resource[r]
      /\ \A s \in Resources \ {r} : cachedResource'[s] = cachedResource[s]
      /\ c \notin Requests(r, cachedResource[r], resource[r])
  BY DEF DeliverResource, TypeOK
<1>2. r[1] \in SelectedNamespaces(c) =>
        \A label \in {cachedResource[r], resource[r]} \ {None} :
          label \notin cachedConsumer[c].selector
  BY <1>1, SelectedIsRequested
<1>3. SelectedNamespaces(c)' = SelectedNamespaces(c)
  BY <1>1 DEF SelectedNamespaces
<1>. QED BY <1>1, <1>2, <1>3 DEF Lookup

LEMMA NamespaceKeepsLookup ==
  ASSUME NamespacesKnown, NEW c \in Consumers, ~Exposed(c),
         NEW n \in Namespaces, DeliverNamespace(n)
  PROVE  Lookup(c)' = Lookup(c)
<1>1. cachedConsumer[c].namespaceSelector = Own
  BY DEF DeliverNamespace, NamespacesKnown, Exposed
<1>2. SelectedNamespaces(c)' = SelectedNamespaces(c)
  BY <1>1 DEF SelectedNamespaces, DeliverNamespace
<1>. QED BY <1>2 DEF Lookup, DeliverNamespace

LEMMA CompleteKept ==
  ASSUME TypeOK, NamespacesKnown, [Next]_vars, NEW c \in Consumers, Watched(c), Complete(c)
  PROVE  Complete(c)'
<1> SUFFICES ASSUME c \notin queue', Managed(c)', ~Exposed(c)'
             PROVE  (Valid(cachedConsumer[c]) /\ discovered[c] = Lookup(c))'
  BY DEF Complete
<1> USE DEF Complete, Managed, Valid, Exposed
<1>1. ASSUME NEW n \in Namespaces, DeliverNamespace(n)
      PROVE  (Valid(cachedConsumer[c]) /\ discovered[c] = Lookup(c))'
  <2>1. UNCHANGED <<cachedConsumer, discovered, queue, moved>>
    BY <1>1 DEF DeliverNamespace
  <2>. QED BY <1>1, <2>1, NamespaceKeepsLookup
<1>2. ASSUME NEW r \in Resources, DeliverResource(r)
      PROVE  (Valid(cachedConsumer[c]) /\ discovered[c] = Lookup(c))'
  <2>1. UNCHANGED <<cachedConsumer, discovered, moved>> /\ queue \subseteq queue'
    BY <1>2 DEF DeliverResource
  <2>. QED BY <1>2, <2>1, LookupChangesWithResource
<1>3. ASSUME NEW e \in Consumers, DeliverConsumer(e) \/ Skip(e) \/ Discover(e) \/ Reject(e)
      PROVE  (Valid(cachedConsumer[c]) /\ discovered[c] = Lookup(c))'
  <2>. UNCHANGED <<cachedNamespace, cachedResource, moved>>
    BY <1>3 DEF DeliverConsumer, Skip, Discover, Reject
  <2>1. CASE e # c
    <3>1. cachedConsumer'[c] = cachedConsumer[c] /\ discovered'[c] = discovered[c] /\ c \notin queue
      BY <1>3, <2>1 DEF DeliverConsumer, Skip, Discover, Reject, TypeOK
    <3>. QED BY <3>1 DEF Lookup, SelectedNamespaces
  <2>2. CASE e = c /\ Discover(e)
    <3>1. UNCHANGED cachedConsumer /\ discovered'[c] = Lookup(c) /\ Valid(cachedConsumer[c])
      BY <2>2 DEF Discover, TypeOK
    <3>. QED BY <3>1 DEF Lookup, SelectedNamespaces
  <2>3. CASE e = c /\ Skip(e)
    BY <2>3 DEF Skip
  <2>4. CASE e = c /\ (DeliverConsumer(e) \/ Reject(e))
    BY <2>4 DEF DeliverConsumer, Reject
  <2>. QED BY <1>3, <2>1, <2>2, <2>3, <2>4
<1>4. CASE Restart
  BY <1>4 DEF Restart
<1>5. CASE \/ UNCHANGED vars
           \/ \E n \in Namespaces : ChangeNamespace(n)
           \/ \E r \in Resources : ChangeResource(r)
           \/ \E e \in Consumers : ChangeConsumer(e)
  <2>1. /\ UNCHANGED <<cachedNamespace, cachedResource, cachedConsumer, queue, discovered>>
        /\ moved => moved'
    BY <1>5 DEF vars, ChangeNamespace, ChangeResource, ChangeConsumer
  <2>. QED BY <2>1 DEF Lookup, SelectedNamespaces
<1>. QED BY <1>1, <1>2, <1>3, <1>4, <1>5 DEF Next

LEMMA NamespacesStayKnown == Spec => []NamespacesKnown
<1>1. Init => NamespacesKnown
  BY DEF Init, NamespacesKnown
<1>2. TypeOK /\ NamespacesKnown /\ [Next]_vars => NamespacesKnown'
  BY DiscoveryAssumption DEF TypeOK, NamespacesKnown, Next, vars, ChangeNamespace, DeliverNamespace,
         ChangeResource, DeliverResource, ChangeConsumer, DeliverConsumer, Skip, Discover, Reject,
         Restart
<1>. QED BY <1>1, <1>2, TypeCorrect, PTL DEF Spec

\* Whatever the order in which informers deliver, a hub that is not about to
\* run has discovered all its selectors select.
THEOREM HubsDiscoverEverything ==
  ASSUME HubsAreQuiet
  PROVE  Spec => []HubsMissNothing
<1>1. Init => HubsMissNothing
  BY DEF Init, HubsMissNothing, Complete, Managed, Consumers
<1>2. TypeOK /\ NamespacesKnown /\ HubsMissNothing /\ [Next]_vars => HubsMissNothing'
  BY HubsAreQuiet, CompleteKept DEF HubsMissNothing, Watched, Consumers
<1>. QED BY <1>1, <1>2, TypeCorrect, NamespacesStayKnown, PTL DEF Spec

\* The same of specifications, as long as they look up their own namespace.
THEOREM SpecificationsDiscoverEverything ==
  ASSUME SpecificationsStayHome
  PROVE  Spec => []SpecificationsMissNothing
<1>1. Init => SpecificationsMissNothing
  BY DEF Init, SpecificationsMissNothing, Complete, Managed, Consumers
<1>2. TypeOK /\ NamespacesKnown /\ SpecificationsMissNothing /\ [Next]_vars
        => SpecificationsMissNothing'
  BY SpecificationsStayHome, CompleteKept DEF SpecificationsMissNothing, Watched, Consumers
<1>. QED BY <1>1, <1>2, TypeCorrect, NamespacesStayKnown, PTL DEF Spec

\* With its caches caught up, what a consumer looks up is what the server has.
LEMMA LookupIsSelected ==
  ASSUME NamespacesKnown, NEW c \in Consumers, Settled(c), ~Exposed(c)
  PROVE  Lookup(c) = Selected(c)
<1>1. CASE consumer[c].namespaceSelector = Own
  BY <1>1 DEF Lookup, Selected, SelectedNamespaces, Settled
<1>2. CASE consumer[c].namespaceSelector # Own
  <2>1. cachedNamespace = namespace
    BY <1>2 DEF NamespacesKnown, Exposed, Settled
  <2>. QED BY <1>2, <2>1 DEF Lookup, Selected, SelectedNamespaces, Settled, Resources
<1>. QED BY <1>1, <1>2

\* A consumer at rest works with exactly what it selects on the server.
THEOREM RestingConsumersAreCurrent ==
  ASSUME HubsAreQuiet, SpecificationsStayHome
  PROVE  Spec => []SettledIsSelected
<1>1. NamespacesKnown /\ HubsMissNothing /\ SpecificationsMissNothing => SettledIsSelected
  BY LookupIsSelected DEF SettledIsSelected, HubsMissNothing, SpecificationsMissNothing, Complete,
     Settled, Consumers
<1>. QED BY <1>1, HubsAreQuiet, SpecificationsStayHome, HubsDiscoverEverything,
            SpecificationsDiscoverEverything, NamespacesStayKnown, PTL

===============================================================================
