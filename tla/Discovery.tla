------------------------------- MODULE Discovery -------------------------------
(***************************************************************************)
(* How SwaggerHubs and SwaggerSpecifications find the objects their        *)
(* selectors select, and how they learn that these have changed.           *)
(*                                                                         *)
(* Each reconciliation looks the objects up (extendhubWith...,             *)
(* extendSpecificationWithDefinitions).  It runs because the object itself *)
(* changed or because a map function, called with every version of a       *)
(* changed resource, returned its key (requestsForChangeBy...).  Lookup    *)
(* and map functions read the same informer caches, one per kind, which    *)
(* lag behind the API server independently.  A reconciliation's reads are  *)
(* one step: whatever the caches learn in between enqueues the key again.  *)
(***************************************************************************)
EXTENDS Naturals

CONSTANTS
  Namespaces,          \* names of namespaces
  Names,               \* names of SwaggerDefinitions (SwaggerSpecifications, for a hub)
  Labels,              \* label sets of resources and namespaces, told apart by selectors
  Hubs,                \* SwaggerHub objects
  Specifications,      \* SwaggerSpecification objects
  Home,                \* the namespace of each of them
  HubSpecs,            \* the selectors users give to hubs
  SpecificationSpecs,  \* the selectors users give to specifications
  MaxClock,            \* bound on what users do
  None,                \* absent object
  Own,                 \* no namespaceSelector: the consumer's own namespace
  Invalid              \* a selector LabelSelectorAsSelector rejects

Consumers == Hubs \cup Specifications
Resources == Namespaces \X Names

\* No selector selects nothing, the empty selector everything.
Selector == (SUBSET Labels) \cup {Invalid}
ConsumerSpec == [selector : Selector, namespaceSelector : Selector \cup {Own}, suspend : BOOLEAN]

ASSUME DiscoveryAssumption ==
  /\ Hubs \cap Specifications = {}
  /\ Home \in [Consumers -> Namespaces]
  /\ HubSpecs \subseteq ConsumerSpec /\ SpecificationSpecs \subseteq ConsumerSpec
  /\ MaxClock \in Nat
  /\ None \notin ConsumerSpec /\ None \notin Labels

VARIABLES
  namespace,        \* label set of each namespace on the API server, or None
  resource,         \* label set of each resource on the API server, or None
  consumer,         \* spec of each consumer on the API server, or None
  cachedNamespace,  \* the same in the informer caches
  cachedResource,
  cachedConsumer,
  queue,            \* consumers whose key is in a work queue
  moved,            \* history: a namespace has come, gone or changed its labels
  discovered,       \* what each consumer's last reconciliation worked with
  clock             \* changes by users so far

server == <<namespace, resource, consumer>>
cache == <<cachedNamespace, cachedResource, cachedConsumer>>
vars == <<server, cache, queue, moved, discovered, clock>>

Init ==
  /\ namespace \in [Namespaces -> Labels \cup {None}]
  /\ resource = [r \in Resources |-> None]
  /\ consumer = [c \in Consumers |-> None]
  /\ cachedNamespace = namespace
  /\ cachedResource = resource
  /\ cachedConsumer = consumer
  /\ queue = {}
  /\ moved = FALSE
  /\ discovered = [c \in Consumers |-> {}]
  /\ clock = 0

-------------------------------------------------------------------------------
(* Lookup and triggers, both on the cached objects.                         *)

\* Mutant: without a namespaceSelector every namespace is selected.
SelectedEverywhere(c) ==
  LET selector == cachedConsumer[c].namespaceSelector IN
  {n \in Namespaces : cachedNamespace[n] # None /\ (selector = Own \/ cachedNamespace[n] \in selector)}

SelectedNamespaces(c) ==
  LET selector == cachedConsumer[c].namespaceSelector IN
  IF selector = Own THEN {Home[c]}
  ELSE {n \in Namespaces : cachedNamespace[n] # None /\ cachedNamespace[n] \in selector}

Valid(spec) == spec.selector # Invalid /\ spec.namespaceSelector # Invalid

Lookup(c) ==
  {r \in Resources :
     /\ r[1] \in SelectedNamespaces(c)
     /\ cachedResource[r] # None
     /\ cachedResource[r] \in cachedConsumer[c].selector}

Matches(c, label) ==
  LET selector == cachedConsumer[c].selector IN
  selector # Invalid /\ label # None /\ label \in selector

\* One hub with an invalid namespaceSelector ends the function for all of them.
HubRequests(r, label) ==
  LET listed == {h \in Hubs : cachedConsumer[h] # None} IN
  IF \E h \in listed : cachedConsumer[h].namespaceSelector = Invalid THEN {}
  ELSE {h \in listed : r[1] \in SelectedNamespaces(h) /\ Matches(h, label)}

\* Specifications are listed in the namespace of the changed definition.
SpecificationRequests(r, label) ==
  {s \in Specifications : cachedConsumer[s] # None /\ Home[s] = r[1] /\ Matches(s, label)}

\* Mutant: only the new version of a changed resource is mapped.
RequestsForNew(r, old, new) == HubRequests(r, new) \cup SpecificationRequests(r, new)

\* EnqueueRequestsFromMapFunc maps the old and the new version of an update.
Requests(r, old, new) ==
  UNION {HubRequests(r, label) \cup SpecificationRequests(r, label) : label \in {old, new}}

-------------------------------------------------------------------------------
Tick == clock < MaxClock /\ clock' = clock + 1

Specs(c) == IF c \in Hubs THEN HubSpecs ELSE SpecificationSpecs

ChangeNamespace(n) ==
  /\ Tick
  /\ \E label \in (Labels \cup {None}) \ {namespace[n]} :
       namespace' = [namespace EXCEPT ![n] = label]
  /\ moved' = TRUE
  /\ UNCHANGED <<resource, consumer, cache, queue, discovered>>

ChangeResource(r) ==
  /\ Tick
  /\ \E label \in (Labels \cup {None}) \ {resource[r]} :
       resource' = [resource EXCEPT ![r] = label]
  /\ UNCHANGED <<moved, namespace, consumer, cache, queue, discovered>>

ChangeConsumer(c) ==
  /\ Tick
  /\ \E spec \in (Specs(c) \cup {None}) \ {consumer[c]} :
       consumer' = [consumer EXCEPT ![c] = spec]
  /\ UNCHANGED <<moved, namespace, resource, cache, queue, discovered>>

\* Namespaces are cached because they are listed; nothing watches them.
DeliverNamespace(n) ==
  /\ cachedNamespace[n] # namespace[n]
  /\ cachedNamespace' = [cachedNamespace EXCEPT ![n] = namespace[n]]
  /\ UNCHANGED <<moved, server, cachedResource, cachedConsumer, queue, discovered, clock>>

DeliverResource(r) ==
  /\ cachedResource[r] # resource[r]
  /\ cachedResource' = [cachedResource EXCEPT ![r] = resource[r]]
  /\ queue' = queue \cup Requests(r, cachedResource[r], resource[r])
  /\ UNCHANGED <<moved, server, cachedNamespace, cachedConsumer, discovered, clock>>

\* Mutant: a new spec does not enqueue the consumer.
DeliverConsumerQuietly(c) ==
  /\ cachedConsumer[c] # consumer[c]
  /\ cachedConsumer' = [cachedConsumer EXCEPT ![c] = consumer[c]]
  /\ queue' = IF cachedConsumer[c] = None THEN queue \cup {c} ELSE queue
  /\ UNCHANGED <<moved, server, cachedNamespace, cachedResource, discovered, clock>>

\* Creations, deletions and spec changes pass GenerationChangedPredicate.
DeliverConsumer(c) ==
  /\ cachedConsumer[c] # consumer[c]
  /\ cachedConsumer' = [cachedConsumer EXCEPT ![c] = consumer[c]]
  /\ queue' = queue \cup {c}
  /\ UNCHANGED <<moved, server, cachedNamespace, cachedResource, discovered, clock>>

Managed(c) == cachedConsumer[c] # None /\ ~cachedConsumer[c].suspend

Skip(c) ==
  /\ c \in queue /\ ~Managed(c)
  /\ queue' = queue \ {c}
  /\ UNCHANGED <<moved, server, cache, discovered, clock>>

Discover(c) ==
  /\ c \in queue /\ Managed(c) /\ Valid(cachedConsumer[c])
  /\ discovered' = [discovered EXCEPT ![c] = Lookup(c)]
  /\ queue' = queue \ {c}
  /\ UNCHANGED <<moved, server, cache, clock>>

\* Mutant: the catalog is reset to an empty entry, not to no entry.
RejectWithBlank(c) ==
  /\ c \in queue /\ Managed(c) /\ ~Valid(cachedConsumer[c])
  /\ discovered' = [discovered EXCEPT ![c] = {None}]
  /\ UNCHANGED <<moved, server, cache, queue, clock>>

\* An invalid selector is an error: the catalog is reset and the key comes back.  (A
\* hub has two; if only the second is invalid, what the first selects is already in the
\* catalog again, which a model with one of them does not show.)
Reject(c) ==
  /\ c \in queue /\ Managed(c) /\ ~Valid(cachedConsumer[c])
  /\ discovered' = [discovered EXCEPT ![c] = {}]
  /\ UNCHANGED <<moved, server, cache, queue, clock>>

Restart ==
  /\ Tick
  /\ cachedNamespace' = namespace /\ cachedResource' = resource /\ cachedConsumer' = consumer
  /\ queue' = {c \in Consumers : consumer[c] # None}
  /\ UNCHANGED <<moved, server, discovered>>

Next ==
  \/ \E n \in Namespaces : ChangeNamespace(n) \/ DeliverNamespace(n)
  \/ \E r \in Resources : ChangeResource(r) \/ DeliverResource(r)
  \/ \E c \in Consumers :
       ChangeConsumer(c) \/ DeliverConsumer(c) \/ Skip(c) \/ Discover(c) \/ Reject(c)
  \/ Restart

Spec == Init /\ [][Next]_vars

\* Informers deliver, and a key in a work queue comes to a worker.
Fairness ==
  /\ \A n \in Namespaces : WF_vars(DeliverNamespace(n))
  /\ \A r \in Resources : WF_vars(DeliverResource(r))
  /\ \A c \in Consumers :
       WF_vars(DeliverConsumer(c)) /\ WF_vars(Skip(c) \/ Discover(c) \/ Reject(c))

FairSpec == Spec /\ Fairness

-------------------------------------------------------------------------------
\* The type of every variable.
TypeOK ==
  /\ namespace \in [Namespaces -> Labels \cup {None}]
  /\ resource \in [Resources -> Labels \cup {None}]
  /\ consumer \in [Consumers -> HubSpecs \cup SpecificationSpecs \cup {None}]
  /\ cachedNamespace \in [Namespaces -> Labels \cup {None}]
  /\ cachedResource \in [Resources -> Labels \cup {None}]
  /\ cachedConsumer \in [Consumers -> HubSpecs \cup SpecificationSpecs \cup {None}]
  /\ \A c \in Consumers : {consumer[c], cachedConsumer[c]} \subseteq Specs(c) \cup {None}
  /\ queue \subseteq Consumers
  /\ moved \in BOOLEAN
  /\ discovered \in [Consumers -> SUBSET Resources]
  /\ clock \in 0..MaxClock

\* Nothing watches namespaces: who selects some by their labels may lag behind
\* them until the next reconciliation.
Exposed(c) == moved /\ cachedConsumer[c].namespaceSelector # Own

\* Every other consumer has discovered all its selectors select, or will run
\* again: no label change, creation, deletion or new selector slips through
\* between the informers of two kinds.  README.md:212 and :37 promise it to users.
Complete(c) ==
  \/ c \in queue \/ ~Managed(c) \/ Exposed(c)
  \/ Valid(cachedConsumer[c]) /\ discovered[c] = Lookup(c)
HubsMissNothing == \A h \in Hubs : Complete(h)
SpecificationsMissNothing == \A s \in Specifications : Complete(s)

\* What c selects of the objects on the API server.
Selected(c) ==
  {r \in Resources :
     /\ resource[r] # None /\ resource[r] \in consumer[c].selector
     /\ IF consumer[c].namespaceSelector = Own THEN r[1] = Home[c]
        ELSE namespace[r[1]] # None /\ namespace[r[1]] \in consumer[c].namespaceSelector}

\* Nothing is on its way that would make c look again.
Settled(c) == c \notin queue /\ cachedConsumer[c] = consumer[c] /\ cachedResource = resource

\* A consumer at rest works with exactly what it selects on the server, and its
\* selectors are valid: one with an invalid selector never rests.
SettledIsSelected ==
  \A c \in Consumers : Settled(c) /\ Managed(c) /\ ~Exposed(c) =>
    Valid(consumer[c]) /\ discovered[c] = Selected(c)

\* When users are quiet every consumer ends up with what it selects on the server,
\* however far its caches were behind each other when it last ran.
Follows ==
  \A c \in Consumers : <>[](
    /\ consumer[c] # None /\ ~consumer[c].suspend /\ Valid(consumer[c])
    /\ ~moved \/ consumer[c].namespaceSelector = Own
    => discovered[c] = Selected(c))

===============================================================================
