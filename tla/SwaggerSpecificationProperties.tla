--------------------- MODULE SwaggerSpecificationProperties ---------------------
(***************************************************************************)
(* What the SwaggerSpecification controller has to keep, and the inductive *)
(* invariant behind it.                                                    *)
(***************************************************************************)
EXTENDS SwaggerSpecification

Parts == [Definitions -> Document \cup {None}]

\* The type of every variable of the controller and its surroundings.
TypeOK ==
  /\ specification \in Object \cup {None}
  /\ cached \in Object \cup {None}
  /\ configMap \in ConfigMap \cup {None}
  /\ cachedConfigMap \in ConfigMap \cup {None}
  /\ withdrawn \in BOOLEAN
  /\ definition \in [Definitions -> Definition \cup {None}]
  /\ cachedDefinition \in [Definitions -> Definition \cup {None}]
  /\ document \in Parts
  /\ cachedDocument \in Parts
  /\ served \in Nat
  /\ unusable \in SUBSET Definitions
  /\ queued \in BOOLEAN
  /\ delayed \in BOOLEAN
  /\ attempt \in Attempt \cup {None}
  /\ clock \in 0..MaxClock

\* Nothing is on its way that would start another reconciliation.
Settled ==
  /\ ~queued /\ ~delayed /\ attempt = None
  /\ cached = specification
  /\ cachedDefinition = definition

Managed == specification # None /\ ~specification.spec.suspend

\* No spec change is lost: status events are dropped, the patch may fail,
\* conflict or be computed from a stale copy, a document may make the
\* reconciliation panic before the patch, yet once nothing is pending the status
\* speaks of the current generation.
SettledIsObserved ==
  Settled /\ Managed =>
    /\ specification.observed = specification.generation
    /\ specification.ready.generation = specification.generation

\* Once nothing is pending the merged document is there and belongs to this very
\* object, although a stale cache chooses between Create and Update and a
\* re-created specification finds its predecessor's ConfigMap.  One that a user
\* has deleted stays away: the controller does not watch it.
SettledIsPublished ==
  Settled /\ Managed =>
    IF configMap = None THEN withdrawn ELSE configMap.owner = specification.uid

\* Definitions a document is merged from.
Sources(parts) == {d \in Definitions : parts[d] # None}

\* Once nothing is pending no deleted definition is left in the merged document:
\* its deletion has reached the specification, whichever of the two informers
\* was first and whether the ConfigMap was still there to read.
SettledHasNoGhosts ==
  Settled /\ Managed /\ configMap # None =>
    Sources(configMap.parts) \subseteq {d \in Definitions : definition[d] # None}

\* Nor is one left out, once nothing is pending: a definition whose document could
\* be loaded ever since is in the merged one, created and deleted again as it may
\* be while reconciliations are under way.
SettledMergesEverything ==
  Settled /\ Managed /\ configMap # None =>
    {d \in Definitions \ unusable : definition[d] # None} \subseteq Sources(configMap.parts)

\* The document readers of the ConfigMap find.
MergedDocument(parts) == Merged([d \in Sources(parts) |-> parts[d].content])

\* Once nothing is pending readers find every path in it that the documents of
\* those definitions serve.
SettledServesEveryPath ==
  Settled /\ Managed /\ configMap # None =>
    \A d \in Definitions \ unusable : definition[d] # None =>
      /\ configMap.parts[d] # None
      /\ DOMAIN Paths(configMap.parts[d].content, d) \subseteq
           DOMAIN MergedDocument(configMap.parts).paths

\* Every reference in the merged document can be followed in it: references are
\* prefixed, schemas renamed and other sections dropped by separate code
\* (generateOpenAPI, prefixRefs), and paths of one definition replace those of
\* another.
MergedResolves ==
  configMap # None =>
    LET doc == MergedDocument(configMap.parts) IN
    \A ref \in RefsIn(doc.paths) \cup RefsIn(doc.schemas) :
      ref.section = "schemas" /\ ref.name \in DOMAIN doc.schemas

\* The document of d readers find in the merged one.
Published(d) == IF configMap = None THEN None ELSE configMap.parts[d]

\* For each definition the specification is one more publisher of documents, and
\* keeps the promise the definition controller keeps: what readers find was
\* served, and is only ever replaced by something as recent, whatever retries,
\* crashes and the lag of the ConfigMap cache do between read and write.
VersionOf(d) == IF Published(d) = None THEN None ELSE Published(d).version
Republished(d) == INSTANCE PublishedDocument
  WITH Definitions <- {d}, source <- served, published <- [e \in {d} |-> VersionOf(d)]
RepublishesRecentDocuments ==
  /\ \A d \in Definitions : Republished(d)!DocInit
  /\ [][\A d \in Definitions : [Republished(d)!DocNext]_<<served, VersionOf(d)>>]_vars

\* Where the merged documents come from, when nothing is pending: definitions
\* publish, the specification follows ("By utilizing SwaggerSpecification
\* resources it is possible to actually merge multiple SwaggerDefinitions into
\* one single swagger specification", README.md:151).
SettledIsCurrent ==
  Settled /\ Managed /\ configMap # None /\ cachedDocument = document =>
    \A d \in Definitions :
      definition[d] # None /\ document[d] # None /\ Loads(document[d].content, d) =>
        configMap.parts[d] = document[d]

Panics == \E d \in Listed : document[d] # None /\ document[d].content.form = "odd"

\* When users, definitions and faults are quiet the controller comes to rest,
\* unless the selector is malformed or a document makes it panic.
Converges == <>[](Managed /\ specification.spec.valid /\ ~Panics => Settled)

\* The ConfigMap of a deleted specification does not stay, not even when a
\* reconciliation in progress creates it after the deletion.
Collected == <>[](specification = None => configMap = None)

\* A malformed selector is reported in the end, whatever status was recorded
\* from a stale copy before.
FailureReported ==
  <>[](Managed /\ ~specification.spec.valid => specification.ready.status = "False")

-------------------------------------------------------------------------------
(* The inductive invariant.                                                  *)

\* The object on the server and the cached one are the same, at different times.
SameObject == specification # None /\ cached # None /\ specification.uid = cached.uid

\* UIDs are not used again, the cached object trails the one on the server, and a
\* reconciliation works on the cached object or is followed by another.
CacheTrails ==
  /\ specification # None => specification.uid <= clock
  /\ cached # None => cached.uid <= clock
  /\ attempt # None => attempt.copy.uid <= clock
  /\ SameObject =>
       /\ cached.generation = specification.generation => cached.spec = specification.spec
       /\ cached.generation <= specification.generation
       /\ specification.observed \in {cached.observed, cached.generation}
       /\ specification.ready.generation \in {cached.ready.generation, cached.generation}
  /\ attempt # None /\ ~queued =>
       /\ cached # None /\ cached.uid = attempt.copy.uid
       /\ cached.generation = attempt.copy.generation /\ cached.spec = attempt.copy.spec

\* A reconciliation of the cached object is not due any more.
Done == ~queued /\ ~delayed /\ attempt = None /\ cached # None /\ ~cached.spec.suspend

ObservedOrPending ==
  Done /\ SameObject =>
    /\ specification.observed = cached.generation
    /\ specification.ready.generation = cached.generation

Written == At("patch") /\ ~attempt.failed

\* What the ConfigMap is after the reconciliation of an object.
PublishedFor(uid) ==
  /\ configMap # None => configMap.owner = uid
  /\ configMap = None /\ specification # None /\ specification.uid = uid => withdrawn

PublishedOrPending ==
  /\ Done => PublishedFor(cached.uid)
  /\ Written => PublishedFor(attempt.copy.uid)

\* A malformed selector is an error, again and again.
ValidOrPending ==
  /\ Done => cached.spec.valid
  /\ attempt # None /\ attempt.failed => At("patch")
  /\ attempt # None /\ ~attempt.failed => attempt.copy.spec.valid

\* The definitions merged, and those yet to come, are those of the cache, but for
\* some that have been of no use.
Accounts(parts, pending) ==
  /\ Sources(parts) \cup pending \subseteq Listed
  /\ Listed \ unusable \subseteq Sources(parts) \cup pending

MergedOrPending ==
  /\ Done /\ configMap # None => Accounts(configMap.parts, {})
  /\ attempt # None /\ ~attempt.failed /\ ~queued => Accounts(attempt.parts, attempt.pending)
  /\ Written /\ ~queued /\ configMap # None => Accounts(configMap.parts, {})

\* Documents that have always been of use are there for every reconciliation.
UsableLoads ==
  \A d \in Definitions \ unusable :
    /\ document[d] # None /\ Loads(document[d].content, d)
    /\ cachedDocument[d] # None /\ Loads(cachedDocument[d].content, d)

PartsLoad(parts) == \A d \in Definitions : parts[d] # None => Loads(parts[d].content, d)

EverythingLoads ==
  /\ configMap # None => PartsLoad(configMap.parts)
  /\ attempt # None => PartsLoad(attempt.parts)

InOrder(older, newer) == older # None /\ newer # None => older.version <= newer.version

\* The document of d in the hands of the reconciliation.
InHand(d) == IF attempt = None THEN None ELSE attempt.parts[d]

DocumentsInOrder ==
  \A d \in Definitions :
    /\ \A doc \in {Published(d), InHand(d), cachedDocument[d], document[d]} :
         doc # None => doc.version <= served
    /\ \A doc \in {Published(d), InHand(d), cachedDocument[d]} : InOrder(doc, document[d])
    /\ InOrder(Published(d), cachedDocument[d]) /\ InOrder(InHand(d), cachedDocument[d])
    /\ InOrder(Published(d), InHand(d))

\* What holds in every reachable state and makes each step keep it: whatever still
\* has to happen is in the queue, on its way to the cache or being done.
IInv ==
  /\ CacheTrails /\ ObservedOrPending /\ PublishedOrPending /\ ValidOrPending
  /\ MergedOrPending /\ UsableLoads /\ EverythingLoads /\ DocumentsInOrder

===============================================================================
