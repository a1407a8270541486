---------------------- MODULE SwaggerDefinitionProperties ----------------------
(***************************************************************************)
(* What the SwaggerDefinition controller has to keep, and the inductive    *)
(* invariant behind it.                                                    *)
(***************************************************************************)
EXTENDS SwaggerDefinition

\* The type of every variable of the controller and its surroundings.
TypeOK ==
  /\ definition \in [Definitions -> Object \cup {None}]
  /\ cached \in [Definitions -> Object \cup {None}]
  /\ configMap \in [Definitions -> ConfigMap \cup {None}]
  /\ cachedConfigMap \in [Definitions -> ConfigMap \cup {None}]
  /\ unseen \subseteq Definitions
  /\ upstream \in [mode : Modes, version : Nat]
  /\ secret \subseteq SecretKeys
  /\ queue \subseteq Definitions
  /\ delayed \subseteq Definitions
  /\ attempt \in [Workers -> Attempt \cup {None}]
  /\ clock \in 0..MaxClock

\* Nothing is on its way that would start another reconciliation of d.
Settled(d) ==
  /\ d \notin queue \cup delayed \cup unseen
  /\ ~Busy(d)
  /\ cached[d] = definition[d]

Managed(d) == definition[d] # None /\ ~definition[d].spec.suspend

\* No spec change is lost.  GenerationChangedPredicate drops status events, the
\* status patch may fail, conflict or be computed from a stale copy, yet once
\* nothing is pending the status speaks of the current generation.
SettledIsObserved ==
  \A d \in Definitions : Settled(d) /\ Managed(d) =>
    /\ definition[d].observed = definition[d].generation
    /\ definition[d].ready.generation = definition[d].generation

\* Once nothing is pending the ConfigMap is there and belongs to this very
\* object: Create against Update is decided on a stale cache, users delete the
\* ConfigMap, and a deleted and re-created object finds its predecessor's.
SettledIsPublished ==
  \A d \in Definitions : Settled(d) /\ Managed(d) =>
    configMap[d] # None /\ configMap[d].owner = definition[d].uid

\* What the API is asked with: the secret apart, a reconciliation of such a spec
\* gets as far as the request.
Requestable(spec) == spec.url /\ (spec.auth => spec.https \/ spec.allowInsecure)

\* The controller never gives up: a definition that is polled, has no url or
\* credentials that may not be sent is not left at rest, whatever edit, conflict,
\* deadline or restart came between its reconciliations.
NeverGivenUp ==
  \A d \in Definitions : Settled(d) /\ Managed(d) =>
    Requestable(definition[d].spec) /\ ~definition[d].spec.interval

\* The status update that follows each reconciliation (swaggerdefinition_
\* controller.go:118) leaves the outcome in the Ready condition: an object
\* nothing will be done about any more is one that was reconciled.
SettledIsReady ==
  \A d \in Definitions : Settled(d) /\ Managed(d) =>
    definition[d].ready.status = "True"

\* Readers of the ConfigMaps see documents the upstream API served, and a
\* document that stays is never replaced by an older one, whatever workers,
\* retries and deadlines do between the fetch and the unconditional Update.
Published == [d \in Definitions |->
                IF configMap[d] = None THEN None ELSE configMap[d].data]
Document == INSTANCE PublishedDocument WITH source <- upstream.version, published <- Published
PublishesRecentDocuments == Document!DocSpec

Reconcilable(d) ==
  Managed(d) /\ definition[d].spec.url /\ Authorised(definition[d].spec) /\ upstream.mode = "ok"

\* When users, upstream and faults are quiet and nothing stands in the way, the
\* controller stops, or with an interval has published the latest document.
Converges ==
  \A d \in Definitions : <>[](Reconcilable(d) =>
    IF definition[d].spec.interval
      THEN configMap[d] # None /\ configMap[d].data = upstream.version
      ELSE Settled(d))

\* The ConfigMap of a deleted object does not stay, not even when a
\* reconciliation in progress creates it after the deletion.
Collected ==
  \A d \in Definitions : <>[](definition[d] = None => configMap[d] = None)

\* An object that is polled and cannot be reconciled says so in the end: no url,
\* credentials that may not or cannot be sent, or an API that is down.  (One that
\* hangs with no spec.timeout holds its worker, and nothing is reported.)
FailureReported ==
  \A d \in Definitions : <>[](
    /\ Managed(d) /\ definition[d].spec.interval
    /\ upstream.mode # "hang"
    /\ \/ ~(definition[d].spec.url /\ Authorised(definition[d].spec))
       \/ upstream.mode = "down"
    => definition[d].ready.status = "False")

\* The same of an API that does not answer within spec.timeout.
TimeoutReported ==
  \A d \in Definitions : <>[](
    /\ Managed(d) /\ definition[d].spec.interval /\ definition[d].spec.timeout
    /\ definition[d].spec.url /\ Authorised(definition[d].spec)
    /\ upstream.mode = "hang"
    => definition[d].ready.status = "False")

\* A worker in the hands of an API that need not answer, with no deadline.
Captured(w) == At(w, "fetch") /\ ~attempt[w].copy.spec.timeout

\* Such APIs have the whole pool, or one of them has this very key.
Blocked(d) ==
  \/ \A w \in Workers : Captured(w)
  \/ \E w \in Workers : Captured(w) /\ attempt[w].key = d

\* A worker an API keeps waiting comes back, because the request and the writes
\* run under spec.timeout: with more objects than workers, all of them waiting
\* for APIs that hang, a key stays in the queue only if objects without a
\* timeout hold every worker or the key itself is one of theirs.
Served == \A d \in Definitions : []<>(d \notin queue \/ Blocked(d))

-------------------------------------------------------------------------------
(* The inductive invariant.  A cached object trails the one on the server   *)
(* with the same UID; whatever still has to happen is in a queue, on its    *)
(* way to the cache or in the hands of the one worker that has the key.     *)

\* One worker per key, and no two objects with the same UID.
Exclusive ==
  /\ \A v, w \in Workers :
       attempt[v] # None /\ attempt[w] # None /\ attempt[v].key = attempt[w].key => v = w
  /\ \A d \in Definitions :
       /\ definition[d] # None => definition[d].uid <= clock
       /\ cached[d] # None => cached[d].uid <= clock

\* definition[d] and cached[d] are the same object, at different times.
SameObject(d) ==
  definition[d] # None /\ cached[d] # None /\ definition[d].uid = cached[d].uid

CacheTrails ==
  \A d \in Definitions : SameObject(d) =>
    /\ cached[d].generation = definition[d].generation => cached[d].spec = definition[d].spec
    /\ cached[d].generation <= definition[d].generation
    /\ definition[d].observed \in {cached[d].observed, cached[d].generation}
    /\ definition[d].ready.generation \in {cached[d].ready.generation, cached[d].generation}

\* A reconciliation of the cached object is not due any more.
Done(d) == d \notin queue \cup delayed /\ ~Busy(d) /\ cached[d] # None /\ ~cached[d].spec.suspend

ObservedOrPending ==
  \A d \in Definitions : Done(d) /\ SameObject(d) =>
    /\ definition[d].observed = cached[d].generation
    /\ definition[d].ready.generation = cached[d].generation

OwnedBy(d, uid) == configMap[d] # None /\ configMap[d].owner = uid

PublishedOrPending ==
  /\ \A d \in Definitions : Done(d) => d \in unseen \/ OwnedBy(d, cached[d].uid)
  /\ \A w \in Workers : At(w, "patch") /\ ~attempt[w].failed =>
       LET d == attempt[w].key IN d \in unseen \cup queue \/ OwnedBy(d, attempt[w].copy.uid)

FinishedOrPending ==
  /\ \A d \in Definitions : Done(d) => Requestable(cached[d].spec) /\ ~cached[d].spec.interval
  /\ \A w \in Workers : attempt[w] # None /\ ~(At(w, "patch") /\ attempt[w].failed) =>
       Requestable(attempt[w].copy.spec)

DocumentsInOrder ==
  /\ \A d \in Definitions : configMap[d] # None => configMap[d].data <= upstream.version
  /\ \A w \in Workers : At(w, "write") =>
       /\ attempt[w].body <= upstream.version
       /\ configMap[attempt[w].key] # None => configMap[attempt[w].key].data <= attempt[w].body

\* What holds in every reachable state and makes each step keep it.
IInv ==
  /\ Exclusive /\ CacheTrails /\ ObservedOrPending /\ PublishedOrPending
  /\ FinishedOrPending /\ DocumentsInOrder

===============================================================================
