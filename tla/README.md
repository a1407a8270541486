# Verification of the swagger-hub-controller

TLA+ models of the three Kubernetes controllers of this repository, the TLC
instances that check them and the theorems TLAPS proves about them. Paths are
relative to the repository's `src/`; `DEF`, `SPC` and `HUB` stand for
`internal/controllers/swagger{definition,specification,hub}_controller.go`.

## The system

| Component | State it keeps | Operations | Interacts through |
|---|---|---|---|
| SwaggerDefinition controller (`DEF`) | ConfigMap `swagger-definition-<name>`, status of the definition | fetch the document behind `spec.url` with optional credentials and deadline, publish it, record the outcome, poll | events of its object and its ConfigMap; Secret; HTTP |
| SwaggerSpecification controller (`SPC`) | ConfigMap `swagger-specification-<name>`, status with a catalog | look definitions up, read their ConfigMaps, merge the documents, publish | events of its object and of definitions |
| SwaggerHub controller (`HUB`) | Service and Deployment `swagger-ui-<hub>`, copies of foreign ConfigMaps, status | look resources up, render, create or apply, check health | events of its object, its Service and Deployment, definitions and specifications |
| OpenAPI merge (`SPC:153-357`) | none | prefix, rename, load, merge | called by the specification controller |
| Container merge (`internal/merge/container.go`) | none | strategic merge of container lists | called by the hub controller |
| Manager (`main.go`) | work queues, informer caches, leader lease | start, stop | all of them |

The controllers never call each other: they share the API server and read it
through informer caches that lag behind it, one per kind and independent of each
other. A change of an object reaches a controller as a key in its work queue, and
what the reconciliation then reads is whatever the caches hold. That is what makes
this code hard:

- **Stale state.** Create against Update or Apply, ownership, health and the status
  patch are all decided on cached objects.
- **Lost triggers.** `GenerationChangedPredicate` drops status events, map functions
  compute keys from caches, and some kinds that are read are not watched. Whatever is
  not done must have left something in a queue.
- **Interleaving.** Workers, users, garbage collector and informers act between any
  two remote calls of a reconciliation. Writes are addressed by name and most carry
  no resourceVersion; objects are deleted and re-created under the same name.
- **Failure.** Each remote call can be refused, time out, take effect and lose its
  answer (every write and status patch of every module can), or be the last thing the
  process does; a document of an unexpected shape
  makes the merge panic.

What makes each component correct: nothing a user changes is forgotten; what is
published or rolled out belongs to the object that is there now and is never
replaced by something older; what is published can be used (references resolve,
volumes exist); the status tells the truth; things come to rest; what is deleted goes.

## Modules

| Module | Models |
|---|---|
| `StatusPatch` | what `Status().Patch(obj, MergeFrom(latest))` does to a status field |
| `PublishedDocument` | abstract specification: what readers of a published document may see |
| `SwaggerDefinition` | the definition controller, one remote call at a time |
| `OpenAPIMerge` | prefixing, loading and merging of documents, as operators |
| `SwaggerSpecification` | the specification controller, one document or remote call at a time |
| `SwaggerHub` | the rollout of hubs: Service, Deployment, ownership, health, conditions |
| `ContainerMerge` | `MergePatchContainers`, as an operator |
| `HubContent` | what a hub serves: references, copies of foreign ConfigMaps, and the Deployment rendered from them and the template |
| `Discovery` | selectors, lookups and trigger map functions of hubs and specifications over one cache per kind |
| `*Properties` | properties and, where there are proofs, the inductive invariant |
| `*Proofs` | theorems |
| `MC*` | the instances for TLC: specs, documents, templates, selectors, symmetry |

`SwaggerDefinition`, `SwaggerSpecification` and `SwaggerHub` extend `StatusPatch`;
`SwaggerSpecification` extends `OpenAPIMerge` and `HubContent` extends
`ContainerMerge`. `PublishedDocument` is implemented twice: by the definition
controller (`Document == INSTANCE PublishedDocument WITH ...`) and, for each
definition, by the specification controller (`Republished(d)`). Mutants, kept beside
the definition they change, are used by no specification.

The controllers meet in shared objects, and each module has the neighbours' part of
these as actions: `SwaggerSpecification` lets the definition controller publish,
withdraw and change status at any time (`PublishDocument`, `WithdrawDocument`,
`ChangeStatus`), `HubContent` lets both other controllers do so (`ChangeSource`,
`ChangeOriginal`). That is more than the definition controller does in one order, so
what holds here holds in their composition.

### State and actions

A variable and its `cached...` counterpart are the object on the API server and its
copy in the informer cache. `queue`/`queued` is controller-runtime's work queue,
`delayed` the keys that come back after a back-off or an interval. `attempt` is a
`Reconcile` call in progress: the copy it works with and the stage it has reached.

`SwaggerDefinition`: `Start` (`Skip`, `Refuse`, `Request`) is `Reconcile` up to the
first remote call (`DEF:80-229`), `FetchAnswers`/`FetchFails` is `fetchDefinition`,
`Publish`/`PublishFails` is Create or Update of the ConfigMap, and
`PatchStatus`/`PatchFails` the status patch and the result that goes back to the
queue. A `...Fails` action has three cases: the server refuses the call, the call is
lost, or it takes effect (`Store`, `SendPatch`) and its answer is lost. `Expire` is the deadline of `spec.timeout`, which applies to all of them.

`SwaggerSpecification`: `Begin` lists the definitions (`SPC:359-365`). `ReadDocument`,
`LeaveOut` and `Panic` are one iteration of the loop in `generateOpenAPI`, in the
order of the names: the ConfigMap is read from a cache that may move between two
iterations, and either loads, is left out with an error in the catalog, or makes a
type assertion panic, which controller-runtime recovers and retries. `Write`/
`WriteFails` is Create or Update, then the status patch, both failing as above; `Expire`
is the fixed deadline of three seconds. The merged document is recorded as the documents it
was merged from; `Merged` says what it looks like. In `OpenAPIMerge` a document is its
paths, schemas, references and security schemes; a reference has a section and a name,
and only what follows the last slash is prefixed.

`SwaggerHub`: `Begin` covers the lookups, which fail if a selector is malformed;
`Write`/`WriteFails` is `createOrUpdateWithOwnershipValidation` for the Service and
then for the Deployment, `CheckHealth` the look at the cached Deployment, then
`PatchStatus`/`PatchFails`. The rendered Deployment is abstracted to the generation
of the hub it was rendered from. `WriteFails` and `PatchFails` also cover writes that
took effect although the answer was an error.

`HubContent` is the rest of the hub's `reconcile`: one iteration of the loop over the
references at a time (`SkipReference`, `UseLocal`, `UseForeign`, `CopyRefused`), then
the rendered Deployment is created or applied (`WriteDeployment`, `WriteRefused`);
`Interrupt` is a call that is lost, or has its effect (`Copy`, `Write`) and loses its
answer. The Deployment has
its fields and who owns them: Create and Apply go by different field managers, and a
forced Apply takes over only what it changes and removes only what an Apply wrote. The
references are a set of which the least is next, because the code sorts them
(`HUB:676-691`). A template sets fields `Settings` of containers `Containers`, in any
order and as often as it likes. A container the controller's own Deployment does not
have is appended once for every time the template lists it (`container.go:72-76`); the
API server refuses such a Deployment (`Admitted`), so that the model need not hold one.
Life of the hub, Service, status and strangers are `SwaggerHub`'s and left out.

`Discovery`: a reconciliation's lookups are one step, `Discover` or `Reject`. What
the caches learn between two lists of one reconciliation enqueues the key again, and
the queue keeps it until the first one is done, so nothing is lost by that. A hub has a
selector for definitions and one for specifications, the model one of the two: that a
hub whose `specificationSelector` alone is invalid has its definitions in the catalog
again when it fails (`HUB:282-292`), where `Reject` leaves nothing, is not in it.

Conventions of the models:

- An informer delivers the newest version; versions that were superseded before
  delivery are skipped, but the enqueueing of an owner that their events would have
  caused is not (`unseen`). Informers report a deletion and a re-creation as two
  events; that a broken watch may merge them is not modelled.
- A status patch conflicts exactly when the cache moved since the object was read:
  only then does the difference contain the old resourceVersion. Equal cached values
  stand for equal resourceVersions.
- History variables record what users did to ConfigMaps nobody watches, and no action
  reads them: `withdrawn` (the merged ConfigMap was deleted by hand), `unusable`
  (definitions whose document has once been missing or did not load), `absent` (sources
  that have once been without a ConfigMap).
- `SwaggerSpecification` and `HubContent` have one object and one worker: the work queue
  never gives a key to two, which `SwaggerDefinition` and `SwaggerHub` model with two
  workers, and objects share nothing else.
- Both begin with the controller started in a cluster that has the object, its
  definitions and (some of) their ConfigMaps. Every such state is reached when the
  controllers are installed, or upgraded, in a cluster in use, and it saves TLC the
  ticks that create them; later creations and re-creations are actions.
- Field contents that no property tells apart (titles, servers, tags, messages beyond
  their kind, labels and ports of rendered objects) are left out.

## Runs

Every disturbance (a user's action, an upstream change, a fault, a restart) takes a
tick of `clock`; `MaxClock` bounds them and nothing else is bounded. What the
controllers, informers and the garbage collector do is free.

| Run | Shows | Bounds |
|---|---|---|
| `definition` | no spec change is lost, the ConfigMap exists and is owned by the object that is there once nothing is pending, documents never go backwards (refinement of `PublishedDocument`); comes to rest or polls the latest document; failures are reported; ConfigMaps of deleted objects go; with more objects than workers and an API that hangs, a key waits for ever only if objects without `spec.timeout` hold every worker, or the key itself | 2 workers; 1 definition, 5 specs, 3 ticks; or 3 definitions, 3 specs, whose API hangs |
| `discovery` | a hub with any `namespaceSelector`, and a specification at home, miss nothing in any delivery order, except what relabelled namespaces hide; in the end each has what it selects | 2 namespaces, 2 label sets, 1 hub, 1 specification, 4 ticks |
| `hub_safety` | rollout complete and observed at rest, conditions consistent, no rollback | 1 hub, 2 workers, 3 specs, 3 ticks |
| `hub_converges` | comes to rest rolled out; malformed selectors and occupied names are reported; objects of deleted hubs go | 1 hub, 1 worker, 2 specs, 3 ticks |
| `specification` | no spec change is lost, the merged document is there, the specification's own, without deleted definitions and with every other that was always usable, resolves every reference and never goes backwards (refinement of `PublishedDocument` per definition); comes to rest, is collected, reports failures | 2 definitions, 3 documents each (one loads, one has a reference that dangles, one panics), 3 specs, 2 ticks |
| `content` | what Swagger UI offers is what it mounts; at rest another Apply would change nothing, no deleted source is left in it and none is left out that always had its ConfigMap; a controller woken by its own writes comes to rest, unless the API server refuses what the template says | 2 sources, one of another namespace, 3 templates (one repeats a container), 2 ticks |

`TypeOK` is an invariant of each, and the inductive invariant `IInv` of the definition,
the specification, the hub and its content.

Why these bounds are enough to be interesting: losing a trigger takes a creation, one
change and one fault; confusing an object with its predecessor takes a creation, a
deletion and a creation; overtaking takes two workers on one key. All fit in three
ticks, or two where the objects are there to begin with. Two definitions that serve
the same path and schemas of the same names are what a merge can confuse; a third
would only be another last one. Keys share nothing but the workers, and what that does
to them takes more definitions than workers: `definition` starts either in an empty
cluster, where users create and edit one definition, or (`Crowd`) with three definitions
in the queue of two workers, each with or without `spec.timeout`, or without a url, and
an API that hangs and stays so. There `Served` is about keys that find every worker
taken: two objects without a timeout hold both for ever (`Blocked`), and in every other
case each key gets its turn. The secret is complete at the start of both; that it is
not, and then is, are rotations. For the invariants
the theorems below remove the bounds; that each property breaks in its run when the
code is changed in a plausible way is recorded by the mutants in `PROJECT.json`.
A deadlock check makes no sense here: a cluster in which nobody does anything and
nothing is pending has stopped, and rightly so.

### Where the code does not do what it says

| Run | Property | What happens |
|---|---|---|
| `definition_ready` | `SettledIsReady` | a retry succeeds before the cache has seen the failure it follows: the difference is empty and Ready False stays |
| `definition_timeout` | `TimeoutReported` | the status patch runs under the context whose deadline the fetch used up |
| `discovery_invalid` | `HubsMissNothing` | one hub with an invalid `namespaceSelector` silences the triggers of all |
| `hub_takeover` | `TakesNothingOver` | ownership is checked on a cached object, then forced by name |
| `specification_stale` | `SettledIsCurrent` | a definition's new document is not merged: its ConfigMap is not watched, and events of the definition come too early or not at all |
| `content_collected` | `SettledIsMounted` | a copy keeps an ownerReference to another namespace, is garbage collected, and nothing notices |

`PROJECT.json` quotes the documentation each of them contradicts. Variants of the
same mechanisms, and limits of the properties above, have no run of their own:

- A status patch computed for a deleted object can land on its successor, until that
  is reconciled. Hubs and specifications patch their status like definitions do, so
  that Ready can go stale on them at rest as well.
- Nothing watches namespaces, so that a hub does not notice when one it selects is
  labelled later (`Exposed` in `Discovery`). Specifications are woken by definitions of
  their own namespace only (`SPC:79`), although they look definitions up in every
  namespace they select; `SpecificationsMissNothing` is about those that stay at home.
- A user who deletes the merged ConfigMap is not heard until the specification is
  reconciled again (`withdrawn`): it is not watched, unlike a definition's.
- A hub skips a reference whose ConfigMap is not in the cache yet (`HUB:434`) and relies
  on a later event of the definition.
- What Create wrote into a Deployment and no Apply has changed since belongs to another
  field manager: a container, a variable or the volume that the template or the list of
  sources drops then stays. `SettledIsRendered` compares with what an Apply would leave,
  and `SettledHasNoGhosts` speaks of what was last applied, for this reason.

### Fairness

Weak fairness of informers, garbage collector, back-off timers, deadlines and of a
worker that has something to do: all of these are loops of controller-runtime or of
the cluster that do not stop. Strong fairness of starting a key that is in the
queue, where workers are shared, because the work queue is first in, first out, while
the worker it waits for may be busy in between. In `HubContent` the informers are fair
per source, and the garbage collector is not: it may collect a copy at any time, again
and again, and the hub comes to rest all the same because no copy's event wakes it. No
fairness of users and faults: liveness is claimed from the moment on when they are
quiet (`<>[]`), and no fairness of the upstream API's answers when it hangs. A document
that makes the merge panic is retried for ever; `Converges` of the specification
excludes it.

## Theorems

TLAPS proves, for any number of objects, specs, documents and workers and any bound on
the disturbances:

| Module | Theorems |
|---|---|
| `SwaggerDefinitionProofs` | `TypeCorrect`; `Invariance` (`[]IInv`); from it `NoChangeIsLost`, `EveryDocumentIsPublished`, `TheKeyComesBack`, and `DocumentsAreRecent`, the refinement of `PublishedDocument` |
| `SwaggerSpecificationProofs` | `TypeCorrect`; `Invariance`; from it `NoChangeIsLost`, `MergeIsPublished`, `NoGhosts`, `NothingIsLeftOut`, `EveryPathIsServed`, `EveryReferenceResolves`, and `MergedDocumentsAreRecent`, the refinement of `PublishedDocument` for every definition; of the merge alone `LastDefinitionWins` |
| `SwaggerHubProofs` | `TypeCorrect`; `ReadyIsConsistent` (conditions on the server are always those of one reconciliation); `Invariance`; from it `EveryHubIsRolledOut`, `NoChangeIsLost`, `NeverRolledBack` |
| `HubContentProofs` | `TypeCorrect`; `Invariance`; from it `Offering`, `AtRestRendered`, `NoGhosts`, `NothingIsLeftOut`; of the Apply alone `ApplyIsIdempotent` |
| `ContainerMergeProofs` | what `MergePatchContainers` returns: `LastPatchWins`, `NewContainersAreTheLast` |
| `DiscoveryProofs` | `TypeCorrect`; `HubsDiscoverEverything`, if no hub's `namespaceSelector` is invalid; `SpecificationsDiscoverEverything`, if specifications look up their own namespace only; under both conditions `RestingConsumersAreCurrent`. They leave out consumers that select namespaces by label once a namespace has changed |

Every invariant that a passing run checks is stated by one of these theorems, and so are
the action properties `RollsForward`, `PublishesRecentDocuments` and
`RepublishesRecentDocuments`. Three invariants are proved and in no run, because ones
that are checked imply them: `SettledServesEveryPath` follows from
`SettledMergesEverything` and `LastDefinitionWins`, `NeverGivenUp` from `IInv`, and
`SettledIsSelected` from `HubsMissNothing` and `SpecificationsMissNothing`.

The properties speak of states at rest and are not inductive. Each `IInv` says what
holds on the way there.

**Definition.** One worker per key (`Exclusive`, which the work queue gives); the
cached object is an earlier version of the one on the server, its status differing at
most by one reconciliation of the cached spec (`CacheTrails`); if a reconciliation of
the cached object is not due any more, the server's status speaks of its generation
(`ObservedOrPending`), the ConfigMap is its own, or an event that says otherwise is
on its way (`PublishedOrPending`), and it has a url, credentials that may be sent and no
interval (`FinishedOrPending`); the body in a worker's hands is no older than what
is published (`DocumentsInOrder`). At rest the cache equals the server, and the
properties follow.

**Specification.** The same, with differences the code makes: no event of the ConfigMap
will say otherwise, so `PublishedOrPending` has the history variable `withdrawn` for a
deletion by a user; a reconciliation works on the cached object or the key is in the
queue again; an attempt with a malformed selector fails before it writes
(`ValidOrPending`). `MergedOrPending` accounts for the definitions (`Accounts`): what the
attempt has merged or will still read, and what it has written, is what the cache lists
but for some that were unusable at one time, or the key is queued again. It needs
`UsableLoads`: a document that always loaded does so in the cache too, whatever it lags.
From the two halves of `Accounts` follow `NoGhosts` and `NothingIsLeftOut`. Every document
merged so far loads (`EverythingLoads`), and per definition published, in hand, cached and
current document are in this order (`DocumentsInOrder`). `EveryReferenceResolves` rests on
`MergeResolves`, about `OpenAPIMerge` alone: schema keys contain the definition, so that
of paths that collide the one that wins refers to schemas that are kept.

**Hub.** Worker's copy, cached hub and server's hub follow each other (`CopiesInOrder`),
status as above (`StatusTrails`, `ObservedOrPending`); each object is the copy's own,
rendered from its generation, unless an event that names a controller is on its way or
the key is queued (`RolledOutOrPending`); the Deployment is never newer than a copy of
the hub that owns it (`RendersInOrder`), from which `RollsForward` follows for every
single step. The crux is `PutNotifies`: any change of an object that was or becomes a
hub's leaves an event with a controller.

**Content of a hub.** Whatever was written last into the Deployment is what some template
and the mounts that are in it render (`DeploymentIsRendered`), URLs and mounts being
collected together (`InStep`): `Offering` follows, by a lemma on `MergePatchContainers`,
because a patch leaves the fields it does not mention. A reconciliation has the cached
template, its mounts and what it has still to look at are sources in the cache, and all
of those that always had their ConfigMap, or the key is queued (`AttemptIsCurrent`, which
needs `PresentIsCached`). At rest the Deployment is what another Apply would make of it
(`RestIsCurrent`). That last one is not kept by a write in general: it is because a write
that changes the Deployment leaves an event (`unseen`), and one that does not has by
`ApplyIsIdempotent` nothing to change.

**Discovery.** The properties are inductive together with types and "the cached
namespaces are the ones on the server, until one changes"; the crux is
`SelectedIsRequested`: a changed resource that a consumer selects, or selected before,
is mapped to it, because lookup and map function read the same caches.

Each proof has a lemma per group of actions, with a step per action and one per
conjunct it can disturb. The proofs assume only the named assumptions on constants:
`None` and other model values are different from the objects, `MaxClock` is a natural
number, specs and templates have their types, sources are numbered, a non-empty set of
definitions has a last one, and users mount nothing of their own at the path
`definitions` (`TemplatesAssumption`: that path is the controller's, and a volume mount
there would replace its own). TLC evaluates them in every run. What `DiscoveryProofs` assumes
besides is stated in its theorems, and not more than needed: `discovery_invalid` is what
an invalid `namespaceSelector` does, and `SPC:79` does not wake specifications of other
namespaces.

Only model-checked: liveness (`Converges`, `Collected`, `FailureReported`, `Served`,
`Follows`, `Rests`), which is out of the prover's reach; and the runs that show a
violation, which are counterexamples.

## Not modelled

- Flags, probes, metrics, manifests and the chart: start-up plumbing without behaviour
  the properties could be about. `internal/merge/deployment.go` has no caller.
- Deep copies are generated and are the value semantics TLA+ has by itself.
- HTTP connections that error answers leave open (`DEF:147`).
- Watches that break and are re-established by a list, after which a deletion and a
  re-creation can look like an update that `GenerationChangedPredicate` drops.
- References deeper than a component, which `prefixRefs` treats like names of sections
  other than schemas: their documents are the ones that do not load. Discriminator
  mappings: `prefixRefs` rewrites the values of `$ref` only (`SPC:328-333`), so that a
  mapping keeps the schemas' old names.
- Text that is copied into the merged document: title, servers, tags. Of it
  README.md:155 says that by default the first definition's server is used, and the code
  does not do that (`SPC:176-181`); `info.version` is not copied either. These are
  single assignments that a unit test shows.
- Names that collide: copies of ConfigMaps `<configmap>-<namespace>` of two sources
  (`HUB:458`), prefixes of definitions of one name in two namespaces (`SPC:232`), security
  schemes (`SPC:291`). In the models these names are pairs, or keys of a function.

## Plan

Done: all three controllers, both merges and discovery, with proofs of every invariant
the runs check. What is left:

1. `Pipeline`: definition, specification and hub composed, with one informer per kind, to
   bound how long an update that overtakes its definition's event stays unseen.
2. Names as sequences in `HubContent` and `OpenAPIMerge`, to show when they collide.
