-------------------------- MODULE SwaggerSpecification --------------------------
(***************************************************************************)
(* The SwaggerSpecification controller                                     *)
(* (internal/controllers/swaggerspecification_controller.go): it merges    *)
(* the documents of the SwaggerDefinitions it selects into one and          *)
(* publishes that in a ConfigMap it owns.                                   *)
(*                                                                         *)
(* One specification, which selects every definition of its namespace (who *)
(* is selected and who is woken is the subject of Discovery): the           *)
(* reconciliations of different specifications share no state, and the      *)
(* work queue never hands one key to two workers.  Of the definition       *)
(* controller only what this one sees is here: definitions come and go,    *)
(* their documents are published and their status changes.                 *)
(***************************************************************************)
EXTENDS OpenAPIMerge, StatusPatch

CONSTANTS Definitions,  \* SwaggerDefinitions of the namespace, by number
          Contents,     \* the documents their APIs may serve
          Specs,        \* the specs users write, see SpecType
          MaxClock,     \* bound on what users, definitions and faults do
          None          \* absent object

SpecType == [valid : BOOLEAN, suspend : BOOLEAN]  \* is the definitionSelector well-formed

Condition == [status : {"Unknown", "True", "False"}, generation : Nat]

\* SubResourceCatalog: which definitions are listed, and which with an error.
Entries == {"unlisted", "listed", "error"}

Object == [uid : Nat, generation : Nat, spec : Specs, ready : Condition,
           observed : Nat, catalog : [Definitions -> Entries]]

Definition == [uid : Nat, ready : BOOLEAN]

\* What a definition's ConfigMap holds; versions count what all APIs served.
Document == [version : Nat, content : Contents]

\* The specification's ConfigMap, its document as the documents it is merged from.
ConfigMap == [owner : Nat, parts : [Definitions -> Document \cup {None}]]

Attempt == [stage : {"merge", "patch"}, copy : Object, pending : SUBSET Definitions,
            parts : [Definitions -> Document \cup {None}], catalog : [Definitions -> Entries],
            failed : BOOLEAN, expired : BOOLEAN]

\* There are finitely many: of any of them one is the last.
ASSUME DefinitionsAssumption ==
  /\ Definitions \subseteq Nat
  /\ \A S \in SUBSET Definitions : S # {} => \E d \in S : \A e \in S : e <= d
ASSUME SpecsAssumption == Specs \subseteq SpecType
ASSUME MaxClockAssumption == MaxClock \in Nat
ASSUME NoneAssumption ==
  None \notin Object \cup Definition \cup Document \cup ConfigMap \cup Attempt \cup Nat

VARIABLES
  specification,    \* the SwaggerSpecification on the API server
  cached,           \* the same in the informer cache
  configMap,        \* the ConfigMap swagger-specification-<name> on the API server
  cachedConfigMap,  \* the same in the informer cache
  withdrawn,        \* history: a user has deleted it since it was last written
  definition,       \* the SwaggerDefinitions on the API server
  cachedDefinition, \* the same in the informer cache
  document,         \* their ConfigMaps on the API server
  cachedDocument,   \* the same in the informer cache
  served,           \* documents served so far
  unusable,         \* history: whose document has been missing or could not be loaded
  queued,           \* the specification's key is in the work queue
  delayed,          \* it joins the queue after a back-off
  attempt,          \* the reconciliation in progress
  clock             \* disturbances so far

objects == <<specification, cached, configMap, cachedConfigMap, withdrawn>>
inputs == <<definition, cachedDefinition, document, cachedDocument, served, unusable>>
work == <<queued, delayed, attempt>>
vars == <<objects, inputs, work, clock>>

Nothing == [d \in Definitions |-> None]
Unlisted == [d \in Definitions |-> "unlisted"]

NewObject(uid, spec) ==
  [uid |-> uid, generation |-> 1, spec |-> spec, observed |-> 0, catalog |-> Unlisted,
   ready |-> [status |-> "Unknown", generation |-> 0]]

\* The controller starts in a cluster that has a specification, definitions and
\* their documents already.
Init ==
  /\ specification \in {NewObject(0, spec) : spec \in Specs}
  /\ definition = [d \in Definitions |-> [uid |-> 0, ready |-> FALSE]]
  /\ document \in [Definitions -> [version : {0}, content : Contents]]
  /\ served = 0
  /\ unusable = {d \in Definitions : ~Loads(document[d].content, d)}
  /\ cached = specification /\ cachedDefinition = definition /\ cachedDocument = document
  /\ configMap = None /\ cachedConfigMap = None
  /\ withdrawn = FALSE
  /\ queued = TRUE
  /\ delayed = FALSE
  /\ attempt = None
  /\ clock = 0

-------------------------------------------------------------------------------
(* Users and the definition controller.  Each step takes one tick.          *)

Tick == clock < MaxClock /\ clock' = clock + 1

CreateSpecification ==
  /\ Tick
  /\ specification = None
  /\ \E spec \in Specs : specification' = NewObject(clock + 1, spec)
  /\ UNCHANGED <<cached, configMap, cachedConfigMap, withdrawn, inputs, work>>

EditSpec ==
  /\ Tick
  /\ specification # None
  /\ \E spec \in Specs \ {specification.spec} :
       specification' = [specification EXCEPT !.spec = spec, !.generation = @ + 1]
  /\ UNCHANGED <<cached, configMap, cachedConfigMap, withdrawn, inputs, work>>

DeleteSpecification ==
  /\ Tick
  /\ specification # None
  /\ specification' = None
  /\ UNCHANGED <<cached, configMap, cachedConfigMap, withdrawn, inputs, work>>

DeleteConfigMap ==
  /\ Tick
  /\ configMap # None
  /\ configMap' = None
  /\ withdrawn' = TRUE
  /\ UNCHANGED <<specification, cached, cachedConfigMap, inputs, work>>

CreateDefinition(d) ==
  /\ Tick
  /\ definition[d] = None
  /\ definition' = [definition EXCEPT ![d] = [uid |-> clock + 1, ready |-> FALSE]]
  /\ UNCHANGED <<objects, cachedDefinition, document, cachedDocument, served, unusable, work>>

DeleteDefinition(d) ==
  /\ Tick
  /\ definition[d] # None
  /\ definition' = [definition EXCEPT ![d] = None]
  /\ UNCHANGED <<objects, cachedDefinition, document, cachedDocument, served, unusable, work>>

\* reconcile of the definition controller, with a document just served: the
\* definition may have been deleted since it was read.
PublishDocument(d) ==
  /\ Tick
  /\ served' = served + 1
  /\ \E content \in Contents :
       /\ document' = [document EXCEPT ![d] = [version |-> served + 1, content |-> content]]
       /\ unusable' = IF Loads(content, d) THEN unusable ELSE unusable \cup {d}
  /\ UNCHANGED <<objects, definition, cachedDefinition, cachedDocument, work>>

\* The garbage collector, or a user.
WithdrawDocument(d) ==
  /\ Tick
  /\ document[d] # None
  /\ document' = [document EXCEPT ![d] = None]
  /\ unusable' = unusable \cup {d}
  /\ UNCHANGED <<objects, definition, cachedDefinition, cachedDocument, served, work>>

\* patchStatus of the definition controller: an event only if the status changes.
ChangeStatus(d) ==
  /\ Tick
  /\ definition[d] # None
  /\ definition' = [definition EXCEPT ![d].ready = ~@]
  /\ UNCHANGED <<objects, cachedDefinition, document, cachedDocument, served, unusable, work>>

-------------------------------------------------------------------------------
(* The cluster: the garbage collector and the informers.                    *)

\* Mutant: dependents of a deleted object are orphaned.
OwnerReplaced == specification # None /\ specification.uid # configMap.owner

\* The object the ownerReference names by UID is gone.
OwnerGone == specification # None => specification.uid # configMap.owner

CollectGarbage ==
  /\ configMap # None /\ OwnerGone
  /\ configMap' = None
  /\ UNCHANGED <<specification, cached, cachedConfigMap, withdrawn, inputs, work, clock>>

\* Mutants: a predicate that lets creations and deletions through only; one that
\* takes a re-created object for the old one, as after a broken watch.
WakesOnLifecycle(old, new) == old = None \/ new = None \/ old.uid # new.uid
WakesOnGeneration(old, new) ==
  old = None \/ new = None \/ old.generation # new.generation

\* GenerationChangedPredicate.
Wakes(old, new) ==
  \/ old = None \/ new = None
  \/ old.uid # new.uid \/ old.generation # new.generation

DeliverSpecification ==
  /\ cached # specification
  /\ cached' = specification
  /\ queued' = (queued \/ Wakes(cached, specification))
  /\ UNCHANGED <<specification, configMap, cachedConfigMap, withdrawn, inputs, delayed,
                 attempt, clock>>

\* Mutant: deletions of definitions are not mapped to specifications.
RequestsWhilePresent(d) ==
  definition[d] # None /\ cached # None /\ cached.spec.valid

\* Mutant: neither are creations, with the definition still missing from the cache.
RequestsForKnown(d) ==
  cachedDefinition[d] # None /\ cached # None /\ cached.spec.valid

\* requestsForChangeBySelector: any event of a definition, for the specifications
\* the cache has; one whose selector is malformed is passed over.
Requests(d) == cached # None /\ cached.spec.valid

DeliverDefinition(d) ==
  /\ cachedDefinition[d] # definition[d]
  /\ cachedDefinition' = [cachedDefinition EXCEPT ![d] = definition[d]]
  /\ queued' = (queued \/ Requests(d))
  /\ UNCHANGED <<objects, definition, document, cachedDocument, served, unusable, delayed,
                 attempt, clock>>

\* The informers of ConfigMaps only serve reads: this controller watches none.
DeliverConfigMap ==
  /\ cachedConfigMap # configMap
  /\ cachedConfigMap' = configMap
  /\ UNCHANGED <<specification, cached, configMap, withdrawn, inputs, work, clock>>

DeliverDocument(d) ==
  /\ cachedDocument[d] # document[d]
  /\ cachedDocument' = [cachedDocument EXCEPT ![d] = document[d]]
  /\ UNCHANGED <<objects, definition, cachedDefinition, document, served, unusable, work, clock>>

Requeue ==
  /\ delayed
  /\ delayed' = FALSE
  /\ queued' = TRUE
  /\ UNCHANGED <<objects, inputs, attempt, clock>>

-------------------------------------------------------------------------------
(* Reconcile, one remote call or one read of the cache at a time.           *)

Available == queued /\ attempt = None

Listed == {d \in Definitions : cachedDefinition[d] # None}

Skip ==
  /\ Available
  /\ cached # None => cached.spec.suspend
  /\ queued' = FALSE
  /\ UNCHANGED <<objects, inputs, delayed, attempt, clock>>

\* extendSpecificationWithDefinitions: the catalog starts empty, and stays so
\* when the selector is malformed.
Begin ==
  /\ Available
  /\ cached # None /\ ~cached.spec.suspend
  /\ queued' = FALSE
  /\ attempt' =
       IF cached.spec.valid
         THEN [stage |-> "merge", copy |-> cached, pending |-> Listed, parts |-> Nothing,
               catalog |-> [d \in Definitions |-> IF d \in Listed THEN "listed" ELSE "unlisted"],
               failed |-> FALSE, expired |-> FALSE]
         ELSE [stage |-> "patch", copy |-> cached, pending |-> {}, parts |-> Nothing,
               catalog |-> Unlisted, failed |-> TRUE, expired |-> FALSE]
  /\ UNCHANGED <<objects, inputs, delayed, clock>>

At(stage) == attempt # None /\ attempt.stage = stage

\* The fixed deadline of three seconds, the status patch included.
Expire ==
  /\ Tick
  /\ attempt # None /\ ~attempt.expired
  /\ attempt' = [attempt EXCEPT !.expired = TRUE]
  /\ UNCHANGED <<objects, inputs, queued, delayed>>

\* generateOpenAPI comes to d, in the order of the names.
Reads(d) == At("merge") /\ d \in attempt.pending /\ \A e \in attempt.pending : d <= e

\* Mutant: every iteration of the loop works on its last definition.
FoundForLast(d) ==
  cachedDocument[Latest({e \in Definitions : attempt.catalog[e] # "unlisted"})]

\* The ConfigMap of d, as the cache has it.
Found(d) == cachedDocument[d]

ReadDocument(d) ==
  LET found == Found(d) IN
  /\ Reads(d)
  /\ found # None /\ Loads(found.content, d)
  /\ attempt' = [attempt EXCEPT !.pending = @ \ {d}, !.parts[d] = found]
  /\ UNCHANGED <<objects, inputs, queued, delayed, clock>>

\* No ConfigMap, or one that is of no use: the definition is left out of the
\* merged document and its entry of the catalog says why.
LeaveOut(d) ==
  LET found == Found(d) IN
  /\ Reads(d)
  /\ found # None => found.content.form # "odd" /\ ~Loads(found.content, d)
  /\ attempt' = [attempt EXCEPT !.pending = @ \ {d}, !.catalog[d] = "error"]
  /\ UNCHANGED <<objects, inputs, queued, delayed, clock>>

\* A type assertion panics; controller-runtime recovers and backs off.
Panic(d) ==
  LET found == Found(d) IN
  /\ Reads(d)
  /\ found # None /\ found.content.form = "odd"
  /\ attempt' = None
  /\ delayed' = TRUE
  /\ UNCHANGED <<objects, inputs, queued, clock>>

Generated == At("merge") /\ attempt.pending = {}

\* The cached ConfigMap chooses between Create and Update.
WriteAccepted == ~attempt.expired /\ (cachedConfigMap = None <=> configMap = None)

\* Mutant: an outcome no patch is sent for.
ConcludeSilently(failed) ==
  attempt' = [attempt EXCEPT !.stage = "done", !.failed = failed]

Conclude(failed) == attempt' = [attempt EXCEPT !.stage = "patch", !.failed = failed]

Store ==
  /\ configMap' = [owner |-> attempt.copy.uid, parts |-> attempt.parts]
  /\ withdrawn' = FALSE

Write ==
  /\ Generated /\ WriteAccepted
  /\ Store
  /\ Conclude(FALSE)
  /\ UNCHANGED <<specification, cached, cachedConfigMap, inputs, queued, delayed, clock>>

\* The write is refused, or the API server fails before or after it.
WriteFails ==
  /\ Generated
  /\ Conclude(TRUE)
  /\ \/ ~WriteAccepted /\ UNCHANGED <<configMap, withdrawn, clock>>
     \/ Tick /\ UNCHANGED <<configMap, withdrawn>>
     \/ Tick /\ WriteAccepted /\ Store
  /\ UNCHANGED <<specification, cached, cachedConfigMap, inputs, queued, delayed>>

\* Mutant: the error is dropped before the status is computed.
ComputedReady(a) == "True"

ComputedStatus(a) == IF a.failed THEN "False" ELSE "True"

\* The object whose status patchStatus sends.
Computed ==
  LET a == attempt IN
  [a.copy EXCEPT !.observed = a.copy.generation,
                 !.catalog = a.catalog,
                 !.ready = [status |-> ComputedStatus(a), generation |-> a.copy.generation]]

\* As for the definitions: a diff against an object that moved conflicts.
PatchAccepted == ~attempt.expired /\ cached = attempt.copy /\ specification # None

\* Mutants: the error is not returned to the work queue; a definition that was
\* left out brings the key back as well.
RetriesNever(a) == FALSE
RetriesLeftOut(a) == a.failed \/ \E d \in Definitions : a.catalog[d] = "error"

Retries(a) == a.failed

SendPatch ==
  LET server == specification
      new == Computed IN
  specification' =
    [server EXCEPT !.observed = MergeField(@, cached.observed, new.observed),
                   !.ready = MergeField(@, cached.ready, new.ready),
                   !.catalog = MergeField(@, cached.catalog, new.catalog)]

PatchStatus ==
  /\ At("patch") /\ PatchAccepted
  /\ SendPatch
  /\ delayed' = (delayed \/ Retries(attempt))
  /\ attempt' = None
  /\ UNCHANGED <<cached, configMap, cachedConfigMap, withdrawn, inputs, queued, clock>>

\* The patch is refused, or the API server fails before or after it.
PatchFails ==
  /\ At("patch")
  /\ \/ ~PatchAccepted /\ UNCHANGED <<specification, clock>>
     \/ Tick /\ UNCHANGED specification
     \/ Tick /\ PatchAccepted /\ SendPatch
  /\ delayed' = TRUE
  /\ attempt' = None
  /\ UNCHANGED <<cached, configMap, cachedConfigMap, withdrawn, inputs, queued>>

\* A crash or a change of leader: the new process lists everything.
Restart ==
  /\ Tick
  /\ cached' = specification
  /\ cachedConfigMap' = configMap
  /\ cachedDefinition' = definition
  /\ cachedDocument' = document
  /\ queued' = (specification # None)
  /\ delayed' = FALSE
  /\ attempt' = None
  /\ UNCHANGED <<specification, configMap, withdrawn, definition, document, served, unusable>>

-------------------------------------------------------------------------------
Users == CreateSpecification \/ EditSpec \/ DeleteSpecification \/ DeleteConfigMap

DefinitionController(d) ==
  CreateDefinition(d) \/ DeleteDefinition(d) \/ PublishDocument(d) \/ WithdrawDocument(d)
  \/ ChangeStatus(d)

Start == Skip \/ Begin
Read == \E d \in Definitions : ReadDocument(d) \/ LeaveOut(d) \/ Panic(d)
Finish == Write \/ WriteFails \/ PatchStatus \/ PatchFails

Next ==
  \/ Users \/ Restart \/ Expire
  \/ CollectGarbage \/ DeliverSpecification \/ DeliverConfigMap \/ Requeue
  \/ \E d \in Definitions :
       DefinitionController(d) \/ DeliverDefinition(d) \/ DeliverDocument(d)
  \/ Start \/ Read \/ Finish

Spec == Init /\ [][Next]_vars

\* The cluster does not stop, nor does the reconciliation in progress.
Fairness ==
  /\ WF_vars(CollectGarbage) /\ WF_vars(DeliverSpecification) /\ WF_vars(DeliverConfigMap)
  /\ WF_vars(Requeue) /\ WF_vars(Start) /\ WF_vars(Read) /\ WF_vars(Finish)
  /\ \A d \in Definitions : WF_vars(DeliverDefinition(d)) /\ WF_vars(DeliverDocument(d))

FairSpec == Spec /\ Fairness

===============================================================================
