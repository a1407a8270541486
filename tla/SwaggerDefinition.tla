--------------------------- MODULE SwaggerDefinition ---------------------------
(***************************************************************************)
(* The SwaggerDefinition controller                                        *)
(* (internal/controllers/swaggerdefinition_controller.go): it polls an     *)
(* HTTP API for its OpenAPI document, publishes the document in a          *)
(* ConfigMap it owns and records the outcome in the object's status.       *)
(*                                                                         *)
(* The controller reads objects through an informer cache that lags behind *)
(* the API server and learns of changes through a work queue.  The model   *)
(* keeps the server's objects, the cached ones, the queue and one record   *)
(* per worker for a reconciliation in progress, which advances one         *)
(* remote call at a time.                                                  *)
(***************************************************************************)
EXTENDS Naturals, FiniteSets, StatusPatch

CONSTANTS Definitions,  \* names of SwaggerDefinition objects
          Specs,        \* the specs users write, see SpecType
          Workers,      \* MaxConcurrentReconciles
          MaxClock,     \* bound on what users, upstream and faults do
          None          \* absent object, or idle worker

\* SwaggerDefinitionSpec: is url set, has it the https scheme, does auth name a
\* secret, with allowInsecure, with a static username, and so on.
SpecType == [url : BOOLEAN, https : BOOLEAN, auth : BOOLEAN, allowInsecure : BOOLEAN,
             username : BOOLEAN, suspend : BOOLEAN, interval : BOOLEAN, timeout : BOOLEAN]

Modes == {"ok", "down", "hang"}

\* The Ready condition, with the generation setResourceCondition stamps on it.
Condition == [status : {"Unknown", "True", "False"}, generation : Nat]

Object == [uid : Nat, generation : Nat, spec : Specs, ready : Condition, observed : Nat]

ConfigMap == [owner : Nat, data : Nat]

\* A reconciliation in progress: the copy read from the cache, the body fetched,
\* whether reconcile() returned an error and whether the deadline has passed.
Attempt == [key : Definitions, stage : {"fetch", "write", "patch"}, copy : Object,
            body : Nat, failed : BOOLEAN, expired : BOOLEAN]

\* The keys a secret may hold, if any spec refers to one.
SecretKeys == IF \E spec \in Specs : spec.auth THEN {"username", "password"} ELSE {}

ASSUME SpecsAssumption == Specs \subseteq SpecType
ASSUME MaxClockAssumption == MaxClock \in Nat
ASSUME NoneAssumption ==
  None \notin Object /\ None \notin ConfigMap /\ None \notin Attempt /\ None \notin Nat

VARIABLES
  definition,       \* the SwaggerDefinition on the API server
  cached,           \* the same in the informer cache
  configMap,        \* the ConfigMap swagger-definition-<name> on the API server
  cachedConfigMap,  \* the same in the informer cache
  unseen,           \* names with ConfigMap events on their way to the cache
  upstream,         \* the HTTP API the urls point to
  secret,           \* keys of the referenced Secret, see SecretKeys
  queue,            \* keys in the work queue
  delayed,          \* keys that join it after a back-off or an interval
  attempt,          \* what each worker is doing
  clock             \* disturbances so far

objects == <<definition, cached, configMap, cachedConfigMap, unseen>>
outside == <<upstream, secret, clock>>
work == <<queue, delayed, attempt>>
vars == <<objects, outside, work>>

Init ==
  /\ definition = [d \in Definitions |-> None]
  /\ cached = [d \in Definitions |-> None]
  /\ configMap = [d \in Definitions |-> None]
  /\ cachedConfigMap = [d \in Definitions |-> None]
  /\ unseen = {}
  /\ upstream = [mode |-> "ok", version |-> 0]
  /\ secret \in SUBSET SecretKeys
  /\ queue = {}
  /\ delayed = {}
  /\ attempt = [w \in Workers |-> None]
  /\ clock = 0

Busy(d) == \E w \in Workers : attempt[w] # None /\ attempt[w].key = d

-------------------------------------------------------------------------------
(* Users, the upstream API and faults.  Each takes one tick of the clock,   *)
(* which bounds them all.                                                   *)

Tick == clock < MaxClock /\ clock' = clock + 1

NoCondition == [status |-> "Unknown", generation |-> 0]

NewObject(uid, spec) ==
  [uid |-> uid, generation |-> 1, spec |-> spec, ready |-> NoCondition, observed |-> 0]

CreateDefinition(d) ==
  /\ Tick
  /\ definition[d] = None
  /\ \E spec \in Specs :
       definition' = [definition EXCEPT ![d] = NewObject(clock + 1, spec)]
  /\ UNCHANGED <<cached, configMap, cachedConfigMap, unseen, upstream, secret, work>>

EditSpec(d) ==
  /\ Tick
  /\ definition[d] # None
  /\ \E spec \in Specs \ {definition[d].spec} :
       definition' = [definition EXCEPT ![d].spec = spec, ![d].generation = @ + 1]
  /\ UNCHANGED <<cached, configMap, cachedConfigMap, unseen, upstream, secret, work>>

DeleteDefinition(d) ==
  /\ Tick
  /\ definition[d] # None
  /\ definition' = [definition EXCEPT ![d] = None]
  /\ UNCHANGED <<cached, configMap, cachedConfigMap, unseen, upstream, secret, work>>

RemoveConfigMap(d) ==
  /\ configMap[d] # None
  /\ configMap' = [configMap EXCEPT ![d] = None]
  /\ unseen' = unseen \cup {d}
  /\ UNCHANGED <<definition, cached, cachedConfigMap, upstream, secret, work>>

DeleteConfigMap(d) == Tick /\ RemoveConfigMap(d)

UpstreamChanges ==
  /\ Tick
  /\ \/ upstream' = [upstream EXCEPT !.version = @ + 1]
     \/ \E mode \in Modes \ {upstream.mode} : upstream' = [upstream EXCEPT !.mode = mode]
  /\ UNCHANGED <<objects, secret, work>>

SecretChanges ==
  /\ Tick
  /\ secret' \in (SUBSET SecretKeys) \ {secret}
  /\ UNCHANGED <<objects, upstream, work>>

-------------------------------------------------------------------------------
(* The cluster: the garbage collector and the informers.                    *)

\* Mutant: dependents of a deleted object are orphaned.
OwnerReplaced(d) == definition[d] # None /\ definition[d].uid # configMap[d].owner

\* The object the ownerReference names by UID is gone.
OwnerGone(d) == definition[d] # None => definition[d].uid # configMap[d].owner

CollectGarbage(d) ==
  /\ configMap[d] # None /\ OwnerGone(d)
  /\ RemoveConfigMap(d)
  /\ UNCHANGED clock

\* Mutant: a predicate that lets creations and deletions through only.
WakesOnLifecycle(old, new) == old = None \/ new = None \/ old.uid # new.uid

\* GenerationChangedPredicate: creations, deletions and spec changes pass, an
\* update of the status does not.
Wakes(old, new) ==
  \/ old = None \/ new = None
  \/ old.uid # new.uid \/ old.generation # new.generation

DeliverDefinition(d) ==
  /\ cached[d] # definition[d]
  /\ cached' = [cached EXCEPT ![d] = definition[d]]
  /\ queue' = IF Wakes(cached[d], definition[d]) THEN queue \cup {d} ELSE queue
  /\ UNCHANGED <<definition, configMap, cachedConfigMap, unseen, outside, delayed, attempt>>

\* EnqueueRequestForOwner: any event of an owned ConfigMap enqueues its owner.
DeliverConfigMap(d) ==
  /\ d \in unseen
  /\ unseen' = unseen \ {d}
  /\ cachedConfigMap' = [cachedConfigMap EXCEPT ![d] = configMap[d]]
  /\ queue' = queue \cup {d}
  /\ UNCHANGED <<definition, cached, configMap, outside, delayed, attempt>>

Requeue(d) ==
  /\ d \in delayed
  /\ delayed' = delayed \ {d}
  /\ queue' = queue \cup {d}
  /\ UNCHANGED <<objects, outside, attempt>>

-------------------------------------------------------------------------------
(* Reconcile, one remote call at a time.                                    *)

\* Mutant: two workers may have the same key.
AvailableToAll(w, d) == d \in queue /\ attempt[w] = None

\* The work queue hands out a key once and not to a second worker.
Available(w, d) == d \in queue /\ attempt[w] = None /\ ~Busy(d)

Begin(w, d, stage, failed) ==
  /\ Available(w, d)
  /\ queue' = queue \ {d}
  /\ cached[d] # None
  /\ ~cached[d].spec.suspend
  /\ attempt' = [attempt EXCEPT ![w] =
       [key |-> d, stage |-> stage, copy |-> cached[d], body |-> 0,
        failed |-> failed, expired |-> FALSE]]
  /\ UNCHANGED <<objects, outside, delayed>>

\* authenticateRequest: the secret is read from the API server, not the cache.
Authorised(spec) ==
  spec.auth =>
    /\ spec.https \/ spec.allowInsecure
    /\ spec.username \/ "username" \in secret
    /\ "password" \in secret

\* The object is gone or suspended: nothing to do.
Skip(w, d) ==
  /\ Available(w, d)
  /\ cached[d] # None => cached[d].spec.suspend
  /\ queue' = queue \ {d}
  /\ UNCHANGED <<objects, outside, delayed, attempt>>

Refuse(w, d) ==
  /\ Begin(w, d, "patch", TRUE)
  /\ ~(cached[d].spec.url /\ Authorised(cached[d].spec))

Request(w, d) ==
  /\ Begin(w, d, "fetch", FALSE)
  /\ cached[d].spec.url /\ Authorised(cached[d].spec)

Start(w, d) == Skip(w, d) \/ Refuse(w, d) \/ Request(w, d)

At(w, stage) == attempt[w] # None /\ attempt[w].stage = stage

\* spec.timeout: the context's deadline passes.  It is a disturbance unless the
\* upstream API does not answer, when it is bound to come.
Expire(w) ==
  /\ attempt[w] # None
  /\ attempt[w].copy.spec.timeout /\ ~attempt[w].expired
  /\ IF At(w, "fetch") /\ upstream.mode = "hang" THEN UNCHANGED clock ELSE Tick
  /\ attempt' = [attempt EXCEPT ![w].expired = TRUE]
  /\ UNCHANGED <<objects, upstream, secret, queue, delayed>>

\* Mutant: an outcome no patch is sent for.
ConcludeSilently(w, failed) ==
  attempt' = [attempt EXCEPT ![w].stage = "done", ![w].failed = failed]

\* reconcile() goes on to the status patch with an error, or without.
Conclude(w, failed) ==
  attempt' = [attempt EXCEPT ![w].stage = "patch", ![w].failed = failed]

FetchAnswers(w) ==
  /\ At(w, "fetch") /\ ~attempt[w].expired
  /\ upstream.mode = "ok"
  /\ attempt' = [attempt EXCEPT ![w].stage = "write", ![w].body = upstream.version]
  /\ UNCHANGED <<objects, outside, queue, delayed>>

\* Mutant: the request does not carry the context.
FetchFailsDetached(w) ==
  /\ At(w, "fetch")
  /\ upstream.mode = "down"
  /\ Conclude(w, TRUE)
  /\ UNCHANGED <<objects, outside, queue, delayed>>

FetchFails(w) ==
  /\ At(w, "fetch")
  /\ upstream.mode = "down" \/ attempt[w].expired
  /\ Conclude(w, TRUE)
  /\ UNCHANGED <<objects, outside, queue, delayed>>

\* The cached ConfigMap chooses between Create and Update; the server rejects
\* the creation of one that is there and the update of one that is not.
WriteAccepted(w) ==
  LET d == attempt[w].key IN
  /\ ~attempt[w].expired
  /\ cachedConfigMap[d] = None <=> configMap[d] = None

\* A write that changes nothing makes no event.
Store(w) ==
  LET a == attempt[w]
      new == [owner |-> a.copy.uid, data |-> a.body] IN
  /\ configMap' = [configMap EXCEPT ![a.key] = new]
  /\ unseen' = IF configMap[a.key] = new THEN unseen ELSE unseen \cup {a.key}

Publish(w) ==
  /\ At(w, "write") /\ WriteAccepted(w)
  /\ Store(w)
  /\ Conclude(w, FALSE)
  /\ UNCHANGED <<definition, cached, cachedConfigMap, outside, queue, delayed>>

\* The write is refused, or the API server fails before or after it.
PublishFails(w) ==
  /\ At(w, "write")
  /\ Conclude(w, TRUE)
  /\ \/ ~WriteAccepted(w) /\ UNCHANGED <<configMap, unseen, clock>>
     \/ Tick /\ UNCHANGED <<configMap, unseen>>
     \/ Tick /\ WriteAccepted(w) /\ Store(w)
  /\ UNCHANGED <<definition, cached, cachedConfigMap, upstream, secret, queue, delayed>>

Recorded(object, generation, status) ==
  [object EXCEPT !.observed = generation,
                 !.ready = [status |-> status, generation |-> generation]]

\* Mutant: the error is dropped before the status is computed.
ComputedReady(a) == Recorded(a.copy, a.copy.generation, "True")

\* The object whose status patchStatus sends.
Computed(a) ==
  Recorded(a.copy, a.copy.generation, IF a.failed THEN "False" ELSE "True")

\* patchStatus: the patch is addressed by name.  When the cache has moved since
\* the object was read, the diff carries the old resourceVersion and conflicts;
\* equal cached values stand for equal resourceVersions.
PatchAccepted(w) ==
  LET a == attempt[w] IN
  /\ ~a.expired
  /\ cached[a.key] = a.copy
  /\ definition[a.key] # None

Patched(server, latest, computed) ==
  [server EXCEPT !.observed = MergeField(@, latest.observed, computed.observed),
                 !.ready = MergeField(@, latest.ready, computed.ready)]

\* Mutants: the interval, or the error, is not returned to the work queue.
RetriesOnError(a) == a.failed
RetriesOnInterval(a) == a.copy.spec.interval

\* An interval or an error brings the key back later.
Retries(a) == a.copy.spec.interval \/ a.failed

SendPatch(w) ==
  LET a == attempt[w] IN
  definition' = [definition EXCEPT ![a.key] = Patched(@, cached[a.key], Computed(a))]

PatchStatus(w) ==
  LET a == attempt[w] IN
  /\ At(w, "patch") /\ PatchAccepted(w)
  /\ SendPatch(w)
  /\ delayed' = IF Retries(a) THEN delayed \cup {a.key} ELSE delayed
  /\ attempt' = [attempt EXCEPT ![w] = None]
  /\ UNCHANGED <<cached, configMap, cachedConfigMap, unseen, outside, queue>>

\* The patch is refused, or the API server fails before or after it.
PatchFails(w) ==
  /\ At(w, "patch")
  /\ \/ ~PatchAccepted(w) /\ UNCHANGED <<definition, clock>>
     \/ Tick /\ UNCHANGED definition
     \/ Tick /\ PatchAccepted(w) /\ SendPatch(w)
  /\ delayed' = delayed \cup {attempt[w].key}
  /\ attempt' = [attempt EXCEPT ![w] = None]
  /\ UNCHANGED <<cached, configMap, cachedConfigMap, unseen, upstream, secret, queue>>

\* A crash or a change of leader: the new process lists everything and enqueues
\* every SwaggerDefinition and every owner of a ConfigMap.
Restart ==
  /\ Tick
  /\ cached' = definition
  /\ cachedConfigMap' = configMap
  /\ unseen' = {}
  /\ queue' = {d \in Definitions : definition[d] # None \/ configMap[d] # None}
  /\ delayed' = {}
  /\ attempt' = [w \in Workers |-> None]
  /\ UNCHANGED <<definition, configMap, upstream, secret>>

-------------------------------------------------------------------------------
Environment(d) ==
  CreateDefinition(d) \/ EditSpec(d) \/ DeleteDefinition(d) \/ DeleteConfigMap(d)

Cluster(d) ==
  CollectGarbage(d) \/ DeliverDefinition(d) \/ DeliverConfigMap(d) \/ Requeue(d)

Fetch(w) == FetchAnswers(w) \/ FetchFails(w)
Write(w) == Publish(w) \/ PublishFails(w)
Patch(w) == PatchStatus(w) \/ PatchFails(w)

Next ==
  \/ \E d \in Definitions : Environment(d) \/ Cluster(d)
  \/ UpstreamChanges \/ SecretChanges \/ Restart
  \/ \E w \in Workers, d \in Definitions : Start(w, d)
  \/ \E w \in Workers : Expire(w) \/ Fetch(w) \/ Write(w) \/ Patch(w)

Spec == Init /\ [][Next]_vars

\* The cluster and a worker with an answer do not stop, a deadline comes, and
\* the queue is first in, first out: a key in it is not passed over for ever.
Fairness ==
  /\ \A d \in Definitions :
       /\ WF_vars(CollectGarbage(d)) /\ WF_vars(DeliverDefinition(d))
       /\ WF_vars(DeliverConfigMap(d)) /\ WF_vars(Requeue(d))
       /\ SF_vars(\E w \in Workers : Start(w, d))
  /\ \A w \in Workers :
       WF_vars(Expire(w) /\ UNCHANGED clock) /\ WF_vars(Fetch(w))
       /\ WF_vars(Write(w)) /\ WF_vars(Patch(w))

FairSpec == Spec /\ Fairness

===============================================================================
