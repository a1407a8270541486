------------------------------- MODULE SwaggerHub -------------------------------
(***************************************************************************)
(* The rollout of SwaggerHubs                                              *)
(* (internal/controllers/swaggerhub_controller.go): each hub owns a        *)
(* Service and a Deployment, both named swagger-ui-<hub>, and reports in   *)
(* its conditions whether they are rolled out and, if spec.wait is set,    *)
(* whether an endpoint is ready.                                           *)
(*                                                                         *)
(* As in SwaggerDefinition there are the server's objects, the cached      *)
(* ones, the work queue and a record per worker, which advances one remote *)
(* call at a time.  What the Deployment contains is abstracted to the      *)
(* generation of the hub it was rendered from.                             *)
(***************************************************************************)
EXTENDS Naturals, StatusPatch

CONSTANTS Hubs,      \* names of SwaggerHub objects
          Specs,     \* the specs users write, see SpecType
          Workers,   \* MaxConcurrentReconciles
          MaxClock,  \* bound on what users, pods and faults do
          None       \* absent object or condition, or idle worker

\* SwaggerHubSpec; valid unless one of the selectors is malformed.
SpecType == [wait : BOOLEAN, suspend : BOOLEAN, valid : BOOLEAN]

\* How a reconciliation ends: well, with no endpoint ready, or with an error.
Outcomes == {"ok", "unready", "failed"}

\* A condition is True when ok; the outcome also tells its messages apart.
Condition == [outcome : Outcomes, generation : Nat]

\* status.conditions is a list, which a merge patch replaces as a whole.
Conditions == [ready : Condition \cup {None}, healthy : Condition \cup {None},
               reconciling : Condition \cup {None}]

Hub == [uid : Nat, generation : Nat, spec : Specs, conditions : Conditions, observed : Nat]

Kinds == {"service", "deployment"}

\* The owner of an object the controller did not create.
Stranger == 0

\* A Service or Deployment: the UID of the hub that controls it, the generation
\* it was rendered from, whether server-side apply has been used on it yet, and
\* whether it has ready replicas.
Object == [owner : Nat, template : Nat, applied : BOOLEAN, ready : BOOLEAN]

\* An event of object k of h, and whether its old or new version has a controller.
Event == Hubs \X Kinds \X BOOLEAN

Attempt == [key : Hubs, stage : Kinds \cup {"health", "patch"}, copy : Hub, outcome : Outcomes]

ASSUME SpecsAssumption == Specs \subseteq SpecType
ASSUME MaxClockAssumption == MaxClock \in Nat
ASSUME NoneAssumption ==
  None \notin Hub /\ None \notin Object /\ None \notin Attempt /\ None \notin Condition

VARIABLES
  hub,           \* the SwaggerHub on the API server
  cachedHub,     \* the same in the informer cache
  object,        \* its Service and Deployment on the API server
  cachedObject,  \* the same in the informer caches
  unseen,        \* events of objects on their way to the cache, see Event
  queue,         \* keys in the work queue
  delayed,       \* keys that join it after a back-off
  attempt,       \* what each worker is doing
  clock          \* disturbances so far

work == <<queue, delayed, attempt>>
vars == <<hub, cachedHub, object, cachedObject, unseen, work, clock>>

Nothing == [k \in Kinds |-> None]

Init ==
  /\ hub = [h \in Hubs |-> None]
  /\ cachedHub = [h \in Hubs |-> None]
  /\ object = [h \in Hubs |-> Nothing]
  /\ cachedObject = [h \in Hubs |-> Nothing]
  /\ unseen = {}
  /\ queue = {}
  /\ delayed = {}
  /\ attempt = [w \in Workers |-> None]
  /\ clock = 0

Busy(h) == \E w \in Workers : attempt[w] # None /\ attempt[w].key = h

-------------------------------------------------------------------------------
(* Users, pods and the garbage collector.                                   *)

Tick == clock < MaxClock /\ clock' = clock + 1

NoConditions == [ready |-> None, healthy |-> None, reconciling |-> None]

NewHub(uid, spec) ==
  [uid |-> uid, generation |-> 1, spec |-> spec, conditions |-> NoConditions, observed |-> 0]

CreateHub(h) ==
  /\ Tick
  /\ hub[h] = None
  /\ \E spec \in Specs : hub' = [hub EXCEPT ![h] = NewHub(clock + 1, spec)]
  /\ UNCHANGED <<cachedHub, object, cachedObject, unseen, work>>

\* Also an edit that keeps wait, suspend and the validity of the selectors.
EditHub(h) ==
  /\ Tick
  /\ hub[h] # None
  /\ \E spec \in Specs : hub' = [hub EXCEPT ![h].spec = spec, ![h].generation = @ + 1]
  /\ UNCHANGED <<cachedHub, object, cachedObject, unseen, work>>

DeleteHub(h) ==
  /\ Tick
  /\ hub[h] # None
  /\ hub' = [hub EXCEPT ![h] = None]
  /\ UNCHANGED <<cachedHub, object, cachedObject, unseen, work>>

Controlled(o) == o # None /\ o.owner # Stranger

\* Mutant: an event counts by the new version of its object only.
PutForNew(h, k, o) ==
  /\ object' = [object EXCEPT ![h][k] = o]
  /\ unseen' = IF object[h][k] = o THEN unseen ELSE unseen \cup {<<h, k, Controlled(o)>>}

\* Object k of h on the server becomes o, and an event of it is on its way.
Put(h, k, o) ==
  LET old == object[h][k] IN
  /\ object' = [object EXCEPT ![h][k] = o]
  /\ unseen' = IF old = o THEN unseen
               ELSE unseen \cup {<<h, k, Controlled(old) \/ Controlled(o)>>}

\* Somebody else's object under the name.
Intrude(h, k) ==
  /\ Tick
  /\ object[h][k] = None
  /\ Put(h, k, [owner |-> Stranger, template |-> 0, applied |-> FALSE, ready |-> FALSE])
  /\ UNCHANGED <<hub, cachedHub, cachedObject, work>>

Remove(h, k) ==
  /\ object[h][k] # None
  /\ Put(h, k, None)
  /\ UNCHANGED <<hub, cachedHub, cachedObject, work>>

DeleteObject(h, k) == Tick /\ Remove(h, k)

\* Somebody edits the Deployment.
Tamper(h) ==
  /\ Tick
  /\ object[h]["deployment"] # None
  /\ Put(h, "deployment", [object[h]["deployment"] EXCEPT !.template = 0])
  /\ UNCHANGED <<hub, cachedHub, cachedObject, work>>

\* Pods come up and go down: status.readyReplicas.
Flip(h) ==
  /\ Tick
  /\ object[h]["deployment"] # None
  /\ Put(h, "deployment", [object[h]["deployment"] EXCEPT !.ready = ~@])
  /\ UNCHANGED <<hub, cachedHub, cachedObject, work>>

\* The hub the ownerReference names by UID is gone.
CollectGarbage(h, k) ==
  /\ object[h][k] # None /\ object[h][k].owner # Stranger
  /\ hub[h] # None => hub[h].uid # object[h][k].owner
  /\ Remove(h, k)
  /\ UNCHANGED clock

-------------------------------------------------------------------------------
(* Informers and the work queue.                                            *)

\* Mutant: a predicate that lets creations and deletions through only.
WakesOnLifecycle(old, new) == old = None \/ new = None \/ old.uid # new.uid

\* GenerationChangedPredicate.
Wakes(old, new) ==
  \/ old = None \/ new = None
  \/ old.uid # new.uid \/ old.generation # new.generation

DeliverHub(h) ==
  /\ cachedHub[h] # hub[h]
  /\ cachedHub' = [cachedHub EXCEPT ![h] = hub[h]]
  /\ queue' = IF Wakes(cachedHub[h], hub[h]) THEN queue \cup {h} ELSE queue
  /\ UNCHANGED <<hub, object, cachedObject, unseen, delayed, attempt, clock>>

Unseen(h, k) == unseen \cap {<<h, k, TRUE>>, <<h, k, FALSE>>}

\* EnqueueRequestForOwner, OnlyControllerOwner: one event after the other, of
\* which the model keeps the last version and whether one names a controller.
DeliverObject(h, k) ==
  /\ Unseen(h, k) # {}
  /\ unseen' = unseen \ Unseen(h, k)
  /\ cachedObject' = [cachedObject EXCEPT ![h][k] = object[h][k]]
  /\ queue' = IF <<h, k, TRUE>> \in unseen THEN queue \cup {h} ELSE queue
  /\ UNCHANGED <<hub, cachedHub, object, delayed, attempt, clock>>

Requeue(h) ==
  /\ h \in delayed
  /\ delayed' = delayed \ {h}
  /\ queue' = queue \cup {h}
  /\ UNCHANGED <<hub, cachedHub, object, cachedObject, unseen, attempt, clock>>

-------------------------------------------------------------------------------
(* Reconcile, one remote call at a time.                                    *)

\* Mutant: two workers may have the same key.
AvailableToAll(w, h) == h \in queue /\ attempt[w] = None

Available(w, h) == h \in queue /\ attempt[w] = None /\ ~Busy(h)

\* The hub is gone or suspended.
Skip(w, h) ==
  /\ Available(w, h)
  /\ cachedHub[h] # None => cachedHub[h].spec.suspend
  /\ queue' = queue \ {h}
  /\ UNCHANGED <<hub, cachedHub, object, cachedObject, unseen, delayed, attempt, clock>>

\* A malformed selector is an error before anything is written.
Begin(w, h) ==
  /\ Available(w, h)
  /\ cachedHub[h] # None /\ ~cachedHub[h].spec.suspend
  /\ queue' = queue \ {h}
  /\ attempt' = [attempt EXCEPT ![w] =
       [key |-> h, stage |-> IF cachedHub[h].spec.valid THEN "service" ELSE "patch",
        copy |-> cachedHub[h], outcome |-> IF cachedHub[h].spec.valid THEN "ok" ELSE "failed"]]
  /\ UNCHANGED <<hub, cachedHub, object, cachedObject, unseen, delayed, clock>>

Start(w, h) == Skip(w, h) \/ Begin(w, h)

At(w, stage) == attempt[w] # None /\ attempt[w].stage = stage

\* Mutants: the status patch does not come, or comes without the outcome.
ConcludeSilently(w, outcome) ==
  attempt' = [attempt EXCEPT ![w].stage = "done", ![w].outcome = outcome]
ConcludeBlindly(w, outcome) ==
  attempt' = [attempt EXCEPT ![w].stage = "patch", ![w].outcome = "ok"]

Conclude(w, outcome) ==
  attempt' = [attempt EXCEPT ![w].stage = "patch", ![w].outcome = outcome]

\* createOrUpdateWithOwnershipValidation: what the cache holds decides between
\* Create, which the server refuses if the object is there, an error, and a
\* forced Apply by name.  The server refuses a second controller, and a
\* stranger's Deployment has another selector, which cannot be changed.
Accepted(w, k) ==
  LET h == attempt[w].key
      uid == attempt[w].copy.uid
      current == object[h][k] IN
  IF cachedObject[h][k] = None THEN current = None
  ELSE /\ cachedObject[h][k].owner = uid
       /\ current # None =>
            current.owner \in (IF k = "service" THEN {uid, Stranger} ELSE {uid})

\* Mutant: no ownerReference.
WrittenAlone(w, k) ==
  [owner |-> Stranger, template |-> attempt[w].copy.generation, applied |-> FALSE, ready |-> FALSE]

\* The object after the write.
Written(w, k) ==
  LET a == attempt[w] IN
  [owner |-> a.copy.uid,
   template |-> IF k = "deployment" THEN a.copy.generation ELSE 0,
   applied |-> cachedObject[a.key][k] # None,
   ready |-> object[a.key][k] # None /\ object[a.key][k].ready]

\* What follows a write that succeeds.
After(w) ==
  CASE At(w, "service") -> attempt' = [attempt EXCEPT ![w].stage = "deployment"]
    [] At(w, "deployment") /\ attempt[w].copy.spec.wait ->
         attempt' = [attempt EXCEPT ![w].stage = "health"]
    [] OTHER -> Conclude(w, "ok")

Write(w, k) ==
  /\ At(w, k) /\ Accepted(w, k)
  /\ Put(attempt[w].key, k, Written(w, k))
  /\ After(w)
  /\ UNCHANGED <<hub, cachedHub, cachedObject, queue, delayed, clock>>

\* The write is refused, or the API server fails before or after it.
WriteFails(w, k) ==
  /\ At(w, k)
  /\ Conclude(w, "failed")
  /\ \/ ~Accepted(w, k) /\ UNCHANGED <<object, unseen, clock>>
     \/ Tick /\ UNCHANGED <<object, unseen>>
     \/ Tick /\ Accepted(w, k) /\ Put(attempt[w].key, k, Written(w, k))
  /\ UNCHANGED <<hub, cachedHub, cachedObject, queue, delayed>>

\* The health check reads the cached Deployment, which may not be there yet.
CheckHealth(w) ==
  /\ At(w, "health")
  /\ LET app == cachedObject[attempt[w].key]["deployment"] IN
     Conclude(w, IF app = None THEN "failed" ELSE IF app.ready THEN "ok" ELSE "unready")
  /\ UNCHANGED <<hub, cachedHub, object, cachedObject, unseen, queue, delayed, clock>>

\* Mutant: the conditions of an unhealthy hub are completed as if it were healthy.
ComputedThrough(a) ==
  LET now == [outcome |-> a.outcome, generation |-> a.copy.generation]
      ok == [now EXCEPT !.outcome = "ok"] IN
  [a.copy EXCEPT
     !.observed = a.copy.generation,
     !.conditions = [ready |-> IF a.outcome = "failed" THEN now ELSE ok,
                     healthy |-> IF a.copy.spec.wait THEN now ELSE None,
                     reconciling |-> None]]

\* The hub whose status patchStatus sends.  An error leaves Healthy alone, and
\* Reconciling is set at the start if wait is, and removed on success only.
Computed(a) ==
  LET now == [outcome |-> a.outcome, generation |-> a.copy.generation]
      old == a.copy.conditions IN
  [a.copy EXCEPT
     !.observed = a.copy.generation,
     !.conditions =
       [ready |-> now,
        healthy |-> IF a.outcome = "failed" THEN old.healthy
                    ELSE IF a.copy.spec.wait THEN now ELSE None,
        reconciling |-> IF a.outcome = "ok" THEN None
                        ELSE IF a.copy.spec.wait THEN [now EXCEPT !.outcome = "ok"]
                        ELSE old.reconciling]]

\* Mutant: the resourceVersion is stripped from the patch.
PatchAcceptedAnyway(w) == hub[attempt[w].key] # None

\* The patch is addressed by name; it conflicts when the cache has moved since
\* the hub was read.
PatchAccepted(w) ==
  LET a == attempt[w] IN cachedHub[a.key] = a.copy /\ hub[a.key] # None

Patched(server, latest, computed) ==
  [server EXCEPT !.observed = MergeField(@, latest.observed, computed.observed),
                 !.conditions = MergeField(@, latest.conditions, computed.conditions)]

SendPatch(w) ==
  LET a == attempt[w] IN
  hub' = [hub EXCEPT ![a.key] = Patched(@, cachedHub[a.key], Computed(a))]

\* Mutant: errors are logged only.
RetriesNever(a) == FALSE

\* reconcile()'s error is returned; an endpoint that is not ready is not one.
Retries(a) == a.outcome = "failed"

PatchStatus(w) ==
  LET a == attempt[w] IN
  /\ At(w, "patch") /\ PatchAccepted(w)
  /\ SendPatch(w)
  /\ delayed' = IF Retries(a) THEN delayed \cup {a.key} ELSE delayed
  /\ attempt' = [attempt EXCEPT ![w] = None]
  /\ UNCHANGED <<cachedHub, object, cachedObject, unseen, queue, clock>>

\* The patch is refused, or the API server fails before or after it.
PatchFails(w) ==
  /\ At(w, "patch")
  /\ \/ ~PatchAccepted(w) /\ UNCHANGED <<hub, clock>>
     \/ Tick /\ UNCHANGED hub
     \/ Tick /\ PatchAccepted(w) /\ SendPatch(w)
  /\ delayed' = delayed \cup {attempt[w].key}
  /\ attempt' = [attempt EXCEPT ![w] = None]
  /\ UNCHANGED <<cachedHub, object, cachedObject, unseen, queue>>

\* A crash or a change of leader.
Restart ==
  /\ Tick
  /\ cachedHub' = hub
  /\ cachedObject' = object
  /\ unseen' = {}
  /\ queue' = {h \in Hubs : hub[h] # None \/ \E k \in Kinds : Controlled(object[h][k])}
  /\ delayed' = {}
  /\ attempt' = [w \in Workers |-> None]
  /\ UNCHANGED <<hub, object>>

-------------------------------------------------------------------------------
Users(h) == CreateHub(h) \/ EditHub(h) \/ DeleteHub(h) \/ Tamper(h) \/ Flip(h)

Intruders(h, k) == Intrude(h, k) \/ DeleteObject(h, k)

Cluster(h, k) == CollectGarbage(h, k) \/ DeliverObject(h, k)

Advance(w) ==
  \/ \E k \in Kinds : Write(w, k) \/ WriteFails(w, k)
  \/ CheckHealth(w)
  \/ PatchStatus(w) \/ PatchFails(w)

Next ==
  \/ \E h \in Hubs : Users(h) \/ DeliverHub(h) \/ Requeue(h)
  \/ \E h \in Hubs, k \in Kinds : Intruders(h, k) \/ Cluster(h, k)
  \/ \E w \in Workers, h \in Hubs : Start(w, h)
  \/ \E w \in Workers : Advance(w)
  \/ Restart

Spec == Init /\ [][Next]_vars

\* Informers, garbage collector, back-offs and workers do not stop, and a key in
\* the queue is not passed over for ever.
Fairness ==
  /\ \A h \in Hubs :
       /\ WF_vars(DeliverHub(h)) /\ WF_vars(Requeue(h))
       /\ \A k \in Kinds : WF_vars(CollectGarbage(h, k)) /\ WF_vars(DeliverObject(h, k))
       /\ SF_vars(\E w \in Workers : Start(w, h))
  /\ \A w \in Workers : WF_vars(Advance(w))

FairSpec == Spec /\ Fairness

===============================================================================
