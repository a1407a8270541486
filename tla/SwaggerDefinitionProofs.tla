------------------------ MODULE SwaggerDefinitionProofs ------------------------
(***************************************************************************)
(* Theorems about SwaggerDefinition, for every set of definitions, specs   *)
(* and workers and every bound on the disturbances.                        *)
(***************************************************************************)
EXTENDS SwaggerDefinitionProperties, TLAPS

USE DEF objects, outside, work

-------------------------------------------------------------------------------
(* Type correctness.                                                        *)

LEMMA NewObjectTyped ==
  ASSUME NEW uid \in Nat, NEW spec \in Specs
  PROVE  NewObject(uid, spec) \in Object
  BY DEF NewObject, Object, NoCondition, Condition

LEMMA PatchedTyped ==
  ASSUME NEW a \in Attempt, NEW server \in Object, NEW latest
  PROVE  Patched(server, latest, Computed(a)) \in Object
<1>1. Computed(a) \in Object
  BY DEF Attempt, Computed, Recorded, Object, Condition
<1>. QED BY <1>1 DEF Patched, MergeField, Object

LEMMA InitTyped == Init => TypeOK
  BY MaxClockAssumption DEF Init, TypeOK, Modes

LEMMA EnvironmentTyped ==
  ASSUME TypeOK, NEW d \in Definitions, Environment(d)
  PROVE  TypeOK'
<1> USE NoneAssumption, MaxClockAssumption DEF Tick
<1>1. CASE CreateDefinition(d)
  <2>1. \A spec \in Specs : NewObject(clock + 1, spec) \in Object
    BY NewObjectTyped DEF TypeOK
  <2>. QED BY <1>1, <2>1 DEF TypeOK, CreateDefinition
<1>2. CASE EditSpec(d)
  <2>1. PICK spec \in Specs : definition' =
          [definition EXCEPT ![d].spec = spec, ![d].generation = @ + 1]
    BY <1>2 DEF EditSpec
  <2>2. definition[d] \in Object
    BY <1>2 DEF EditSpec, TypeOK
  <2>3. definition' = [definition EXCEPT ![d] =
          [definition[d] EXCEPT !.spec = spec, !.generation = @ + 1]]
    BY <2>1, <2>2 DEF TypeOK, Object
  <2>4. definition[d].generation + 1 \in Nat
    BY <2>2 DEF Object
  <2>5. [definition[d] EXCEPT !.spec = spec, !.generation = definition[d].generation + 1] \in Object
    BY <2>2, <2>4 DEF Object
  <2>6. definition' \in [Definitions -> Object \cup {None}]
    BY <2>3, <2>5 DEF TypeOK
  <2>. QED BY <1>2, <2>6 DEF TypeOK, EditSpec
<1>3. CASE DeleteDefinition(d)
  BY <1>3 DEF TypeOK, DeleteDefinition
<1>4. CASE DeleteConfigMap(d)
  BY <1>4 DEF TypeOK, DeleteConfigMap, RemoveConfigMap
<1>. QED BY <1>1, <1>2, <1>3, <1>4 DEF Environment

LEMMA ClusterTyped ==
  ASSUME TypeOK, NEW d \in Definitions, Cluster(d)
  PROVE  TypeOK'
<1>1. CASE CollectGarbage(d)
  BY <1>1 DEF TypeOK, CollectGarbage, RemoveConfigMap
<1>2. CASE DeliverDefinition(d)
  BY <1>2 DEF TypeOK, DeliverDefinition
<1>3. CASE DeliverConfigMap(d)
  BY <1>3 DEF TypeOK, DeliverConfigMap
<1>4. CASE Requeue(d)
  BY <1>4 DEF TypeOK, Requeue
<1>. QED BY <1>1, <1>2, <1>3, <1>4 DEF Cluster

LEMMA StartTyped ==
  ASSUME TypeOK, NEW w \in Workers, NEW d \in Definitions, Start(w, d)
  PROVE  TypeOK'
<1>1. ASSUME NEW stage \in {"fetch", "patch"}, NEW failed \in BOOLEAN, Begin(w, d, stage, failed)
      PROVE  TypeOK'
  <2>1. [key |-> d, stage |-> stage, copy |-> cached[d], body |-> 0,
         failed |-> failed, expired |-> FALSE] \in Attempt
    BY <1>1 DEF Begin, TypeOK, Attempt
  <2>. QED BY <1>1, <2>1 DEF TypeOK, Begin
<1>2. CASE Skip(w, d)
  BY <1>2 DEF TypeOK, Skip
<1>. QED BY <1>1, <1>2 DEF Start, Refuse, Request

LEMMA WorkerTyped ==
  ASSUME TypeOK, NEW w \in Workers, Expire(w) \/ Fetch(w) \/ Write(w) \/ Patch(w)
  PROVE  TypeOK'
<1> USE NoneAssumption, MaxClockAssumption DEF Tick
<1>1. attempt[w] \in Attempt
  BY DEF TypeOK, Expire, Fetch, FetchAnswers, FetchFails, Write, Publish, PublishFails,
         Patch, PatchStatus, PatchFails, At
<1>2. ASSUME NEW failed \in BOOLEAN, Conclude(w, failed)
      PROVE  attempt' \in [Workers -> Attempt \cup {None}]
  <2>1. attempt' = [attempt EXCEPT ![w] =
          [attempt[w] EXCEPT !.stage = "patch", !.failed = failed]]
    BY <1>1, <1>2 DEF Conclude, TypeOK, Attempt
  <2>2. [attempt[w] EXCEPT !.stage = "patch", !.failed = failed] \in Attempt
    BY <1>1 DEF Attempt
  <2>. QED BY <2>1, <2>2 DEF TypeOK
<1>3. CASE Expire(w)
  <2>1. attempt' = [attempt EXCEPT ![w] = [attempt[w] EXCEPT !.expired = TRUE]]
    BY <1>1, <1>3 DEF Expire, TypeOK, Attempt
  <2>2. [attempt[w] EXCEPT !.expired = TRUE] \in Attempt
    BY <1>1 DEF Attempt
  <2>3. attempt' \in [Workers -> Attempt \cup {None}]
    BY <2>1, <2>2 DEF TypeOK
  <2>. QED BY <1>3, <2>3 DEF TypeOK, Expire
<1>4. CASE FetchAnswers(w)
  <2>1. attempt' = [attempt EXCEPT ![w] =
          [attempt[w] EXCEPT !.stage = "write", !.body = upstream.version]]
    BY <1>1, <1>4 DEF FetchAnswers, TypeOK, Attempt
  <2>2. [attempt[w] EXCEPT !.stage = "write", !.body = upstream.version] \in Attempt
    BY <1>1 DEF Attempt, TypeOK
  <2>3. attempt' \in [Workers -> Attempt \cup {None}]
    BY <2>1, <2>2 DEF TypeOK
  <2>. QED BY <1>4, <2>3 DEF TypeOK, FetchAnswers
<1>5. CASE FetchFails(w)
  BY <1>2, <1>5 DEF TypeOK, FetchFails
<1>6. /\ configMap' \in [Definitions -> ConfigMap \cup {None}]
      /\ unseen' \subseteq Definitions
  <2>1. CASE Store(w)
    <3>1. [owner |-> attempt[w].copy.uid, data |-> attempt[w].body] \in ConfigMap
      BY <1>1 DEF Attempt, Object, ConfigMap
    <3>2. attempt[w].key \in Definitions
      BY <1>1 DEF Attempt
    <3>. QED BY <2>1, <3>1, <3>2 DEF TypeOK, Store
  <2>2. CASE UNCHANGED <<configMap, unseen>>
    BY <2>2 DEF TypeOK
  <2>. QED BY <2>1, <2>2 DEF Expire, Fetch, FetchAnswers, FetchFails, Write, Publish,
                             PublishFails, Patch, PatchStatus, PatchFails, objects
<1>7. CASE Publish(w) \/ PublishFails(w)
  <2>1. attempt' \in [Workers -> Attempt \cup {None}]
    BY <1>2, <1>7 DEF Publish, PublishFails
  <2>2. clock' \in 0..MaxClock
    <3>1. UNCHANGED clock \/ Tick
      BY <1>7 DEF Publish, PublishFails, outside
    <3>. QED BY <3>1 DEF TypeOK
  <2>3. UNCHANGED <<definition, cached, cachedConfigMap, upstream, secret, queue, delayed>>
    BY <1>7 DEF Publish, PublishFails, outside
  <2>. QED BY <1>6, <2>1, <2>2, <2>3 DEF TypeOK
<1>8. CASE Patch(w)
  <2> DEFINE k == attempt[w].key
  <2>1. k \in Definitions
    BY <1>1 DEF Attempt
  <2>2. definition' \in [Definitions -> Object \cup {None}]
    <3>1. CASE PatchAccepted(w) /\ SendPatch(w)
      <4>1. definition[k] \in Object
        BY <2>1, <3>1 DEF PatchAccepted, TypeOK
      <4>2. Patched(definition[k], cached[k], Computed(attempt[w])) \in Object
        BY <1>1, <4>1, PatchedTyped
      <4>. QED BY <2>1, <3>1, <4>2 DEF SendPatch, TypeOK
    <3>. QED BY <1>8, <3>1 DEF TypeOK, Patch, PatchStatus, PatchFails
  <2>3. clock' \in 0..MaxClock /\ delayed' \subseteq Definitions
    BY <1>8, <2>1 DEF TypeOK, Patch, PatchStatus, PatchFails, outside
  <2>. QED BY <1>8, <2>2, <2>3 DEF TypeOK, Patch, PatchStatus, PatchFails
<1>. QED BY <1>3, <1>4, <1>5, <1>7, <1>8 DEF Fetch, Write

\* Every step keeps the state typed.
LEMMA NextTyped == TypeOK /\ [Next]_vars => TypeOK'
<1> SUFFICES ASSUME TypeOK, [Next]_vars PROVE TypeOK'
  OBVIOUS
<1>1. CASE UpstreamChanges
  <2>1. upstream' \in [mode : Modes, version : Nat]
    BY <1>1 DEF UpstreamChanges, TypeOK
  <2>. QED BY <1>1, <2>1, MaxClockAssumption DEF UpstreamChanges, TypeOK, Tick
<1>2. CASE SecretChanges
  BY <1>2, MaxClockAssumption DEF SecretChanges, TypeOK, Tick
<1>3. CASE Restart
  BY <1>3, MaxClockAssumption DEF Restart, TypeOK, Tick
<1>4. CASE UNCHANGED vars
  BY <1>4 DEF vars, TypeOK
<1>. QED BY <1>1, <1>2, <1>3, <1>4, EnvironmentTyped, ClusterTyped, StartTyped, WorkerTyped DEF Next

\* Every variable keeps to its type, and the clock to its bound.
THEOREM TypeCorrect == Spec => []TypeOK
  BY InitTyped, NextTyped, PTL DEF Spec

-------------------------------------------------------------------------------
(* The inductive invariant.  One lemma per group of actions, one step per   *)
(* action and, under it, one per conjunct the action can disturb.           *)

LEMMA InitInvariant == Init => IInv
  BY NoneAssumption DEF Init, IInv, Exclusive, CacheTrails, SameObject, ObservedOrPending, Done,
         PublishedOrPending, FinishedOrPending, DocumentsInOrder, At

\* The ConfigMap goes, and the event is on its way to the controller.
LEMMA RemovalKeeps ==
  ASSUME TypeOK, IInv, FinishedOrPending', NEW d \in Definitions, RemoveConfigMap(d), clock' \in {clock, clock + 1}
  PROVE  IInv'
<1>1. /\ configMap'[d] = None /\ unseen' = unseen \cup {d}
      /\ \A e \in Definitions \ {d} : configMap'[e] = configMap[e]
      /\ UNCHANGED <<definition, cached, cachedConfigMap, upstream, secret, work>>
  BY DEF RemoveConfigMap, TypeOK
<1>2. Exclusive'
  BY <1>1 DEF IInv, Exclusive, TypeOK, Object
<1>3. CacheTrails' /\ ObservedOrPending'
  BY <1>1 DEF IInv, CacheTrails, ObservedOrPending, SameObject, Done, Busy
<1>4. PublishedOrPending'
  BY <1>1 DEF IInv, PublishedOrPending, Done, Busy, OwnedBy, At, TypeOK, Attempt
<1>5. DocumentsInOrder'
  BY <1>1 DEF IInv, DocumentsInOrder, At, TypeOK, Attempt
<1>. QED BY <1>2, <1>3, <1>4, <1>5 DEF IInv

LEMMA EnvironmentKeeps ==
  ASSUME TypeOK, TypeOK', IInv, FinishedOrPending', NEW d \in Definitions, Environment(d)
  PROVE  IInv'
<1> USE NoneAssumption DEF Tick
<1>1. CASE CreateDefinition(d)
  <2>1. PICK spec \in Specs : definition' = [definition EXCEPT ![d] = NewObject(clock + 1, spec)]
    BY <1>1 DEF CreateDefinition
  <2>2. /\ clock' = clock + 1 /\ definition[d] = None
        /\ definition'[d].uid = clock + 1 /\ definition'[d] # None
        /\ \A e \in Definitions \ {d} : definition'[e] = definition[e]
        /\ UNCHANGED <<cached, configMap, cachedConfigMap, unseen, upstream, secret, work>>
    <3>1. clock + 1 \in Nat
      BY DEF TypeOK
    <3>2. NewObject(clock + 1, spec) # None /\ NewObject(clock + 1, spec).uid = clock + 1
      BY <3>1, NewObjectTyped DEF NewObject
    <3>. QED BY <1>1, <2>1, <3>2 DEF CreateDefinition, TypeOK
  <2>3. Exclusive'
    BY <2>2 DEF IInv, Exclusive, TypeOK, Object
  <2>4. ~SameObject(d)'
    BY <2>2 DEF IInv, Exclusive, SameObject, TypeOK, Object
  <2>5. \A e \in Definitions \ {d} : SameObject(e)' <=> SameObject(e)
    BY <2>2 DEF SameObject
  <2>6. CacheTrails' /\ ObservedOrPending'
    BY <2>2, <2>4, <2>5 DEF IInv, CacheTrails, ObservedOrPending, Done, Busy
  <2>7. PublishedOrPending' /\ DocumentsInOrder'
    BY <2>2 DEF IInv, PublishedOrPending, DocumentsInOrder, Done, Busy, OwnedBy, At
  <2>. QED BY <2>3, <2>6, <2>7 DEF IInv
<1>2. CASE EditSpec(d)
  <2>1. PICK spec \in Specs : definition' =
          [definition EXCEPT ![d].spec = spec, ![d].generation = @ + 1]
    BY <1>2 DEF EditSpec
  <2>2. /\ clock' = clock + 1
        /\ definition[d] \in Object /\ definition'[d] \in Object
        /\ definition'[d].uid = definition[d].uid
        /\ definition'[d].generation = definition[d].generation + 1
        /\ definition'[d].observed = definition[d].observed
        /\ definition'[d].ready = definition[d].ready
        /\ \A e \in Definitions \ {d} : definition'[e] = definition[e]
        /\ UNCHANGED <<cached, configMap, cachedConfigMap, unseen, upstream, secret, work>>
    BY <1>2, <2>1 DEF EditSpec, TypeOK, Object
  <2>3. Exclusive'
    BY <2>2 DEF IInv, Exclusive, TypeOK, Object
  <2>4. \A e \in Definitions : SameObject(e)' <=> SameObject(e)
    BY <2>2 DEF SameObject
  <2>5. CacheTrails'
    BY <2>2, <2>4 DEF IInv, CacheTrails, TypeOK, Object, SameObject
  <2>6. ObservedOrPending'
    BY <2>2, <2>4 DEF IInv, ObservedOrPending, Done, Busy
  <2>7. PublishedOrPending' /\ DocumentsInOrder'
    BY <2>2 DEF IInv, PublishedOrPending, DocumentsInOrder, Done, Busy, OwnedBy, At
  <2>. QED BY <2>3, <2>5, <2>6, <2>7 DEF IInv
<1>3. CASE DeleteDefinition(d)
  <2>1. /\ clock' = clock + 1 /\ definition'[d] = None
        /\ \A e \in Definitions \ {d} : definition'[e] = definition[e]
        /\ UNCHANGED <<cached, configMap, cachedConfigMap, unseen, upstream, secret, work>>
    BY <1>3 DEF DeleteDefinition, TypeOK
  <2>2. Exclusive'
    BY <2>1 DEF IInv, Exclusive, TypeOK, Object
  <2>3. ~SameObject(d)' /\ \A e \in Definitions \ {d} : SameObject(e)' <=> SameObject(e)
    BY <2>1 DEF SameObject
  <2>4. CacheTrails' /\ ObservedOrPending'
    BY <2>1, <2>3 DEF IInv, CacheTrails, ObservedOrPending, Done, Busy
  <2>5. PublishedOrPending' /\ DocumentsInOrder'
    BY <2>1 DEF IInv, PublishedOrPending, DocumentsInOrder, Done, Busy, OwnedBy, At
  <2>. QED BY <2>2, <2>4, <2>5 DEF IInv
<1>4. CASE DeleteConfigMap(d)
  BY <1>4, RemovalKeeps DEF DeleteConfigMap
<1>. QED BY <1>1, <1>2, <1>3, <1>4 DEF Environment

LEMMA ClusterKeeps ==
  ASSUME TypeOK, TypeOK', IInv, FinishedOrPending', NEW d \in Definitions, Cluster(d)
  PROVE  IInv'
<1>1. CASE CollectGarbage(d)
  BY <1>1, RemovalKeeps DEF CollectGarbage
<1>2. CASE DeliverDefinition(d)
  <2>1. /\ cached'[d] = definition[d] /\ queue \subseteq queue'
        /\ Wakes(cached[d], definition[d]) => d \in queue'
        /\ \A e \in Definitions \ {d} : cached'[e] = cached[e]
        /\ UNCHANGED <<definition, configMap, cachedConfigMap, unseen, outside, delayed, attempt>>
    BY <1>2 DEF DeliverDefinition, TypeOK
  <2>2. Exclusive'
    BY <2>1 DEF IInv, Exclusive
  <2>3. \A e \in Definitions \ {d} : SameObject(e)' <=> SameObject(e)
    BY <2>1 DEF SameObject
  <2>4. CacheTrails'
    BY <2>1, <2>3 DEF IInv, CacheTrails, TypeOK, Object, SameObject
  \* An event the predicate drops leaves generation and spec of the cached object.
  <2>5. CASE d \in queue'
    <3>1. ObservedOrPending'
      BY <2>1, <2>3, <2>5 DEF IInv, ObservedOrPending, Done, Busy
    <3>2. PublishedOrPending' /\ DocumentsInOrder'
      BY <2>1, <2>5 DEF IInv, PublishedOrPending, DocumentsInOrder, Done, Busy, OwnedBy, At
    <3>. QED BY <2>2, <2>4, <3>1, <3>2 DEF IInv
  <2>6. CASE d \notin queue'
    <3>1. /\ SameObject(d) /\ cached'[d] # None
          /\ cached'[d].uid = cached[d].uid
          /\ cached'[d].generation = cached[d].generation
          /\ cached'[d].spec = cached[d].spec
      BY <2>1, <2>6 DEF Wakes, IInv, CacheTrails, SameObject
    <3>2. \A e \in Definitions : Done(e)' => Done(e)
      BY <2>1, <3>1 DEF Done, Busy, SameObject
    <3>3. ObservedOrPending'
      BY <2>1, <2>3, <3>1, <3>2 DEF IInv, ObservedOrPending
    <3>4. PublishedOrPending' /\ DocumentsInOrder'
      BY <2>1, <3>1, <3>2 DEF IInv, PublishedOrPending, DocumentsInOrder, OwnedBy, At
    <3>. QED BY <2>2, <2>4, <3>3, <3>4 DEF IInv
  <2>. QED BY <2>5, <2>6
<1>3. CASE DeliverConfigMap(d)
  <2>1. /\ unseen' = unseen \ {d} /\ queue' = queue \cup {d}
        /\ UNCHANGED <<definition, cached, configMap, outside, delayed, attempt>>
    BY <1>3 DEF DeliverConfigMap
  <2>2. Exclusive' /\ CacheTrails' /\ ObservedOrPending' /\ DocumentsInOrder'
    BY <2>1 DEF IInv, Exclusive, CacheTrails, ObservedOrPending, DocumentsInOrder,
                SameObject, Done, Busy, At
  <2>3. PublishedOrPending'
    BY <2>1 DEF IInv, PublishedOrPending, Done, Busy, OwnedBy, At
  <2>. QED BY <2>2, <2>3 DEF IInv
<1>4. CASE Requeue(d)
  <2>1. /\ delayed' = delayed \ {d} /\ queue' = queue \cup {d}
        /\ UNCHANGED <<objects, outside, attempt>>
    BY <1>4 DEF Requeue
  <2>. QED BY <2>1 DEF IInv, Exclusive, CacheTrails, ObservedOrPending, PublishedOrPending,
                       DocumentsInOrder, SameObject, Done, Busy, OwnedBy, At
<1>. QED BY <1>1, <1>2, <1>3, <1>4 DEF Cluster

\* A worker that takes a key becomes the only one that has it.
LEMMA StartKeeps ==
  ASSUME TypeOK, IInv, FinishedOrPending', NEW w \in Workers, NEW d \in Definitions, Start(w, d)
  PROVE  IInv'
<1> USE NoneAssumption
<1>1. ASSUME NEW stage \in {"fetch", "patch"}, NEW failed \in BOOLEAN,
             stage = "patch" => failed, Begin(w, d, stage, failed)
      PROVE  IInv'
  <2>1. /\ attempt[w] = None /\ ~Busy(d) /\ queue' = queue \ {d}
        /\ attempt'[w] # None /\ attempt'[w].key = d
        /\ attempt'[w].stage = stage /\ attempt'[w].failed = failed
        /\ \A v \in Workers \ {w} : attempt'[v] = attempt[v]
        /\ UNCHANGED <<objects, outside, delayed>>
    <3>1. [key |-> d, stage |-> stage, copy |-> cached[d], body |-> 0,
           failed |-> failed, expired |-> FALSE] \in Attempt
      BY <1>1 DEF Begin, TypeOK, Attempt
    <3>. QED BY <1>1, <3>1 DEF Begin, Available, TypeOK
  <2>2. Exclusive'
    BY <2>1 DEF IInv, Exclusive, Busy
  <2>3. \A e \in Definitions : Done(e)' => Done(e)
    BY <2>1 DEF Done, Busy
  <2>4. CacheTrails' /\ ObservedOrPending'
    BY <2>1, <2>3 DEF IInv, CacheTrails, ObservedOrPending, SameObject
  <2>5. PublishedOrPending'
    BY <1>1, <2>1, <2>3 DEF IInv, PublishedOrPending, OwnedBy, At, Busy
  <2>6. DocumentsInOrder'
    BY <1>1, <2>1 DEF IInv, DocumentsInOrder, At
  <2>. QED BY <2>2, <2>4, <2>5, <2>6 DEF IInv
<1>2. CASE Skip(w, d)
  <2>1. /\ queue' = queue \ {d}
        /\ cached[d] # None => cached[d].spec.suspend
        /\ ~Busy(d)
        /\ UNCHANGED <<objects, outside, delayed, attempt>>
    BY <1>2 DEF Skip, Available
  <2>2. \A e \in Definitions : Done(e)' => Done(e)
    BY <2>1 DEF Done, Busy
  <2>3. PublishedOrPending'
    BY <2>1, <2>2 DEF IInv, PublishedOrPending, OwnedBy, At, Busy
  <2>. QED BY <2>1, <2>2, <2>3 DEF IInv, Exclusive, CacheTrails, ObservedOrPending,
                DocumentsInOrder, SameObject, At
<1>. QED BY <1>1, <1>2 DEF Start, Refuse, Request

\* What a worker does leaves the keys of all workers and their copies alone.
LEMMA WorkerKeeps ==
  ASSUME TypeOK, TypeOK', IInv, FinishedOrPending', NEW w \in Workers,
         Expire(w) \/ Fetch(w) \/ Write(w) \/ Patch(w)
  PROVE  IInv'
<1> USE NoneAssumption
<1> DEFINE a == attempt[w]
<1>1. PICK d \in Definitions : a \in Attempt /\ a # None /\ a.key = d
  BY DEF TypeOK, Attempt, Expire, Fetch, FetchAnswers, FetchFails, Write, Publish, PublishFails,
         Patch, PatchStatus, PatchFails, At
<1>2. \A v \in Workers \ {w} : attempt[v] # None => attempt[v].key # d
  BY <1>1 DEF IInv, Exclusive
<1>3. ASSUME NEW new \in Attempt, new.key = d, new.copy = a.copy,
             attempt' = [attempt EXCEPT ![w] = new], UNCHANGED <<objects, queue, delayed, upstream>>,
             clock' \in {clock, clock + 1},
             new.stage = "patch" /\ ~new.failed => a.stage = "patch" /\ ~a.failed,
             new.stage = "write" =>
               (a.stage = "write" /\ new.body = a.body) \/ new.body = upstream.version
      PROVE  IInv'
  <2>1. attempt'[w] = new /\ new # None /\ \A v \in Workers \ {w} : attempt'[v] = attempt[v]
    BY <1>3 DEF TypeOK
  <2>2. \A e \in Definitions : Busy(e)' <=> Busy(e)
    BY <1>1, <1>3, <2>1 DEF Busy
  <2>3. Exclusive'
    BY <1>1, <1>3, <2>1 DEF IInv, Exclusive, TypeOK, Object
  <2>4. CacheTrails' /\ ObservedOrPending'
    BY <1>3, <2>2 DEF IInv, CacheTrails, ObservedOrPending, Done, SameObject
  <2>5. PublishedOrPending'
    BY <1>1, <1>3, <2>1, <2>2 DEF IInv, PublishedOrPending, Done, OwnedBy, At
  <2>6. DocumentsInOrder'
    BY <1>1, <1>3, <2>1 DEF IInv, DocumentsInOrder, At, TypeOK
  <2>. QED BY <2>3, <2>4, <2>5, <2>6 DEF IInv
<1>4. CASE Expire(w)
  <2>1. attempt' = [attempt EXCEPT ![w] = [a EXCEPT !.expired = TRUE]]
    BY <1>1, <1>4 DEF Expire, TypeOK, Attempt
  <2>2. [a EXCEPT !.expired = TRUE] \in Attempt
    BY <1>1 DEF Attempt
  <2>. QED BY <1>1, <1>3, <1>4, <2>1, <2>2 DEF Expire, Tick, Attempt
<1>5. CASE FetchAnswers(w)
  <2>1. attempt' = [attempt EXCEPT ![w] = [a EXCEPT !.stage = "write", !.body = upstream.version]]
    BY <1>1, <1>5 DEF FetchAnswers, TypeOK, Attempt
  <2>2. [a EXCEPT !.stage = "write", !.body = upstream.version] \in Attempt
    BY <1>1 DEF Attempt, TypeOK
  <2>. QED BY <1>1, <1>3, <1>5, <2>1, <2>2 DEF FetchAnswers, Attempt
<1>6. CASE FetchFails(w) \/ (PublishFails(w) /\ UNCHANGED <<configMap, unseen>>)
  <2>1. attempt' = [attempt EXCEPT ![w] = [a EXCEPT !.stage = "patch", !.failed = TRUE]]
    BY <1>1, <1>6 DEF FetchFails, PublishFails, Conclude, TypeOK, Attempt
  <2>2. [a EXCEPT !.stage = "patch", !.failed = TRUE] \in Attempt
    BY <1>1 DEF Attempt
  <2>. QED BY <1>1, <1>3, <1>6, <2>1, <2>2 DEF FetchFails, PublishFails, Tick, Attempt
\* The document is stored, whether or not the worker learns of it.
<1>7. ASSUME NEW failed \in BOOLEAN, At(w, "write"), Store(w), Conclude(w, failed),
             clock' \in {clock, clock + 1},
             UNCHANGED <<definition, cached, cachedConfigMap, upstream, queue, delayed>>
      PROVE  IInv'
  <2> DEFINE b == [a EXCEPT !.stage = "patch", !.failed = failed]
  <2>1. attempt' = [attempt EXCEPT ![w] = b] /\ b \in Attempt
    BY <1>1, <1>7 DEF Conclude, TypeOK, Attempt
  <2>2. /\ attempt'[w] = b /\ b # None /\ b.key = d /\ b.stage = "patch" /\ b.copy = a.copy
        /\ \A v \in Workers \ {w} : attempt'[v] = attempt[v]
    BY <1>1, <2>1 DEF TypeOK, Attempt
  <2> HIDE DEF b
  <2>3. /\ a.stage = "write"
        /\ configMap'[d] = [owner |-> a.copy.uid, data |-> a.body]
        /\ configMap'[d] # None
        /\ \A e \in Definitions \ {d} : configMap'[e] = configMap[e]
        /\ unseen \subseteq unseen'
    <3>1. [owner |-> a.copy.uid, data |-> a.body] \in ConfigMap
      BY <1>1 DEF Attempt, Object, ConfigMap
    <3>. QED BY <1>1, <1>7, <3>1 DEF Store, TypeOK, At
  <2>4. \A e \in Definitions : Busy(e)' <=> Busy(e)
    BY <1>1, <2>2 DEF Busy
  <2>5. Busy(d)
    BY <1>1 DEF Busy
  <2>6. Exclusive'
    <3>1. \A v \in Workers : attempt'[v] # None => attempt[v] # None /\ attempt'[v].key = attempt[v].key
      BY <1>1, <2>2
    <3>. QED BY <1>7, <3>1 DEF IInv, Exclusive, TypeOK, Object
  <2>7. CacheTrails' /\ ObservedOrPending'
    BY <1>7, <2>4 DEF IInv, CacheTrails, ObservedOrPending, Done, SameObject
  <2>8. PublishedOrPending'
    <3>1. ASSUME NEW e \in Definitions, Done(e)' PROVE (e \in unseen \/ OwnedBy(e, cached[e].uid))'
      BY <1>7, <2>3, <2>4, <2>5, <3>1 DEF IInv, PublishedOrPending, Done, OwnedBy
    <3>2. ASSUME NEW v \in Workers, At(v, "patch")', ~attempt'[v].failed
          PROVE  (LET e == attempt[v].key IN
                    e \in unseen \cup queue \/ OwnedBy(e, attempt[v].copy.uid))'
      <4>1. CASE v = w
        BY <2>2, <2>3, <4>1 DEF OwnedBy
      <4>2. CASE v # w
        <5>1. At(v, "patch") /\ ~attempt[v].failed /\ attempt[v].key # d
          BY <1>2, <2>2, <3>2, <4>2 DEF At
        <5>2. attempt[v].key \in Definitions
          BY <5>1 DEF TypeOK, Attempt, At
        <5>. QED BY <1>7, <2>2, <2>3, <4>2, <5>1, <5>2 DEF IInv, PublishedOrPending, OwnedBy
      <4>. QED BY <4>1, <4>2
    <3>. QED BY <3>1, <3>2 DEF PublishedOrPending
  <2>9. DocumentsInOrder'
    <3>1. a.body <= upstream.version
      BY <1>1, <2>3 DEF IInv, DocumentsInOrder, At
    <3>2. \A e \in Definitions : configMap'[e] # None => configMap'[e].data <= upstream.version
      BY <1>7, <2>3, <3>1 DEF IInv, DocumentsInOrder
    <3>3. \A v \in Workers : At(v, "write")' => v # w /\ At(v, "write") /\ attempt'[v].key # d
      BY <1>2, <2>2 DEF At
    <3>4. \A v \in Workers : At(v, "write") => attempt[v].key \in Definitions
      BY DEF TypeOK, Attempt, At
    <3>. QED BY <1>7, <2>2, <2>3, <3>2, <3>3, <3>4 DEF IInv, DocumentsInOrder
  <2>. QED BY <2>6, <2>7, <2>8, <2>9 DEF IInv
<1>8. CASE Patch(w)
  <2>1. /\ attempt'[w] = None
        /\ \A v \in Workers \ {w} : attempt'[v] = attempt[v]
        /\ delayed \subseteq delayed' /\ clock' \in {clock, clock + 1}
        /\ UNCHANGED <<cached, configMap, cachedConfigMap, unseen, upstream, queue>>
        /\ At(w, "patch")
    BY <1>8 DEF Patch, PatchStatus, PatchFails, Tick, TypeOK
  <2>2. \A e \in Definitions \ {d} : Done(e)' => Done(e)
    BY <1>1, <2>1 DEF Done, Busy
  <2>3. \A v \in Workers, stage \in {"write", "patch"} :
          At(v, stage)' => v # w /\ At(v, stage) /\ attempt'[v] = attempt[v]
    BY <2>1 DEF At
  <2>4. DocumentsInOrder'
    BY <2>1, <2>3 DEF IInv, DocumentsInOrder
  <2>5. \A v \in Workers : At(v, "patch")' /\ ~attempt'[v].failed =>
          (LET e == attempt[v].key IN
             e \in unseen \cup queue \/ OwnedBy(e, attempt[v].copy.uid))'
    BY <2>1, <2>3 DEF IInv, PublishedOrPending, OwnedBy
  <2>6. CASE PatchFails(w) /\ UNCHANGED definition
    <3>1. definition' = definition /\ d \in delayed'
      BY <1>1, <2>6 DEF PatchFails
    <3>2. Exclusive'
      BY <2>1, <3>1 DEF IInv, Exclusive, TypeOK, Object
    <3>3. \A e \in Definitions : Done(e)' => Done(e)
      BY <2>2, <3>1 DEF Done
    <3>4. CacheTrails' /\ ObservedOrPending'
      BY <2>1, <3>1, <3>3 DEF IInv, CacheTrails, ObservedOrPending, SameObject
    <3>5. PublishedOrPending'
      BY <2>1, <2>5, <3>3 DEF IInv, PublishedOrPending, OwnedBy
    <3>. QED BY <2>4, <3>2, <3>4, <3>5 DEF IInv
  \* The status is patched, whether or not the worker learns of it.
  <2>7. CASE PatchAccepted(w) /\ SendPatch(w)
    <3> DEFINE new == definition'[d]
               status == IF a.failed THEN "False" ELSE "True"
    <3>1. /\ cached[d] = a.copy /\ definition[d] # None /\ cached[d] # None
          /\ definition[d] \in Object /\ cached[d] \in Object
      BY <1>1, <2>7 DEF PatchAccepted, TypeOK, Attempt
    <3>2. new = Patched(definition[d], cached[d], Computed(a))
      BY <1>1, <2>7 DEF SendPatch, TypeOK
    <3>3. /\ Computed(a).observed = cached[d].generation
          /\ Computed(a).ready = [status |-> status, generation |-> cached[d].generation]
      BY <3>1 DEF Computed, Recorded, Object
    <3>4. /\ new.uid = definition[d].uid /\ new.spec = definition[d].spec
          /\ new.generation = definition[d].generation
          /\ new.observed = MergeField(definition[d].observed, cached[d].observed, cached[d].generation)
          /\ new.ready = MergeField(definition[d].ready, cached[d].ready,
                            [status |-> status, generation |-> cached[d].generation])
      BY <3>1, <3>2, <3>3 DEF Patched, Object
    <3>5. new # None /\ \A e \in Definitions \ {d} : definition'[e] = definition[e]
      <4>1. new # None
        BY <1>1, <3>1, <3>2, PatchedTyped
      <4>2. \A e \in Definitions \ {d} : definition'[e] = definition[e]
        BY <1>1, <2>7 DEF SendPatch, TypeOK
      <4>. QED BY <4>1, <4>2
    <3> HIDE DEF new
    <3>6. Exclusive'
      BY <1>1, <2>1, <3>1, <3>4, <3>5 DEF IInv, Exclusive, TypeOK, Object, new
    <3>7. \A e \in Definitions : SameObject(e)' <=> SameObject(e)
      BY <2>1, <3>1, <3>4, <3>5 DEF SameObject, new
    \* The merge leaves observedGeneration at the cached generation, whichever
    \* of the two fields of the patch was empty.
    <3>8. SameObject(d) => new.observed = cached[d].generation
                           /\ new.ready.generation = cached[d].generation
      BY <1>1, <3>4 DEF MergeField, IInv, CacheTrails
    <3>9. CacheTrails'
      BY <1>1, <2>1, <3>4, <3>5, <3>7, <3>8 DEF IInv, CacheTrails, new
    <3>10. ObservedOrPending'
      BY <1>1, <2>1, <2>2, <3>5, <3>7, <3>8 DEF IInv, ObservedOrPending, new
    <3>11. Done(d)' => d \in unseen' \/ OwnedBy(d, cached[d].uid)'
      <4>1. Done(d)' => ~a.failed /\ d \notin queue
        BY <1>1, <1>8, <2>1 DEF Patch, PatchStatus, PatchFails, Done, Retries
      <4>. QED BY <1>1, <2>1, <3>1, <4>1 DEF IInv, PublishedOrPending, OwnedBy
    <3>12. PublishedOrPending'
      BY <2>1, <2>2, <2>5, <3>11 DEF IInv, PublishedOrPending, OwnedBy
    <3>. QED BY <2>4, <3>6, <3>9, <3>10, <3>12 DEF IInv
  <2>. QED BY <1>8, <2>6, <2>7 DEF Patch, PatchStatus, PatchFails
<1>9. CASE Publish(w) \/ (PublishFails(w) /\ Store(w))
  BY <1>7, <1>9 DEF Publish, PublishFails, Tick, outside
<1>. QED BY <1>4, <1>5, <1>6, <1>8, <1>9 DEF Fetch, Write, PublishFails

LEMMA RestartKeeps ==
  ASSUME TypeOK, IInv, FinishedOrPending', Restart
  PROVE  IInv'
<1>1. /\ cached' = definition /\ clock' = clock + 1
      /\ queue' = {d \in Definitions : definition[d] # None \/ configMap[d] # None}
      /\ \A w \in Workers : attempt'[w] = None
      /\ UNCHANGED <<definition, configMap, upstream>>
  BY DEF Restart, Tick
<1>2. \A d \in Definitions : ~Done(d)'
  BY <1>1 DEF Done
<1>3. \A w \in Workers, stage \in {"write", "patch"} : ~At(w, stage)'
  BY <1>1 DEF At
<1>4. Exclusive'
  BY <1>1 DEF IInv, Exclusive, TypeOK, Object
<1>5. CacheTrails' /\ ObservedOrPending'
  BY <1>1, <1>2 DEF TypeOK, Object, CacheTrails, ObservedOrPending, SameObject
<1>6. PublishedOrPending' /\ DocumentsInOrder'
  BY <1>1, <1>2, <1>3 DEF IInv, PublishedOrPending, DocumentsInOrder
<1>. QED BY <1>4, <1>5, <1>6 DEF IInv

\* Where a reconciliation that polls, or fails, ends, the key comes back; a spec
\* that changes under one that does not is in the queue already.
LEMMA FinishedKept ==
  ASSUME TypeOK, IInv, [Next]_vars
  PROVE  FinishedOrPending'
<1> USE NoneAssumption
<1>1. ASSUME UNCHANGED <<cached, queue, delayed, attempt>>
      PROVE  FinishedOrPending'
  BY <1>1 DEF IInv, FinishedOrPending, Done, Busy, At
<1>2. ASSUME NEW d \in Definitions, DeliverDefinition(d)
      PROVE  FinishedOrPending'
  <2>1. /\ cached'[d] = definition[d] /\ queue \subseteq queue'
        /\ Wakes(cached[d], definition[d]) => d \in queue'
        /\ \A e \in Definitions \ {d} : cached'[e] = cached[e]
        /\ UNCHANGED <<delayed, attempt>>
    BY <1>2 DEF DeliverDefinition, TypeOK
  <2>2. Done(d)' => cached[d] # None /\ cached'[d].spec = cached[d].spec
    BY <2>1 DEF Done, Wakes, IInv, CacheTrails, SameObject
  <2>3. \A e \in Definitions : Done(e)' => Done(e)
    BY <2>1, <2>2 DEF Done, Busy
  <2>. QED BY <2>1, <2>2, <2>3 DEF IInv, FinishedOrPending, At
<1>3. ASSUME NEW d \in Definitions, DeliverConfigMap(d) \/ Requeue(d)
      PROVE  FinishedOrPending'
  <2>1. UNCHANGED <<cached, attempt>> /\ \A e \in Definitions : Done(e)' => Done(e)
    BY <1>3 DEF DeliverConfigMap, Requeue, Done, Busy
  <2>. QED BY <2>1 DEF IInv, FinishedOrPending, At
<1>4. ASSUME NEW w \in Workers, NEW d \in Definitions, Skip(w, d)
      PROVE  FinishedOrPending'
  <2>1. UNCHANGED <<cached, attempt>> /\ \A e \in Definitions : Done(e)' => Done(e)
    BY <1>4 DEF Skip, Done, Busy
  <2>. QED BY <2>1 DEF IInv, FinishedOrPending, At
<1>5. ASSUME NEW w \in Workers, NEW d \in Definitions, NEW stage \in {"fetch", "patch"},
             NEW failed \in BOOLEAN, Begin(w, d, stage, failed),
             stage = "patch" => failed, stage = "fetch" => Requestable(cached[d].spec)
      PROVE  FinishedOrPending'
  <2>1. /\ attempt'[w] # None /\ attempt'[w].key = d /\ attempt'[w].copy = cached[d]
        /\ attempt'[w].stage = stage /\ attempt'[w].failed = failed
    <3>1. [key |-> d, stage |-> stage, copy |-> cached[d], body |-> 0,
           failed |-> failed, expired |-> FALSE] \in Attempt
      BY <1>5 DEF Begin, TypeOK, Attempt
    <3>. QED BY <1>5, <3>1 DEF Begin, TypeOK
  <2>2. /\ queue' = queue \ {d} /\ UNCHANGED <<cached, delayed>> /\ attempt[w] = None
        /\ \A v \in Workers \ {w} : attempt'[v] = attempt[v]
    BY <1>5 DEF Begin, Available, TypeOK
  <2>3. \A e \in Definitions : Done(e)' => Done(e)
    BY <2>1, <2>2 DEF Done, Busy
  <2>. QED BY <1>5, <2>1, <2>2, <2>3 DEF IInv, FinishedOrPending, At
<1>6. ASSUME NEW w \in Workers, Expire(w) \/ Fetch(w) \/ Write(w)
      PROVE  FinishedOrPending'
  <2>1. /\ attempt[w] \in Attempt /\ UNCHANGED <<cached, queue, delayed>>
        /\ \A v \in Workers \ {w} : attempt'[v] = attempt[v]
    BY <1>6 DEF TypeOK, Expire, Fetch, FetchAnswers, FetchFails, Write, Publish, PublishFails,
                Conclude, At
  <2>2. /\ attempt'[w] # None /\ attempt'[w].key = attempt[w].key
        /\ attempt'[w].copy = attempt[w].copy
        /\ attempt[w].stage = "patch" /\ attempt[w].failed =>
             attempt'[w].stage = "patch" /\ attempt'[w].failed
    <3>1. CASE Expire(w)
      <4>1. attempt'[w] = [attempt[w] EXCEPT !.expired = TRUE]
        BY <2>1, <3>1 DEF Expire, TypeOK
      <4>2. [attempt[w] EXCEPT !.expired = TRUE] \in Attempt
        BY <2>1 DEF Attempt
      <4>. QED BY <2>1, <4>1, <4>2 DEF Attempt
    <3>2. CASE FetchAnswers(w)
      <4>1. attempt'[w] = [attempt[w] EXCEPT !.stage = "write", !.body = upstream.version]
        BY <2>1, <3>2 DEF FetchAnswers, TypeOK
      <4>2. [attempt[w] EXCEPT !.stage = "write", !.body = upstream.version] \in Attempt
        BY <2>1 DEF Attempt, TypeOK
      <4>3. attempt[w].stage = "fetch"
        BY <3>2 DEF FetchAnswers, At
      <4>. QED BY <2>1, <4>1, <4>2, <4>3 DEF Attempt
    <3>3. ASSUME NEW failed \in BOOLEAN, Conclude(w, failed), attempt[w].stage # "patch"
          PROVE  /\ attempt'[w] # None /\ attempt'[w].key = attempt[w].key
                 /\ attempt'[w].copy = attempt[w].copy
      <4>1. attempt'[w] = [attempt[w] EXCEPT !.stage = "patch", !.failed = failed]
        BY <2>1, <3>3 DEF Conclude, TypeOK
      <4>2. [attempt[w] EXCEPT !.stage = "patch", !.failed = failed] \in Attempt
        BY <2>1 DEF Attempt
      <4>. QED BY <2>1, <4>1, <4>2 DEF Attempt
    <3>. QED BY <1>6, <3>1, <3>2, <3>3 DEF Fetch, FetchFails, Write, Publish, PublishFails, At
  <2>3. attempt[w] # None
    BY <1>6 DEF Expire, Fetch, FetchAnswers, FetchFails, Write, Publish, PublishFails, At
  <2>4. \A e \in Definitions : Done(e)' => Done(e)
    BY <2>1, <2>2, <2>3 DEF Done, Busy
  <2>. QED BY <2>1, <2>2, <2>3, <2>4 DEF IInv, FinishedOrPending, At
<1>7. ASSUME NEW w \in Workers, Patch(w)
      PROVE  FinishedOrPending'
  <2>1. /\ attempt[w] \in Attempt /\ At(w, "patch") /\ attempt'[w] = None
        /\ UNCHANGED <<cached, queue>> /\ delayed \subseteq delayed'
        /\ \A v \in Workers \ {w} : attempt'[v] = attempt[v]
    BY <1>7 DEF TypeOK, Patch, PatchStatus, PatchFails, At
  <2>2. PICK d \in Definitions : attempt[w].key = d
    BY <2>1 DEF Attempt
  <2>3. \A e \in Definitions \ {d} : Done(e)' => Done(e)
    BY <2>1, <2>2 DEF Done, Busy
  <2>4. Done(d)' => PatchStatus(w) /\ ~Retries(attempt[w]) /\ cached[d] = attempt[w].copy
    <3>1. CASE PatchStatus(w)
      <4>1. Retries(attempt[w]) => d \in delayed'
        BY <2>2, <3>1 DEF PatchStatus
      <4>2. cached[d] = attempt[w].copy
        BY <2>2, <3>1 DEF PatchStatus, PatchAccepted
      <4>. QED BY <3>1, <4>1, <4>2 DEF Done
    <3>2. CASE PatchFails(w)
      <4>1. d \in delayed'
        BY <2>2, <3>2 DEF PatchFails
      <4>. QED BY <4>1 DEF Done
    <3>. QED BY <1>7, <3>1, <3>2 DEF Patch
  <2>5. Done(d)' => Requestable(cached[d].spec) /\ ~cached[d].spec.interval
    BY <2>1, <2>4 DEF Retries, IInv, FinishedOrPending, At
  <2>6. \A e \in Definitions : Done(e)' => Requestable(cached[e].spec) /\ ~cached[e].spec.interval
    BY <2>2, <2>3, <2>5 DEF IInv, FinishedOrPending
  <2>7. \A v \in Workers : attempt'[v] # None => v # w /\ attempt'[v] = attempt[v]
    BY <2>1
  <2>. QED BY <2>1, <2>6, <2>7 DEF IInv, FinishedOrPending, At
<1>8. CASE Restart
  <2>1. /\ cached' = definition
        /\ queue' = {d \in Definitions : definition[d] # None \/ configMap[d] # None}
        /\ \A w \in Workers : attempt'[w] = None
    BY <1>8 DEF Restart
  <2>. QED BY <2>1 DEF FinishedOrPending, Done, At
<1>9. ASSUME NEW w \in Workers, NEW d \in Definitions, Start(w, d)
      PROVE  FinishedOrPending'
  BY <1>4, <1>5, <1>9 DEF Start, Refuse, Request, Requestable, Authorised
<1>. QED BY <1>1, <1>2, <1>3, <1>6, <1>7, <1>8, <1>9
        DEF Next, vars, Environment, CreateDefinition, EditSpec, DeleteDefinition, DeleteConfigMap,
            RemoveConfigMap, Cluster, CollectGarbage, UpstreamChanges, SecretChanges

LEMMA NextKeeps == TypeOK /\ IInv /\ [Next]_vars => IInv'
<1> SUFFICES ASSUME TypeOK, IInv, [Next]_vars PROVE IInv'
  OBVIOUS
<1>1. TypeOK' /\ FinishedOrPending'
  BY NextTyped, FinishedKept
<1>2. CASE UpstreamChanges
  <2>1. /\ upstream'.version \in {upstream.version, upstream.version + 1}
        /\ clock' = clock + 1
        /\ UNCHANGED <<objects, work>>
    BY <1>2 DEF UpstreamChanges, Tick, TypeOK
  <2>2. Exclusive' /\ CacheTrails' /\ ObservedOrPending' /\ PublishedOrPending'
    BY <2>1 DEF IInv, Exclusive, CacheTrails, ObservedOrPending, PublishedOrPending,
                SameObject, Done, Busy, OwnedBy, At, TypeOK, Object
  <2>3. DocumentsInOrder'
    BY <2>1 DEF IInv, DocumentsInOrder, At, TypeOK, ConfigMap, Attempt
  <2>. QED BY <1>1, <2>2, <2>3 DEF IInv
<1>3. CASE SecretChanges \/ UNCHANGED vars
  <2>1. clock' \in {clock, clock + 1} /\ UNCHANGED <<objects, upstream, work>>
    BY <1>3 DEF SecretChanges, Tick, vars
  <2>. QED BY <1>1, <2>1 DEF IInv, Exclusive, CacheTrails, ObservedOrPending, PublishedOrPending,
                DocumentsInOrder, SameObject, Done, Busy, OwnedBy, At, TypeOK, Object
<1>. QED BY <1>1, <1>2, <1>3, EnvironmentKeeps, ClusterKeeps, StartKeeps, WorkerKeeps,
            RestartKeeps DEF Next

\* The inductive invariant holds in every reachable state.
THEOREM Invariance == Spec => []IInv
<1>1. TypeOK /\ IInv /\ [Next]_vars => TypeOK' /\ IInv'
  BY NextTyped, NextKeeps
<1>. QED BY <1>1, InitTyped, InitInvariant, PTL DEF Spec

\* No spec change is lost, whatever cache, patches, faults and restarts do.
THEOREM NoChangeIsLost == Spec => []SettledIsObserved
<1>1. TypeOK /\ IInv => SettledIsObserved
  BY DEF IInv, ObservedOrPending, SettledIsObserved, Settled, Managed, Done, SameObject
<1>. QED BY <1>1, TypeCorrect, Invariance, PTL

\* Once nothing is pending, an object's ConfigMap is there and its own.
THEOREM EveryDocumentIsPublished == Spec => []SettledIsPublished
<1>1. TypeOK /\ IInv => SettledIsPublished
  BY DEF IInv, PublishedOrPending, SettledIsPublished, Settled, Managed, Done, OwnedBy
<1>. QED BY <1>1, TypeCorrect, Invariance, PTL

\* A definition that is polled or cannot be requested is never left at rest.
THEOREM TheKeyComesBack == Spec => []NeverGivenUp
<1>1. TypeOK /\ IInv => NeverGivenUp
  BY DEF IInv, FinishedOrPending, NeverGivenUp, Settled, Managed, Done
<1>. QED BY <1>1, TypeCorrect, Invariance, PTL

-------------------------------------------------------------------------------
(* The controller implements PublishedDocument.                             *)

LEMMA InitImplements == Init => Document!DocInit
  BY DEF Init, Document!DocInit, Published

\* The only step that puts a document in place.
LEMMA PublishImplements ==
  ASSUME TypeOK, IInv, NEW w \in Workers, At(w, "write"), Store(w), UNCHANGED upstream
  PROVE  \E d \in Definitions : Document!Publish(d)
<1> USE NoneAssumption
<1> DEFINE a == attempt[w]
<1>1. PICK d \in Definitions : a \in Attempt /\ a.key = d /\ At(w, "write")
  BY DEF TypeOK, Attempt, At
<1>2. configMap' = [configMap EXCEPT ![d] = [owner |-> a.copy.uid, data |-> a.body]]
  BY <1>1 DEF Store
<1>3. [owner |-> a.copy.uid, data |-> a.body] # None
  <2>1. [owner |-> a.copy.uid, data |-> a.body] \in ConfigMap
    BY <1>1 DEF Attempt, Object, ConfigMap
  <2>. QED BY <2>1
<1>4. Published' = [Published EXCEPT ![d] = a.body]
  BY <1>2, <1>3 DEF Published, TypeOK
<1>5. a.body \in 0..upstream.version /\ (Published[d] # None => Published[d] <= a.body)
  BY <1>1 DEF IInv, DocumentsInOrder, Attempt, TypeOK, Published
<1>. QED BY <1>4, <1>5 DEF Document!Publish

LEMMA NextImplements == TypeOK /\ IInv /\ [Next]_vars => [Document!DocNext]_(Document!docVars)
<1> SUFFICES ASSUME TypeOK, IInv, [Next]_vars,
                    ~UNCHANGED <<upstream.version, Published>>
             PROVE  Document!DocNext
  BY DEF Document!docVars
<1>1. ASSUME NEW d \in Definitions, RemoveConfigMap(d)
      PROVE  Document!Withdraw(d)
  BY <1>1 DEF RemoveConfigMap, Document!Withdraw, Published, TypeOK
<1>2. ASSUME NEW d \in Definitions, Environment(d) \/ Cluster(d)
      PROVE  Document!Withdraw(d)
  <2>1. CASE DeleteConfigMap(d) \/ CollectGarbage(d)
    BY <1>1, <2>1 DEF DeleteConfigMap, CollectGarbage
  <2>2. CASE ~(DeleteConfigMap(d) \/ CollectGarbage(d))
    BY <1>2, <2>2 DEF Environment, Cluster, CreateDefinition, EditSpec, DeleteDefinition,
                      DeliverDefinition, DeliverConfigMap, Requeue, Published
  <2>. QED BY <2>1, <2>2
<1>3. CASE UpstreamChanges
  BY <1>3 DEF UpstreamChanges, TypeOK, Document!Advance, Document!DocNext, Published
<1>4. ASSUME NEW w \in Workers, Expire(w) \/ Fetch(w) \/ Write(w) \/ Patch(w)
      PROVE  \E d \in Definitions : Document!Publish(d)
  <2>1. CASE Write(w) /\ Store(w)
    BY <2>1, PublishImplements DEF Write, Publish, PublishFails, outside
  <2>2. CASE ~(Write(w) /\ Store(w))
    BY <1>4, <2>2 DEF Fetch, Write, Publish, Patch, Expire, FetchAnswers, FetchFails, PublishFails,
                      PatchStatus, PatchFails, Published
  <2>. QED BY <2>1, <2>2
<1>5. CASE SecretChanges \/ Restart \/ UNCHANGED vars
  BY <1>5 DEF SecretChanges, Restart, vars, Published
<1>6. ASSUME NEW w \in Workers, NEW d \in Definitions, Start(w, d)
      PROVE  FALSE
  BY <1>6 DEF Start, Skip, Refuse, Request, Begin, Published
<1>. QED BY <1>2, <1>3, <1>4, <1>5, <1>6 DEF Next, Document!DocNext

\* Readers of the ConfigMaps see documents the upstream API served, none of
\* them replaced by an older one.
THEOREM DocumentsAreRecent == Spec => PublishesRecentDocuments
<1>. QED BY InitImplements, NextImplements, TypeCorrect, Invariance, PTL
         DEF Spec, PublishesRecentDocuments, Document!DocSpec

===============================================================================
