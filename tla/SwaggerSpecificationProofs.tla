----------------------- MODULE SwaggerSpecificationProofs -----------------------
(***************************************************************************)
(* Theorems about SwaggerSpecification, for every set of definitions,      *)
(* documents and specs and every bound on the disturbances.                *)
(***************************************************************************)
EXTENDS SwaggerSpecificationProperties, TLAPS

USE DEF objects, inputs, work

-------------------------------------------------------------------------------
(* Type correctness.                                                        *)

LEMMA NewObjectTyped ==
  ASSUME NEW uid \in Nat, NEW spec \in Specs
  PROVE  NewObject(uid, spec) \in Object
  BY DEF NewObject, Object, Condition, Unlisted, Entries

LEMMA InitTyped == Init => TypeOK
<1> SUFFICES ASSUME Init PROVE TypeOK
  OBVIOUS
<1>1. specification \in Object
  BY NewObjectTyped DEF Init
<1>2. definition \in [Definitions -> Definition \cup {None}]
  BY DEF Init, Definition
<1>3. document \in Parts
  BY DEF Init, Parts, Document
<1>4. /\ cached \in Object /\ cachedDefinition \in [Definitions -> Definition \cup {None}]
      /\ cachedDocument \in Parts
  BY <1>1, <1>2, <1>3 DEF Init
<1>5. served \in Nat /\ clock \in 0..MaxClock
  BY MaxClockAssumption DEF Init
<1>6. withdrawn \in BOOLEAN /\ queued \in BOOLEAN /\ delayed \in BOOLEAN
  BY DEF Init
<1>7. configMap = None /\ cachedConfigMap = None /\ attempt = None
  BY DEF Init
<1>8. unusable \in SUBSET Definitions
  BY DEF Init
<1>. QED BY <1>1, <1>2, <1>3, <1>4, <1>5, <1>6, <1>7, <1>8 DEF TypeOK

\* Users and the definition controller leave the controller's own state alone.
LEMMA UsersTyped ==
  ASSUME TypeOK, Users
  PROVE  TypeOK'
<1> USE NoneAssumption, MaxClockAssumption DEF Tick
<1>1. CASE CreateSpecification
  <2>1. \A spec \in Specs : NewObject(clock + 1, spec) \in Object
    BY NewObjectTyped DEF TypeOK
  <2>. QED BY <1>1, <2>1 DEF TypeOK, CreateSpecification
<1>2. CASE EditSpec
  <2>1. PICK spec \in Specs : specification' =
          [specification EXCEPT !.spec = spec, !.generation = @ + 1]
    BY <1>2 DEF EditSpec
  <2>2. specification \in Object
    BY <1>2 DEF EditSpec, TypeOK
  <2>3. specification' \in Object
    <3>1. specification.generation + 1 \in Nat
      BY <2>2 DEF Object
    <3>. QED BY <2>1, <2>2, <3>1 DEF Object
  <2>. QED BY <1>2, <2>3 DEF TypeOK, EditSpec
<1>3. CASE DeleteSpecification
  BY <1>3 DEF TypeOK, DeleteSpecification
<1>4. CASE DeleteConfigMap
  BY <1>4 DEF TypeOK, DeleteConfigMap
<1>. QED BY <1>1, <1>2, <1>3, <1>4 DEF Users

LEMMA DefinitionControllerTyped ==
  ASSUME TypeOK, NEW d \in Definitions, DefinitionController(d)
  PROVE  TypeOK'
<1> USE NoneAssumption, MaxClockAssumption DEF Tick
<1>1. CASE CreateDefinition(d)
  <2>1. [uid |-> clock + 1, ready |-> FALSE] \in Definition
    BY DEF TypeOK, Definition
  <2>. QED BY <1>1, <2>1 DEF TypeOK, CreateDefinition
<1>2. CASE DeleteDefinition(d)
  BY <1>2 DEF TypeOK, DeleteDefinition
<1>3. CASE PublishDocument(d)
  <2>1. PICK content \in Contents : document' =
          [document EXCEPT ![d] = [version |-> served + 1, content |-> content]]
    BY <1>3 DEF PublishDocument
  <2>2. [version |-> served + 1, content |-> content] \in Document /\ served' \in Nat
    BY <1>3 DEF TypeOK, Document, PublishDocument
  <2>4. unusable' \in SUBSET Definitions
    BY <1>3 DEF TypeOK, PublishDocument
  <2>3. document' \in Parts
    BY <2>1, <2>2 DEF TypeOK, Parts
  <2>. QED BY <1>3, <2>2, <2>3, <2>4 DEF TypeOK, PublishDocument
<1>4. CASE WithdrawDocument(d)
  BY <1>4 DEF TypeOK, Parts, WithdrawDocument
<1>5. CASE ChangeStatus(d)
  <2>1. definition[d] \in Definition
    BY <1>5 DEF TypeOK, ChangeStatus
  <2>2. definition' = [definition EXCEPT ![d] = [definition[d] EXCEPT !.ready = ~@]]
    BY <1>5, <2>1 DEF ChangeStatus, TypeOK
  <2>3. [definition[d] EXCEPT !.ready = ~@] \in Definition
    BY <2>1, Zenon DEF Definition
  <2>4. definition' \in [Definitions -> Definition \cup {None}]
    BY <2>2, <2>3 DEF TypeOK
  <2>. QED BY <1>5, <2>4 DEF TypeOK, ChangeStatus
<1>. QED BY <1>1, <1>2, <1>3, <1>4, <1>5 DEF DefinitionController

LEMMA ClusterTyped ==
  ASSUME TypeOK,
         CollectGarbage \/ DeliverSpecification \/ DeliverConfigMap \/ Requeue
         \/ \E d \in Definitions : DeliverDefinition(d) \/ DeliverDocument(d)
  PROVE  TypeOK'
<1>1. CASE CollectGarbage
  BY <1>1 DEF TypeOK, CollectGarbage
<1>2. CASE DeliverSpecification
  <2>1. queued' \in BOOLEAN
    BY <1>2, Zenon DEF DeliverSpecification, TypeOK
  <2>. QED BY <1>2, <2>1 DEF TypeOK, DeliverSpecification
<1>3. CASE DeliverConfigMap
  BY <1>3 DEF TypeOK, DeliverConfigMap
<1>4. CASE Requeue
  BY <1>4 DEF TypeOK, Requeue
<1>5. ASSUME NEW d \in Definitions, DeliverDefinition(d)
      PROVE  TypeOK'
  <2>1. queued' \in BOOLEAN
    BY <1>5, Zenon DEF DeliverDefinition, TypeOK
  <2>. QED BY <1>5, <2>1 DEF TypeOK, DeliverDefinition
<1>6. ASSUME NEW d \in Definitions, DeliverDocument(d)
      PROVE  TypeOK'
  BY <1>6 DEF TypeOK, Parts, DeliverDocument
<1>. QED BY <1>1, <1>2, <1>3, <1>4, <1>5, <1>6

LEMMA BeginTyped ==
  ASSUME TypeOK, Begin
  PROVE  attempt' \in Attempt
<1>1. ASSUME NEW stage \in {"merge", "patch"}, NEW failed \in BOOLEAN,
             NEW pending \in SUBSET Definitions, NEW catalog \in [Definitions -> Entries]
      PROVE  [stage |-> stage, copy |-> cached, pending |-> pending, parts |-> Nothing,
              catalog |-> catalog, failed |-> failed, expired |-> FALSE] \in Attempt
  <2>1. cached \in Object
    BY DEF Begin, TypeOK
  <2>2. Nothing \in Parts
    BY DEF Nothing, Parts
  <2>. QED BY <2>1, <2>2 DEF Attempt, Parts
<1>2. Listed \in SUBSET Definitions
  BY DEF Listed
<1>3. /\ Unlisted \in [Definitions -> Entries]
      /\ [d \in Definitions |-> IF d \in Listed THEN "listed" ELSE "unlisted"]
           \in [Definitions -> Entries]
  BY DEF Unlisted, Entries
<1>. QED BY <1>1, <1>2, <1>3 DEF Begin

LEMMA StartTyped ==
  ASSUME TypeOK, Start
  PROVE  TypeOK'
<1>1. CASE Skip
  BY <1>1 DEF TypeOK, Skip
<1>2. CASE Begin
  BY <1>2, BeginTyped DEF TypeOK, Begin
<1>. QED BY <1>1, <1>2 DEF Start

\* The next definition, read or left out.
LEMMA ReadingTyped ==
  ASSUME TypeOK, NEW d \in Definitions, ReadDocument(d) \/ LeaveOut(d)
  PROVE  attempt \in Attempt /\ attempt' \in Attempt
<1>1. attempt \in Attempt
  BY NoneAssumption DEF TypeOK, ReadDocument, LeaveOut, Reads, At
<1>2. CASE ReadDocument(d)
  <2>1. cachedDocument[d] \in Document
    BY <1>2 DEF ReadDocument, Found, TypeOK, Parts
  <2>2. attempt' = [attempt EXCEPT !.pending = attempt.pending \ {d},
                                   !.parts = [attempt.parts EXCEPT ![d] = cachedDocument[d]]]
    BY <1>1, <1>2 DEF ReadDocument, Found, Attempt
  <2>3. [attempt.parts EXCEPT ![d] = cachedDocument[d]] \in [Definitions -> Document \cup {None}]
    BY <1>1, <2>1 DEF Attempt
  <2>. QED BY <1>1, <2>2, <2>3 DEF Attempt
<1>3. CASE LeaveOut(d)
  <2>1. attempt' = [attempt EXCEPT !.pending = attempt.pending \ {d},
                                   !.catalog = [attempt.catalog EXCEPT ![d] = "error"]]
    BY <1>1, <1>3 DEF LeaveOut, Attempt
  <2>2. [attempt.catalog EXCEPT ![d] = "error"] \in [Definitions -> Entries]
    BY <1>1 DEF Attempt, Entries
  <2>. QED BY <1>1, <2>1, <2>2 DEF Attempt
<1>. QED BY <1>1, <1>2, <1>3

LEMMA ConcludeTyped ==
  ASSUME TypeOK, attempt \in Attempt, NEW failed \in BOOLEAN, Conclude(failed)
  PROVE  attempt' \in Attempt
  BY DEF Conclude, Attempt

LEMMA ReadTyped ==
  ASSUME TypeOK, Expire \/ Read
  PROVE  TypeOK'
<1> USE NoneAssumption, MaxClockAssumption DEF Tick
<1>1. attempt \in Attempt
  BY DEF TypeOK, Expire, Read, ReadDocument, LeaveOut, Panic, Reads, At
<1>2. CASE Expire
  <2>1. attempt' \in Attempt
    BY <1>1, <1>2 DEF Expire, Attempt
  <2>. QED BY <1>2, <2>1 DEF TypeOK, Expire
<1>3. ASSUME NEW d \in Definitions, ReadDocument(d) \/ LeaveOut(d)
      PROVE  TypeOK'
  BY <1>3, ReadingTyped DEF TypeOK, ReadDocument, LeaveOut
<1>4. ASSUME NEW d \in Definitions, Panic(d)
      PROVE  TypeOK'
  BY <1>4 DEF TypeOK, Panic
<1>. QED BY <1>2, <1>3, <1>4 DEF Read

\* What the status patch leaves on the server.
LEMMA PatchedTyped ==
  ASSUME TypeOK, At("patch"), PatchAccepted, SendPatch
  PROVE  /\ specification \in Object /\ specification' \in Object
         /\ specification'.uid = specification.uid /\ specification'.spec = specification.spec
         /\ specification'.generation = specification.generation
         /\ specification'.observed =
              MergeField(specification.observed, cached.observed, cached.generation)
         /\ specification'.ready =
              MergeField(specification.ready, cached.ready,
                [status |-> ComputedStatus(attempt), generation |-> cached.generation])
<1>1. attempt \in Attempt /\ specification \in Object /\ attempt.copy = cached /\ cached \in Object
  BY DEF TypeOK, PatchAccepted, At, Attempt
<1>2. /\ Computed.observed = cached.generation /\ Computed.catalog = attempt.catalog
      /\ Computed.ready = [status |-> ComputedStatus(attempt), generation |-> cached.generation]
  BY <1>1 DEF Computed, Object
<1>3. Computed.ready \in Condition
  BY <1>1, <1>2 DEF Condition, ComputedStatus, Object
<1>4. Computed.catalog \in [Definitions -> Entries]
  BY <1>1, <1>2 DEF Attempt
<1>. QED BY <1>1, <1>2, <1>3, <1>4 DEF SendPatch, Object, MergeField

LEMMA FinishTyped ==
  ASSUME TypeOK, Finish
  PROVE  TypeOK'
<1> USE NoneAssumption, MaxClockAssumption DEF Tick
<1>1. attempt \in Attempt
  BY DEF TypeOK, Finish, Write, WriteFails, PatchStatus, PatchFails, Generated, At
<1>2. clock' \in 0..MaxClock
  <2>1. UNCHANGED clock \/ Tick
    BY DEF Finish, Write, WriteFails, PatchStatus, PatchFails
  <2>. QED BY <2>1 DEF TypeOK
<1>3. CASE Write \/ WriteFails
  <2>1. configMap' \in ConfigMap \cup {None} /\ withdrawn' \in BOOLEAN
    <3>1. CASE Store
      <4>1. [owner |-> attempt.copy.uid, parts |-> attempt.parts] \in ConfigMap
        BY <1>1 DEF Attempt, Object, ConfigMap
      <4>. QED BY <3>1, <4>1 DEF Store
    <3>2. CASE UNCHANGED <<configMap, withdrawn>>
      BY <3>2 DEF TypeOK
    <3>. QED BY <1>3, <3>1, <3>2 DEF Write, WriteFails
  <2>2. attempt' \in Attempt
    BY <1>1, <1>3, ConcludeTyped DEF Write, WriteFails
  <2>3. UNCHANGED <<specification, cached, cachedConfigMap, inputs, queued, delayed>>
    BY <1>3 DEF Write, WriteFails
  <2>. QED BY <1>2, <2>1, <2>2, <2>3 DEF TypeOK, inputs
<1>4. CASE PatchStatus \/ PatchFails
  <2>1. specification' \in Object \cup {None}
    BY <1>4, PatchedTyped DEF TypeOK, PatchStatus, PatchFails
  <2>2. delayed' \in BOOLEAN
    <3>1. CASE PatchStatus
      BY <3>1, Zenon DEF PatchStatus, TypeOK
    <3>2. CASE PatchFails
      BY <3>2 DEF PatchFails
    <3>. QED BY <1>4, <3>1, <3>2
  <2>3. attempt' = None /\ UNCHANGED <<cached, configMap, cachedConfigMap, withdrawn, inputs, queued>>
    BY <1>4 DEF PatchStatus, PatchFails
  <2>. QED BY <1>2, <2>1, <2>2, <2>3 DEF TypeOK, inputs
<1>. QED BY <1>3, <1>4 DEF Finish

LEMMA RestartTyped ==
  ASSUME TypeOK, Restart
  PROVE  TypeOK'
<1>1. queued' \in BOOLEAN
  BY Zenon DEF Restart
<1>2. clock' \in 0..MaxClock
  BY MaxClockAssumption DEF Restart, TypeOK, Tick
<1>3. delayed' = FALSE /\ attempt' = None
  BY DEF Restart
<1>4. /\ UNCHANGED <<specification, configMap, withdrawn, definition, document, served, unusable>>
      /\ cached' = specification /\ cachedConfigMap' = configMap
      /\ cachedDefinition' = definition /\ cachedDocument' = document
  BY DEF Restart
<1>. QED BY <1>1, <1>2, <1>3, <1>4 DEF TypeOK

\* Every step keeps the state typed.
LEMMA NextTyped == TypeOK /\ [Next]_vars => TypeOK'
<1> SUFFICES ASSUME TypeOK, [Next]_vars PROVE TypeOK'
  OBVIOUS
<1>1. CASE UNCHANGED vars
  BY <1>1 DEF vars, TypeOK
<1>2. CASE Next
  BY <1>2, UsersTyped, DefinitionControllerTyped, ClusterTyped, StartTyped, ReadTyped,
     FinishTyped, RestartTyped DEF Next
<1>. QED BY <1>1, <1>2

\* Every variable keeps to its type, and the clock to its bound.
THEOREM TypeCorrect == Spec => []TypeOK
  BY InitTyped, NextTyped, PTL DEF Spec

-------------------------------------------------------------------------------
(* The inductive invariant.  One lemma per group of actions, one step per   *)
(* action and, under it, one per conjunct the action can disturb.           *)

LEMMA InitInvariant == Init => IInv
<1> SUFFICES ASSUME Init PROVE IInv
  OBVIOUS
<1>1. PICK spec \in Specs : specification = NewObject(0, spec)
  BY DEF Init
<1>2. CacheTrails
  BY <1>1, NewObjectTyped, NoneAssumption DEF Init, CacheTrails, NewObject, SameObject
<1>3. ~Done /\ ~Written /\ attempt = None /\ configMap = None
  BY DEF Init, Done, Written, At
<1>4. \A d \in Definitions : document[d].version = 0 /\ cachedDocument[d] = document[d]
  BY DEF Init
<1>5. DocumentsInOrder
  BY <1>3, <1>4 DEF Init, DocumentsInOrder, Published, InHand, InOrder
<1>6. UsableLoads
  <2>1. \A d \in Definitions : document[d] # None
    BY InitTyped, NoneAssumption DEF Init, Document
  <2>. QED BY <2>1 DEF Init, UsableLoads
<1>. QED BY <1>2, <1>3, <1>5, <1>6 DEF IInv, ObservedOrPending, PublishedOrPending, ValidOrPending,
            MergedOrPending, EverythingLoads

\* Steps that only touch the object on the server, or the clock.
LEMMA RestKept ==
  ASSUME IInv, UNCHANGED <<cached, configMap, inputs, work>>
  PROVE  /\ ValidOrPending' /\ MergedOrPending' /\ EverythingLoads' /\ DocumentsInOrder'
         /\ (Done' <=> Done) /\ (Written' <=> Written)
<1>1. (Done' <=> Done) /\ (Written' <=> Written)
  BY DEF Done, Written, At
<1>2. ValidOrPending' /\ MergedOrPending'
  BY <1>1 DEF IInv, ValidOrPending, MergedOrPending, Accounts, Listed, Sources, At
<1>3. EverythingLoads' /\ DocumentsInOrder'
  BY DEF IInv, EverythingLoads, PartsLoad, DocumentsInOrder, Published, InHand
<1>. QED BY <1>1, <1>2, <1>3

LEMMA UsersKeep ==
  ASSUME TypeOK, TypeOK', IInv, UsableLoads', Users
  PROVE  IInv'
<1> USE NoneAssumption DEF Tick
<1>1. CASE CreateSpecification
  <2>1. PICK spec \in Specs : specification' = NewObject(clock + 1, spec)
    BY <1>1 DEF CreateSpecification
  <2>2. /\ clock' = clock + 1 /\ specification'.uid = clock + 1
        /\ UNCHANGED <<cached, configMap, withdrawn, inputs, work>>
    BY <1>1, <2>1 DEF CreateSpecification, NewObject
  <2>3. ~SameObject'
    BY <2>2 DEF IInv, CacheTrails, SameObject, TypeOK, Object
  <2>4. CacheTrails'
    BY <2>2, <2>3 DEF IInv, CacheTrails, TypeOK, Object, Attempt
  <2>5. PublishedOrPending'
    <3>1. Done => cached.uid # clock + 1
      BY DEF Done, IInv, CacheTrails, TypeOK, Object
    <3>2. Written => attempt.copy.uid # clock + 1
      BY DEF Written, At, IInv, CacheTrails, TypeOK, Object, Attempt
    <3>. QED BY <2>2, <3>1, <3>2, RestKept DEF IInv, PublishedOrPending, PublishedFor
  <2>. QED BY <2>2, <2>3, <2>4, <2>5, RestKept DEF IInv, ObservedOrPending
<1>2. CASE EditSpec
  <2>1. /\ clock' = clock + 1 /\ specification \in Object /\ specification' \in Object
        /\ specification'.uid = specification.uid
        /\ specification'.generation = specification.generation + 1
        /\ specification'.observed = specification.observed
        /\ specification'.ready = specification.ready
        /\ UNCHANGED <<cached, configMap, withdrawn, inputs, work>>
    <3>1. PICK spec \in Specs : specification' =
            [specification EXCEPT !.spec = spec, !.generation = @ + 1]
      BY <1>2 DEF EditSpec
    <3>2. specification \in Object /\ specification.generation + 1 \in Nat
      BY <1>2 DEF EditSpec, TypeOK, Object
    <3>3. specification' \in Object
      BY <3>1, <3>2 DEF Object
    <3>4. clock' = clock + 1 /\ UNCHANGED <<cached, configMap, withdrawn, inputs, work>>
      BY <1>2 DEF EditSpec
    <3>. QED BY <3>1, <3>2, <3>3, <3>4 DEF Object
  <2>2. SameObject' <=> SameObject
    BY <2>1 DEF SameObject
  <2>3. CacheTrails'
    BY <2>1, <2>2 DEF IInv, CacheTrails, TypeOK, Object, Attempt, SameObject
  <2>4. ObservedOrPending' /\ PublishedOrPending'
    BY <2>1, <2>2, RestKept DEF IInv, ObservedOrPending, PublishedOrPending, PublishedFor
  <2>. QED BY <2>1, <2>3, <2>4, RestKept DEF IInv
<1>3. CASE DeleteSpecification
  <2>1. /\ clock' = clock + 1 /\ specification' = None
        /\ UNCHANGED <<cached, configMap, withdrawn, inputs, work>>
    BY <1>3 DEF DeleteSpecification
  <2>2. CacheTrails'
    BY <2>1 DEF IInv, CacheTrails, SameObject, TypeOK, Object, Attempt
  <2>3. ObservedOrPending' /\ PublishedOrPending'
    BY <2>1, RestKept DEF IInv, ObservedOrPending, PublishedOrPending, PublishedFor, SameObject
  <2>. QED BY <2>1, <2>2, <2>3, RestKept DEF IInv
<1>4. CASE DeleteConfigMap
  <2>1. /\ clock' = clock + 1 /\ configMap' = None /\ withdrawn'
        /\ UNCHANGED <<specification, cached, inputs, work>>
    BY <1>4 DEF DeleteConfigMap
  <2>2. CacheTrails' /\ ObservedOrPending' /\ PublishedOrPending' /\ ValidOrPending'
    BY <2>1 DEF IInv, CacheTrails, SameObject, TypeOK, Object, Attempt, ObservedOrPending, Done,
                PublishedOrPending, PublishedFor, Written, At, ValidOrPending
  <2>3. MergedOrPending' /\ EverythingLoads'
    BY <2>1 DEF IInv, MergedOrPending, Accounts, EverythingLoads, PartsLoad, Sources, Listed
  <2>4. DocumentsInOrder'
    BY <2>1 DEF IInv, DocumentsInOrder, Published, InHand, InOrder
  <2>. QED BY <2>2, <2>3, <2>4 DEF IInv
<1>. QED BY <1>1, <1>2, <1>3, <1>4 DEF Users

\* Documents come and go; nothing is copied from them yet.
LEMMA DefinitionControllerKeeps ==
  ASSUME TypeOK, TypeOK', IInv, UsableLoads', NEW d \in Definitions, DefinitionController(d)
  PROVE  IInv'
<1> USE NoneAssumption DEF Tick
<1>1. /\ clock' = clock + 1
      /\ UNCHANGED <<objects, cachedDefinition, cachedDocument, work>>
  BY DEF DefinitionController, CreateDefinition, DeleteDefinition, PublishDocument,
         WithdrawDocument, ChangeStatus
<1>2. CacheTrails' /\ ObservedOrPending' /\ PublishedOrPending' /\ ValidOrPending'
  BY <1>1 DEF IInv, CacheTrails, SameObject, TypeOK, Object, Attempt, ObservedOrPending, Done,
              PublishedOrPending, PublishedFor, Written, At, ValidOrPending
<1>3. MergedOrPending' /\ EverythingLoads'
  <2>1. unusable \subseteq unusable'
    BY DEF DefinitionController, CreateDefinition, DeleteDefinition, PublishDocument,
           WithdrawDocument, ChangeStatus
  <2>. QED BY <1>1, <2>1 DEF IInv, MergedOrPending, Accounts, EverythingLoads, PartsLoad, Sources,
                         Listed, Done, Written, At
<1>4. \A e \in Definitions : Published(e)' = Published(e) /\ InHand(e)' = InHand(e)
  BY <1>1 DEF Published, InHand
<1>5. DocumentsInOrder'
  <2>1. CASE PublishDocument(d)
    <3>1. PICK content \in Contents : document' =
            [document EXCEPT ![d] = [version |-> served + 1, content |-> content]]
      BY <2>1 DEF PublishDocument
    <3>2. /\ document'[d].version = served + 1 /\ served' = served + 1
          /\ \A e \in Definitions \ {d} : document'[e] = document[e]
      BY <2>1, <3>1 DEF PublishDocument, TypeOK, Parts
    <3>3. \A e \in Definitions : \A doc \in {Published(e), InHand(e), cachedDocument[e], document[e]} :
            doc # None => doc \in Document /\ doc.version \in Nat /\ doc.version <= served
      BY DEF IInv, DocumentsInOrder, Published, InHand, TypeOK, ConfigMap, Attempt, Parts, Document
    <3>. QED BY <1>1, <1>4, <3>2, <3>3 DEF IInv, DocumentsInOrder, InOrder, TypeOK
  <2>2. CASE ~PublishDocument(d)
    <3>1. served' = served /\ \A e \in Definitions : document'[e] \in {document[e], None}
      BY <2>2 DEF DefinitionController, CreateDefinition, DeleteDefinition, WithdrawDocument,
                  ChangeStatus, TypeOK, Parts
    <3>. QED BY <1>1, <1>4, <3>1 DEF IInv, DocumentsInOrder, InOrder
  <2>. QED BY <2>1, <2>2
<1>. QED BY <1>2, <1>3, <1>5 DEF IInv

\* The garbage collector and the informers.
LEMMA ClusterKeeps ==
  ASSUME TypeOK, TypeOK', IInv, UsableLoads',
         CollectGarbage \/ DeliverSpecification \/ DeliverConfigMap \/ Requeue
         \/ \E d \in Definitions : DeliverDefinition(d) \/ DeliverDocument(d)
  PROVE  IInv'
<1> USE NoneAssumption
<1>1. CASE CollectGarbage
  <2>1. /\ configMap # None /\ OwnerGone /\ configMap' = None
        /\ UNCHANGED <<specification, cached, withdrawn, inputs, work, clock>>
    BY <1>1 DEF CollectGarbage
  <2>2. CacheTrails' /\ ObservedOrPending' /\ ValidOrPending'
    BY <2>1 DEF IInv, CacheTrails, SameObject, ObservedOrPending, Done, At, ValidOrPending
  <2>3. PublishedOrPending'
    BY <2>1 DEF IInv, PublishedOrPending, PublishedFor, OwnerGone, Done, Written, At
  <2>4. MergedOrPending' /\ EverythingLoads'
    BY <2>1 DEF IInv, MergedOrPending, Accounts, EverythingLoads, PartsLoad, Sources, Listed
  <2>5. DocumentsInOrder'
    BY <2>1 DEF IInv, DocumentsInOrder, Published, InHand, InOrder
  <2>. QED BY <2>2, <2>3, <2>4, <2>5 DEF IInv
\* An event the predicate drops leaves UID, generation and spec of the cached object.
<1>2. CASE DeliverSpecification
  <2>1. /\ cached' = specification /\ (queued => queued')
        /\ Wakes(cached, specification) => queued'
        /\ UNCHANGED <<specification, configMap, withdrawn, inputs, delayed, attempt, clock>>
    BY <1>2 DEF DeliverSpecification
  <2>2. ~queued' => /\ SameObject /\ cached'.generation = cached.generation
                    /\ cached'.spec = cached.spec /\ cached'.uid = cached.uid
    BY <2>1 DEF Wakes, IInv, CacheTrails, SameObject
  <2>3. Done' => Done
    BY <2>1, <2>2 DEF Done, SameObject
  <2>4. CacheTrails'
    BY <2>1, <2>2 DEF IInv, CacheTrails, SameObject, TypeOK, Object
  <2>5. ObservedOrPending' /\ PublishedOrPending' /\ ValidOrPending'
    BY <2>1, <2>2, <2>3 DEF IInv, ObservedOrPending, PublishedOrPending, PublishedFor, ValidOrPending,
                            Written, At, SameObject, Done
  <2>6. MergedOrPending' /\ EverythingLoads' /\ DocumentsInOrder'
    BY <2>1, <2>3 DEF IInv, MergedOrPending, Accounts, EverythingLoads, PartsLoad, Sources, Listed,
                DocumentsInOrder, Published, InHand, InOrder, Written, At
  <2>. QED BY <2>4, <2>5, <2>6 DEF IInv
<1>3. CASE DeliverConfigMap
  <2>1. UNCHANGED <<specification, cached, configMap, withdrawn, inputs, work, clock>>
    BY <1>3 DEF DeliverConfigMap
  <2>. QED BY <2>1, RestKept DEF IInv, CacheTrails, SameObject, ObservedOrPending,
              PublishedOrPending, PublishedFor
<1>4. CASE Requeue
  <2>1. queued' /\ UNCHANGED <<objects, inputs, attempt, clock>>
    BY <1>4 DEF Requeue
  <2>2. CacheTrails' /\ ObservedOrPending' /\ PublishedOrPending' /\ ValidOrPending'
    BY <2>1 DEF IInv, CacheTrails, SameObject, ObservedOrPending, Done,
                PublishedOrPending, PublishedFor, Written, At, ValidOrPending
  <2>3. MergedOrPending' /\ EverythingLoads' /\ DocumentsInOrder'
    BY <2>1 DEF IInv, MergedOrPending, Accounts, EverythingLoads, PartsLoad, Done,
                DocumentsInOrder, Published, InHand, InOrder
  <2>. QED BY <2>2, <2>3 DEF IInv
\* A definition that goes wakes the specification, unless its selector is malformed.
<1>5. ASSUME NEW d \in Definitions, DeliverDefinition(d)
      PROVE  IInv'
  <2>1. /\ cachedDefinition' = [cachedDefinition EXCEPT ![d] = definition[d]]
        /\ queued' = (queued \/ Requests(d))
        /\ UNCHANGED <<objects, definition, document, cachedDocument, served, unusable, delayed,
                        attempt, clock>>
    BY <1>5 DEF DeliverDefinition
  <2>2. (queued => queued') /\ (Done' => Done) /\ (Written' <=> Written)
    BY <2>1 DEF Done, Written, At
  <2>3. CacheTrails' /\ ObservedOrPending' /\ PublishedOrPending' /\ ValidOrPending'
    BY <2>1, <2>2 DEF IInv, CacheTrails, SameObject, ObservedOrPending,
                PublishedOrPending, PublishedFor, At, ValidOrPending
  <2>4. EverythingLoads' /\ DocumentsInOrder'
    BY <2>1 DEF IInv, EverythingLoads, PartsLoad, DocumentsInOrder, Published, InHand, InOrder
  <2>5. ~queued' => ~Done /\ (attempt # None => attempt.failed)
    BY <2>1 DEF Requests, IInv, ValidOrPending, CacheTrails, Done
  <2>6. MergedOrPending'
    BY <2>1, <2>2, <2>5 DEF MergedOrPending, Accounts, Done, Written, At
  <2>. QED BY <2>3, <2>4, <2>6 DEF IInv
<1>6. ASSUME NEW d \in Definitions, DeliverDocument(d)
      PROVE  IInv'
  <2>1. /\ cachedDocument' = [cachedDocument EXCEPT ![d] = document[d]]
        /\ UNCHANGED <<objects, definition, cachedDefinition, document, served, unusable, work, clock>>
    BY <1>6 DEF DeliverDocument
  <2>2. CacheTrails' /\ ObservedOrPending' /\ PublishedOrPending' /\ ValidOrPending'
    BY <2>1 DEF IInv, CacheTrails, SameObject, ObservedOrPending, Done,
                PublishedOrPending, PublishedFor, Written, At, ValidOrPending
  <2>3. MergedOrPending' /\ EverythingLoads'
    BY <2>1 DEF IInv, MergedOrPending, Accounts, EverythingLoads, PartsLoad, Sources, Listed,
                Done, Written, At
  <2>4. /\ cachedDocument'[d] = document[d]
        /\ \A e \in Definitions \ {d} : cachedDocument'[e] = cachedDocument[e]
        /\ \A e \in Definitions : Published(e)' = Published(e) /\ InHand(e)' = InHand(e)
    BY <2>1 DEF TypeOK, Parts, Published, InHand
  <2>5. DocumentsInOrder'
    <3>1. document[d] # None => document[d].version \in Nat
      BY DEF TypeOK, Parts, Document
    <3>. QED BY <2>1, <2>4, <3>1 DEF IInv, DocumentsInOrder, InOrder
  <2>. QED BY <2>2, <2>3, <2>5 DEF IInv
<1>. QED BY <1>1, <1>2, <1>3, <1>4, <1>5, <1>6

LEMMA StartKeeps ==
  ASSUME TypeOK, IInv, UsableLoads', Start
  PROVE  IInv'
<1> USE NoneAssumption
<1>1. CASE Skip
  <2>1. /\ cached # None => cached.spec.suspend
        /\ attempt = None /\ UNCHANGED <<objects, inputs, delayed, attempt, clock>>
    BY <1>1 DEF Skip, Available
  <2>2. ~Done' /\ ~Written'
    BY <2>1 DEF Done, Written, At
  <2>3. CacheTrails' /\ ObservedOrPending' /\ PublishedOrPending' /\ ValidOrPending'
    BY <2>1, <2>2 DEF IInv, CacheTrails, SameObject, ObservedOrPending, PublishedOrPending,
                      ValidOrPending
  <2>4. MergedOrPending' /\ EverythingLoads' /\ DocumentsInOrder'
    BY <2>1, <2>2 DEF IInv, MergedOrPending, Accounts, EverythingLoads, PartsLoad,
                      DocumentsInOrder, Published, InHand, InOrder
  <2>. QED BY <2>3, <2>4 DEF IInv
<1>2. CASE Begin
  <2>1. /\ cached # None /\ UNCHANGED <<objects, inputs, delayed, clock>>
        /\ attempt'.copy = cached /\ attempt'.parts = Nothing
        /\ attempt'.failed => attempt'.stage = "patch"
        /\ ~attempt'.failed => /\ attempt'.stage = "merge" /\ cached.spec.valid
                               /\ attempt'.pending = Listed
    BY <1>2 DEF Begin
  <2>2. attempt' # None /\ ~Done' /\ ~Written'
    <3>1. attempt' # None
      BY <1>2, BeginTyped
    <3>. QED BY <2>1, <3>1 DEF Done, Written, At
  <2>3. CacheTrails' /\ ObservedOrPending' /\ PublishedOrPending' /\ ValidOrPending'
    BY <2>1, <2>2 DEF IInv, CacheTrails, SameObject, ObservedOrPending, PublishedOrPending,
                      ValidOrPending, At
  <2>4. \A d \in Definitions : attempt'.parts[d] = None
    BY <2>1 DEF Nothing
  <2>5. MergedOrPending' /\ EverythingLoads'
    BY <2>1, <2>2, <2>4 DEF IInv, MergedOrPending, Accounts, EverythingLoads, PartsLoad, Sources,
                            Listed
  <2>6. DocumentsInOrder'
    BY <2>1, <2>4 DEF IInv, DocumentsInOrder, Published, InHand, InOrder
  <2>. QED BY <2>3, <2>5, <2>6 DEF IInv
<1>. QED BY <1>1, <1>2 DEF Start

\* What a reconciliation in progress does between its beginning and its end: it
\* keeps its copy, takes documents of the cache in hand, and may fail.
LEMMA AttemptKeeps ==
  ASSUME TypeOK, TypeOK', IInv, UsableLoads',
         UNCHANGED <<objects, inputs, queued, delayed>>, clock' \in {clock, clock + 1},
         attempt # None, attempt' # None, attempt'.copy = attempt.copy,
         attempt'.pending \subseteq attempt.pending,
         \A d \in Definitions : \/ attempt'.parts[d] = attempt.parts[d]
                               \/ /\ d \in attempt.pending /\ cachedDocument[d] # None
                                  /\ attempt'.parts[d] = cachedDocument[d]
                                  /\ Loads(cachedDocument[d].content, d),
         \A d \in attempt.pending \ attempt'.pending : attempt'.parts[d] # None \/ d \in unusable,
         attempt'.failed => attempt'.stage = "patch",
         ~attempt'.failed => ~attempt.failed /\ attempt'.stage = attempt.stage
  PROVE  IInv'
<1> USE NoneAssumption
<1>1. ~Done' /\ (Written' => Written)
  BY DEF Done, Written, At
<1>2. CacheTrails'
  BY DEF IInv, CacheTrails, SameObject, TypeOK, Object, Attempt
<1>3. ObservedOrPending' /\ PublishedOrPending'
  BY <1>1 DEF IInv, ObservedOrPending, PublishedOrPending, PublishedFor
<1>4. ValidOrPending'
  BY <1>1 DEF IInv, ValidOrPending, At
<1>5. MergedOrPending'
  BY <1>1 DEF IInv, MergedOrPending, Accounts, Sources, Listed
<1>6. EverythingLoads'
  BY DEF IInv, EverythingLoads, PartsLoad
<1>7. DocumentsInOrder'
  <2>1. ASSUME NEW d \in Definitions
        PROVE  /\ InHand(d)' \in {InHand(d), cachedDocument[d]}
               /\ Published(d)' = Published(d)
    BY DEF InHand, Published
  <2>2. \A d \in Definitions : cachedDocument[d] # None => cachedDocument[d].version \in Nat
    BY DEF TypeOK, Parts, Document
  <2>. QED BY <2>1, <2>2 DEF IInv, DocumentsInOrder, InOrder
<1>. QED BY <1>2, <1>3, <1>4, <1>5, <1>6, <1>7 DEF IInv

LEMMA ReadKeeps ==
  ASSUME TypeOK, TypeOK', IInv, UsableLoads', Expire \/ Read
  PROVE  IInv'
<1> USE NoneAssumption DEF Tick
<1>1. attempt \in Attempt /\ attempt # None
  BY DEF TypeOK, Expire, Read, ReadDocument, LeaveOut, Panic, Reads, At
<1>2. CASE Expire
  <2>1. attempt' = [attempt EXCEPT !.expired = TRUE]
    BY <1>2 DEF Expire
  <2>2. attempt' # None /\ attempt'.copy = attempt.copy /\ attempt'.pending = attempt.pending
        /\ attempt'.parts = attempt.parts /\ attempt'.failed = attempt.failed
        /\ attempt'.stage = attempt.stage
    <3>1. [attempt EXCEPT !.expired = TRUE] \in Attempt
      BY <1>1 DEF Attempt
    <3>. QED BY <1>1, <2>1, <3>1 DEF Attempt
  <2>. QED BY <1>1, <1>2, <2>2, AttemptKeeps DEF Expire, IInv, ValidOrPending, At
<1>3. ASSUME NEW d \in Definitions, ReadDocument(d) \/ LeaveOut(d)
      PROVE  IInv'
  <2>1. /\ At("merge") /\ d \in attempt.pending /\ ~attempt.failed
        /\ UNCHANGED <<objects, inputs, queued, delayed, clock>>
    BY <1>1, <1>3 DEF ReadDocument, LeaveOut, Reads, At, IInv, ValidOrPending
  <2>2. attempt' # None /\ attempt'.copy = attempt.copy /\ attempt'.pending \subseteq attempt.pending
        /\ attempt'.failed = attempt.failed /\ attempt'.stage = attempt.stage
    <3>1. attempt' \in Attempt
      BY <1>3, ReadingTyped
    <3>2. CASE ReadDocument(d)
      BY <1>1, <3>1, <3>2 DEF ReadDocument, Attempt
    <3>3. CASE LeaveOut(d)
      BY <1>1, <3>1, <3>3 DEF LeaveOut, Attempt
    <3>. QED BY <1>3, <3>2, <3>3
  <2>3. \A e \in Definitions :
          \/ attempt'.parts[e] = attempt.parts[e]
          \/ /\ e \in attempt.pending /\ cachedDocument[e] # None
             /\ attempt'.parts[e] = cachedDocument[e]
             /\ Loads(cachedDocument[e].content, e)
    <3>1. CASE ReadDocument(d)
      <4>1. attempt'.parts = [attempt.parts EXCEPT ![d] = cachedDocument[d]]
        BY <1>1, <3>1 DEF ReadDocument, Found, Attempt
      <4>. QED BY <1>1, <2>1, <3>1, <4>1 DEF ReadDocument, Found, Attempt
    <3>2. CASE LeaveOut(d)
      BY <1>1, <3>2 DEF LeaveOut, Attempt
    <3>. QED BY <1>3, <3>1, <3>2
  <2>4. \A e \in attempt.pending \ attempt'.pending : attempt'.parts[e] # None \/ e \in unusable
    <3>1. attempt'.pending = attempt.pending \ {d}
      <4>1. CASE ReadDocument(d)
        BY <1>1, <4>1 DEF ReadDocument, Attempt
      <4>2. CASE LeaveOut(d)
        BY <1>1, <4>2 DEF LeaveOut, Attempt
      <4>. QED BY <1>3, <4>1, <4>2
    <3>2. attempt.pending \ attempt'.pending \subseteq {d}
      BY <3>1
    <3>3. CASE ReadDocument(d)
      BY <1>1, <3>2, <3>3 DEF ReadDocument, Found, Attempt
    <3>4. CASE LeaveOut(d)
      BY <3>2, <3>4 DEF LeaveOut, Found, IInv, UsableLoads
    <3>. QED BY <1>3, <3>3, <3>4
  <2>. QED BY <1>1, <2>1, <2>2, <2>3, <2>4, AttemptKeeps
<1>4. ASSUME NEW d \in Definitions, Panic(d)
      PROVE  IInv'
  <2>1. attempt' = None /\ delayed' /\ UNCHANGED <<objects, inputs, queued, clock>>
    BY <1>4 DEF Panic
  <2>2. ~Done' /\ ~Written'
    BY <2>1 DEF Done, Written, At
  <2>3. CacheTrails' /\ ObservedOrPending' /\ PublishedOrPending' /\ ValidOrPending'
    BY <2>1, <2>2 DEF IInv, CacheTrails, SameObject, ObservedOrPending, PublishedOrPending,
                      ValidOrPending
  <2>4. MergedOrPending' /\ EverythingLoads' /\ DocumentsInOrder'
    BY <2>1, <2>2 DEF IInv, MergedOrPending, Accounts, EverythingLoads, PartsLoad,
                      DocumentsInOrder, Published, InHand, InOrder
  <2>. QED BY <2>3, <2>4 DEF IInv
<1>. QED BY <1>2, <1>3, <1>4 DEF Read

\* The merged document is stored, whether or not the reconciliation learns of it.
LEMMA StoreKeeps ==
  ASSUME TypeOK, TypeOK', IInv, UsableLoads', NEW failed \in BOOLEAN,
         Generated, Store, Conclude(failed), clock' \in {clock, clock + 1},
         UNCHANGED <<specification, cached, cachedConfigMap, inputs, queued, delayed>>
  PROVE  IInv'
<1> USE NoneAssumption
<1>1. /\ attempt \in Attempt /\ attempt # None /\ At("merge") /\ attempt.pending = {}
      /\ ~attempt.failed
  BY DEF TypeOK, Generated, At, IInv, ValidOrPending
<1>2. /\ attempt' # None /\ attempt'.copy = attempt.copy /\ attempt'.parts = attempt.parts
      /\ attempt'.pending = {} /\ attempt'.stage = "patch"
  <2>1. attempt' \in Attempt
    BY <1>1, ConcludeTyped
  <2>. QED BY <1>1, <2>1 DEF Conclude, Attempt
<1>3. configMap' # None /\ configMap'.owner = attempt.copy.uid /\ configMap'.parts = attempt.parts
  <2>1. [owner |-> attempt.copy.uid, parts |-> attempt.parts] \in ConfigMap
    BY <1>1 DEF Attempt, Object, ConfigMap
  <2>. QED BY <2>1 DEF Store
<1>4. ~Done'
  BY <1>2 DEF Done
<1>5. CacheTrails'
  BY <1>1, <1>2 DEF IInv, CacheTrails, SameObject, TypeOK, Object, Attempt
<1>6. ObservedOrPending' /\ PublishedOrPending' /\ ValidOrPending'
  BY <1>1, <1>2, <1>3, <1>4 DEF IInv, ObservedOrPending, PublishedOrPending, PublishedFor,
                                ValidOrPending, At
<1>7. MergedOrPending' /\ EverythingLoads'
  BY <1>1, <1>2, <1>3, <1>4 DEF IInv, MergedOrPending, Accounts, EverythingLoads, PartsLoad,
                               Sources, Listed
<1>8. DocumentsInOrder'
  <2>1. \A d \in Definitions : Published(d)' = InHand(d) /\ InHand(d)' = InHand(d)
    BY <1>1, <1>2, <1>3 DEF Published, InHand
  <2>2. \A d \in Definitions : InHand(d) # None => InHand(d).version \in Nat
    BY <1>1 DEF InHand, Attempt, Document
  <2>. QED BY <1>1, <2>1, <2>2 DEF IInv, DocumentsInOrder, InOrder
<1>. QED BY <1>5, <1>6, <1>7, <1>8 DEF IInv

\* The patch may fail to land: then the key comes back.  When it lands, the merge
\* leaves the cached generation in the status, whichever field of it was empty.
LEMMA PatchKeeps ==
  ASSUME TypeOK, TypeOK', IInv, UsableLoads', PatchStatus \/ PatchFails
  PROVE  IInv'
<1> USE NoneAssumption DEF Tick
<1>1. /\ attempt \in Attempt /\ attempt # None /\ At("patch") /\ attempt' = None
      /\ clock' \in {clock, clock + 1}
      /\ UNCHANGED <<cached, configMap, cachedConfigMap, withdrawn, inputs, queued>>
  BY DEF TypeOK, PatchStatus, PatchFails, At
<1>2. ~Written' /\ EverythingLoads'
  BY <1>1 DEF Written, At, IInv, EverythingLoads, PartsLoad
<1>3. DocumentsInOrder'
  BY <1>1 DEF IInv, DocumentsInOrder, Published, InHand, InOrder
<1>4. CASE PatchFails /\ UNCHANGED specification
  <2>1. delayed' /\ specification' = specification
    BY <1>4 DEF PatchFails
  <2>2. ~Done'
    BY <2>1 DEF Done
  <2>3. CacheTrails'
    BY <1>1, <2>1 DEF IInv, CacheTrails, SameObject, TypeOK, Object
  <2>4. ObservedOrPending' /\ PublishedOrPending' /\ ValidOrPending' /\ MergedOrPending'
    BY <1>1, <1>2, <2>2 DEF ObservedOrPending, PublishedOrPending, ValidOrPending, MergedOrPending
  <2>. QED BY <1>2, <1>3, <2>3, <2>4 DEF IInv
<1>5. CASE PatchAccepted /\ SendPatch
  <2>1. /\ cached = attempt.copy /\ specification # None
        /\ cached # None /\ specification' # None
    BY <1>1, <1>5, PatchedTyped DEF PatchAccepted, Attempt
  <2>2. SameObject' <=> SameObject
    BY <1>1, <1>5, <2>1, PatchedTyped DEF SameObject
  <2>3. SameObject => /\ specification'.observed = cached.generation
                      /\ specification'.ready.generation = cached.generation
    BY <1>1, <1>5, PatchedTyped DEF MergeField, IInv, CacheTrails
  <2>4. CacheTrails'
    BY <1>1, <1>5, <2>1, <2>2, <2>3, PatchedTyped DEF IInv, CacheTrails, TypeOK, Object
  <2>5. ObservedOrPending'
    BY <1>1, <2>2, <2>3 DEF ObservedOrPending
  <2>6. Done' => Written /\ ~queued
    <3>1. attempt.failed => delayed'
      BY Zenon DEF PatchStatus, PatchFails, Retries
    <3>. QED BY <1>1, <3>1 DEF Done, Written
  <2>7. PublishedOrPending'
    <3>1. PublishedFor(cached.uid) => PublishedFor(cached.uid)'
      BY <1>1, <1>5, <2>1, PatchedTyped DEF PublishedFor
    <3>. QED BY <1>2, <2>1, <2>6, <3>1 DEF IInv, PublishedOrPending
  <2>8. ValidOrPending'
    BY <1>1, <2>1, <2>6 DEF IInv, ValidOrPending, Written
  <2>9. MergedOrPending'
    BY <1>1, <1>2, <2>6 DEF IInv, MergedOrPending, Accounts, Sources, Listed
  <2>. QED BY <1>2, <1>3, <2>4, <2>5, <2>7, <2>8, <2>9 DEF IInv
<1>. QED BY <1>4, <1>5 DEF PatchStatus, PatchFails

LEMMA FinishKeeps ==
  ASSUME TypeOK, TypeOK', IInv, UsableLoads', Finish
  PROVE  IInv'
<1>1. CASE WriteFails /\ UNCHANGED <<configMap, withdrawn>>
  <2>1. /\ attempt \in Attempt /\ attempt # None
        /\ UNCHANGED <<objects, inputs, queued, delayed>> /\ clock' \in {clock, clock + 1}
    BY <1>1, NoneAssumption DEF TypeOK, WriteFails, Generated, At, Tick, objects
  <2>2. /\ attempt' # None /\ attempt'.copy = attempt.copy /\ attempt'.parts = attempt.parts
        /\ attempt'.pending = attempt.pending /\ attempt'.stage = "patch" /\ attempt'.failed
    <3>1. attempt' \in Attempt
      BY <1>1, <2>1, ConcludeTyped DEF WriteFails
    <3>. QED BY <1>1, <2>1, <3>1, NoneAssumption DEF WriteFails, Conclude, Attempt
  <2>. QED BY <2>1, <2>2, AttemptKeeps
<1>2. CASE Write \/ (WriteFails /\ Store)
  BY <1>2, StoreKeeps DEF Write, WriteFails, Tick
<1>. QED BY <1>1, <1>2, PatchKeeps DEF Finish, WriteFails

LEMMA RestartKeeps ==
  ASSUME TypeOK, IInv, UsableLoads', Restart
  PROVE  IInv'
<1> USE NoneAssumption
<1>1. /\ cached' = specification /\ cachedDefinition' = definition /\ cachedDocument' = document
      /\ queued' = (specification # None) /\ attempt' = None /\ clock' = clock + 1
      /\ UNCHANGED <<specification, configMap, withdrawn, definition, document, served, unusable>>
  BY DEF Restart, Tick
<1>2. ~Done' /\ ~Written'
  BY <1>1 DEF Done, Written, At
<1>3. CacheTrails' /\ ObservedOrPending' /\ PublishedOrPending' /\ ValidOrPending'
  BY <1>1, <1>2 DEF IInv, CacheTrails, SameObject, ObservedOrPending, PublishedOrPending,
                    ValidOrPending, TypeOK, Object
<1>4. MergedOrPending' /\ EverythingLoads'
  BY <1>1, <1>2 DEF IInv, MergedOrPending, Accounts, EverythingLoads, PartsLoad
<1>5. DocumentsInOrder'
  <2>1. \A d \in Definitions : Published(d)' = Published(d) /\ InHand(d)' = None
    BY <1>1 DEF Published, InHand
  <2>2. \A d \in Definitions : document[d] # None => document[d].version \in Nat
    BY DEF TypeOK, Parts, Document
  <2>. QED BY <1>1, <2>1, <2>2 DEF IInv, DocumentsInOrder, InOrder
<1>. QED BY <1>3, <1>4, <1>5 DEF IInv

\* A document becomes of no use on the API server first.
LEMMA UsableKept ==
  ASSUME TypeOK, TypeOK', UsableLoads, [Next]_vars
  PROVE  UsableLoads'
<1> USE NoneAssumption
<1>1. ASSUME NEW d \in Definitions, PublishDocument(d)
      PROVE  UsableLoads'
  <2>1. PICK content \in Contents :
          /\ document' = [document EXCEPT ![d] = [version |-> served + 1, content |-> content]]
          /\ unusable' = IF Loads(content, d) THEN unusable ELSE unusable \cup {d}
    BY <1>1 DEF PublishDocument
  <2>2. [version |-> served + 1, content |-> content] \in Document
    BY DEF TypeOK, Document
  <2>3. /\ document'[d] # None /\ document'[d].content = content
        /\ \A e \in Definitions \ {d} : document'[e] = document[e]
        /\ cachedDocument' = cachedDocument
    BY <1>1, <2>1, <2>2 DEF PublishDocument, TypeOK, Parts
  <2>. QED BY <2>1, <2>3 DEF UsableLoads
<1>2. ASSUME NEW d \in Definitions, WithdrawDocument(d)
      PROVE  UsableLoads'
  <2>1. unusable' = unusable \cup {d} /\ cachedDocument' = cachedDocument
        /\ \A e \in Definitions \ {d} : document'[e] = document[e]
    BY <1>2 DEF WithdrawDocument, TypeOK, Parts
  <2>. QED BY <2>1 DEF UsableLoads
<1>3. ASSUME NEW d \in Definitions, DeliverDocument(d)
      PROVE  UsableLoads'
  <2>1. unusable' = unusable /\ document' = document
        /\ \A e \in Definitions : cachedDocument'[e] \in {cachedDocument[e], document[e]}
    BY <1>3 DEF DeliverDocument, TypeOK, Parts
  <2>. QED BY <2>1 DEF UsableLoads
<1>4. CASE Restart
  BY <1>4 DEF Restart, UsableLoads
<1>5. CASE UNCHANGED <<document, cachedDocument, unusable>>
  BY <1>5 DEF UsableLoads
<1>. QED BY <1>1, <1>2, <1>3, <1>4, <1>5
        DEF Next, vars, Users, CreateSpecification, EditSpec, DeleteSpecification, DeleteConfigMap,
            DefinitionController, CreateDefinition, DeleteDefinition, ChangeStatus, CollectGarbage,
            DeliverSpecification, DeliverConfigMap, DeliverDefinition, Requeue, Start, Skip, Begin,
            Expire, Read, ReadDocument, LeaveOut, Panic, Finish, Write, WriteFails, PatchStatus,
            PatchFails

LEMMA NextKeeps == TypeOK /\ IInv /\ [Next]_vars => IInv'
<1> SUFFICES ASSUME TypeOK, IInv, [Next]_vars PROVE IInv'
  OBVIOUS
<1>1. TypeOK' /\ UsableLoads'
  BY NextTyped, UsableKept DEF IInv
<1>2. CASE UNCHANGED vars
  <2>1. UNCHANGED <<specification, clock, withdrawn, cached, configMap, inputs, work>>
    BY <1>2 DEF vars
  <2>. QED BY <1>1, <2>1, RestKept DEF IInv, CacheTrails, SameObject, ObservedOrPending,
              PublishedOrPending, PublishedFor
<1>3. CASE Next
  BY <1>1, <1>3, UsersKeep, DefinitionControllerKeeps, ClusterKeeps, StartKeeps, ReadKeeps,
     FinishKeeps, RestartKeeps DEF Next
<1>. QED BY <1>2, <1>3

\* The inductive invariant holds in every reachable state.
THEOREM Invariance == Spec => []IInv
<1>1. TypeOK /\ IInv /\ [Next]_vars => TypeOK' /\ IInv'
  BY NextTyped, NextKeeps
<1>. QED BY <1>1, InitTyped, InitInvariant, PTL DEF Spec

\* No spec change is lost: once nothing is pending the status speaks of the
\* current generation, whatever the cache, patches, panics and restarts did.
THEOREM NoChangeIsLost == Spec => []SettledIsObserved
<1>1. TypeOK /\ IInv => SettledIsObserved
  BY NoneAssumption DEF IInv, ObservedOrPending, SettledIsObserved, Settled, Managed, Done, SameObject
<1>. QED BY <1>1, TypeCorrect, Invariance, PTL

\* Once nothing is pending the merged document is there and belongs to this very
\* object, unless a user deleted it.
THEOREM MergeIsPublished == Spec => []SettledIsPublished
<1>1. TypeOK /\ IInv => SettledIsPublished
  BY DEF IInv, PublishedOrPending, PublishedFor, SettledIsPublished, Settled, Managed, Done
<1>. QED BY <1>1, TypeCorrect, Invariance, PTL

\* Once nothing is pending no deleted definition is left in the merged document.
THEOREM NoGhosts == Spec => []SettledHasNoGhosts
<1>1. TypeOK /\ IInv => SettledHasNoGhosts
  BY DEF IInv, MergedOrPending, Accounts, SettledHasNoGhosts, Settled, Managed, Done, Listed
<1>. QED BY <1>1, TypeCorrect, Invariance, PTL

\* Once nothing is pending every definition whose document has always been of use
\* is merged.
THEOREM NothingIsLeftOut == Spec => []SettledMergesEverything
<1>1. TypeOK /\ IInv => SettledMergesEverything
  BY DEF IInv, MergedOrPending, Accounts, SettledMergesEverything, Settled, Managed, Done, Listed
<1>. QED BY <1>1, TypeCorrect, Invariance, PTL

-------------------------------------------------------------------------------
(* For each definition the controller implements PublishedDocument.         *)

LEMMA InitImplements ==
  ASSUME Init, NEW d \in Definitions
  PROVE  Republished(d)!DocInit
  BY DEF Init, Republished!DocInit, VersionOf, Published

\* Storing the merged document publishes what the reconciliation holds of d, or
\* withdraws it.
LEMMA StoreImplements ==
  ASSUME TypeOK, IInv, Generated, Store, UNCHANGED served, NEW d \in Definitions
  PROVE  Republished(d)!DocNext
<1> USE NoneAssumption
<1>1. attempt \in Attempt /\ attempt # None
  BY DEF TypeOK, Generated, At
<1>2. Published(d)' = InHand(d) /\ served' = served
  <2>1. configMap' = [owner |-> attempt.copy.uid, parts |-> attempt.parts]
    BY DEF Store
  <2>2. configMap' \in ConfigMap
    BY <1>1, <2>1 DEF Attempt, Object, ConfigMap
  <2>. QED BY <1>1, <2>1, <2>2 DEF Published, InHand
<1>3. CASE InHand(d) = None
  <2>1. Republished(d)!Withdraw(d)
    BY <1>2, <1>3 DEF Republished!Withdraw, VersionOf
  <2>. QED BY <2>1 DEF Republished!DocNext
<1>4. CASE InHand(d) # None
  <2>1. InHand(d).version \in 0..served /\ InHand(d).version \in Nat
    BY <1>1, <1>4 DEF InHand, Attempt, Document, IInv, DocumentsInOrder, TypeOK
  <2>2. VersionOf(d) # None => VersionOf(d) <= InHand(d).version
    BY <1>4 DEF VersionOf, IInv, DocumentsInOrder, InOrder
  <2>3. VersionOf(d)' = InHand(d).version
    BY <1>2, <1>4 DEF VersionOf
  <2>4. Republished(d)!Publish(d)
    BY <1>2, <2>1, <2>2, <2>3 DEF Republished!Publish
  <2>. QED BY <2>4 DEF Republished!DocNext
<1>. QED BY <1>3, <1>4

LEMMA NextImplements ==
  ASSUME TypeOK, IInv, [Next]_vars, NEW d \in Definitions
  PROVE  [Republished(d)!DocNext]_<<served, VersionOf(d)>>
<1> SUFFICES ASSUME ~UNCHANGED <<served, VersionOf(d)>> PROVE Republished(d)!DocNext
  OBVIOUS
<1>1. CASE DeleteConfigMap \/ CollectGarbage
  <2>1. VersionOf(d)' = None /\ UNCHANGED served
    BY <1>1 DEF DeleteConfigMap, CollectGarbage, VersionOf, Published
  <2>2. Republished(d)!Withdraw(d)
    BY <2>1 DEF Republished!Withdraw
  <2>. QED BY <2>2 DEF Republished!DocNext
<1>2. ASSUME NEW e \in Definitions, PublishDocument(e)
      PROVE  Republished(d)!DocNext
  <2>1. served' = served + 1 /\ VersionOf(d)' = VersionOf(d)
    BY <1>2 DEF PublishDocument, VersionOf, Published
  <2>. QED BY <2>1 DEF Republished!DocNext, Republished!Advance
<1>3. CASE (Write \/ WriteFails) /\ Store
  BY <1>3, StoreImplements DEF Write, WriteFails, inputs
<1>4. CASE UNCHANGED <<configMap, served>>
  BY <1>4 DEF VersionOf, Published
<1>. QED BY <1>1, <1>2, <1>3, <1>4
        DEF Next, vars, Users, CreateSpecification, EditSpec, DeleteSpecification,
            DefinitionController, CreateDefinition, DeleteDefinition, WithdrawDocument,
            ChangeStatus, DeliverSpecification, DeliverConfigMap, DeliverDefinition,
            DeliverDocument, Requeue, Start, Skip, Begin, Expire, Read, ReadDocument, LeaveOut,
            Panic, Finish, Write, WriteFails, PatchStatus, PatchFails, Restart

\* What readers find of a definition in the merged document was served by its
\* API and is never replaced by something older.
THEOREM MergedDocumentsAreRecent == Spec => RepublishesRecentDocuments
<1>1. Init => \A d \in Definitions : Republished(d)!DocInit
  BY InitImplements
<1>2. TypeOK /\ IInv /\ [Next]_vars =>
        [\A d \in Definitions : [Republished(d)!DocNext]_<<served, VersionOf(d)>>]_vars
  BY NextImplements
<1>. QED BY <1>1, <1>2, TypeCorrect, Invariance, PTL DEF Spec, RepublishesRecentDocuments

-------------------------------------------------------------------------------
(* The references in the merged document.                                   *)

\* Of the definitions that offer a key the last one provides its value.
LEMMA LatestIsLast ==
  ASSUME NEW S \in SUBSET Definitions, S # {}
  PROVE  Latest(S) \in S /\ \A d \in S : d <= Latest(S)
  BY DefinitionsAssumption DEF Latest

LEMMA LastWinsIsLast ==
  ASSUME NEW maps, DOMAIN maps \subseteq Definitions, NEW key \in DOMAIN LastWins(maps)
  PROVE  \E last \in DOMAIN maps :
           /\ key \in DOMAIN maps[last] /\ LastWins(maps)[key] = maps[last][key]
           /\ \A d \in DOMAIN maps : key \in DOMAIN maps[d] => d <= last
<1> DEFINE Offers == {d \in DOMAIN maps : key \in DOMAIN maps[d]}
<1>1. key \in UNION {DOMAIN maps[d] : d \in DOMAIN maps}
  BY DEF LastWins
<1>2. Latest(Offers) \in Offers /\ \A d \in Offers : d <= Latest(Offers)
  BY <1>1, LatestIsLast
<1>. QED BY <1>1, <1>2 DEF LastWins

\* No key of any definition's map is lost.
LEMMA LastWinsKeeps ==
  ASSUME NEW maps, NEW d \in DOMAIN maps, NEW key \in DOMAIN maps[d]
  PROVE  key \in DOMAIN LastWins(maps)
  BY DEF LastWins

LEMMA LastWinsRefs ==
  ASSUME NEW maps, DOMAIN maps \subseteq Definitions, NEW ref \in RefsIn(LastWins(maps))
  PROVE  \E d \in DOMAIN maps : ref \in RefsIn(maps[d])
<1>1. PICK key \in DOMAIN LastWins(maps) : ref \in LastWins(maps)[key]
  BY DEF RefsIn
<1>. QED BY <1>1, LastWinsIsLast DEF RefsIn

\* Merging documents each of which resolves its references gives one that does:
\* the schemas a reference of one definition means are all there.
LEMMA MergeResolves ==
  ASSUME NEW contents, DOMAIN contents \subseteq Definitions,
         \A d \in DOMAIN contents : Loads(contents[d], d),
         NEW ref \in RefsIn(Merged(contents).paths) \cup RefsIn(Merged(contents).schemas)
  PROVE  ref.section = "schemas" /\ ref.name \in DOMAIN Merged(contents).schemas
<1> DEFINE paths == [d \in DOMAIN contents |-> Paths(contents[d], d)]
           schemas == [d \in DOMAIN contents |-> Schemas(contents[d], d)]
<1>1. Merged(contents).paths = LastWins(paths) /\ Merged(contents).schemas = LastWins(schemas)
  BY DEF Merged
<1>2. \E d \in DOMAIN contents : ref \in RefsIn(paths[d]) \cup RefsIn(schemas[d])
  <2> HIDE DEF paths, schemas
  <2>1. DOMAIN paths = DOMAIN contents /\ DOMAIN schemas = DOMAIN contents
    BY DEF paths, schemas
  <2>. QED BY <1>1, <2>1, LastWinsRefs
<1>3. PICK d \in DOMAIN contents :
        ref \in RefsIn(Paths(contents[d], d)) \cup RefsIn(Schemas(contents[d], d))
  BY <1>2
<1>4. ref.section = "schemas" /\ ref.name \in DOMAIN schemas[d]
  BY <1>3 DEF Loads
<1> HIDE DEF paths, schemas
<1>5. DOMAIN schemas = DOMAIN contents
  BY DEF schemas
<1>. QED BY <1>1, <1>4, <1>5, LastWinsKeeps

\* Every reference in the merged document can be followed in it.
THEOREM EveryReferenceResolves == Spec => []MergedResolves
<1>1. IInv => MergedResolves
  <2> SUFFICES ASSUME IInv, configMap # None PROVE MergedResolves
    BY DEF MergedResolves
  <2> DEFINE contents == [d \in Sources(configMap.parts) |-> configMap.parts[d].content]
  <2>1. \A d \in DOMAIN contents : Loads(contents[d], d)
    BY DEF Sources, IInv, EverythingLoads, PartsLoad
  <2>2. DOMAIN contents \subseteq Definitions
    BY DEF Sources
  <2>3. MergedDocument(configMap.parts) = Merged(contents)
    BY DEF MergedDocument
  <2> HIDE DEF contents
  <2>. QED BY <2>1, <2>2, <2>3, MergeResolves DEF MergedResolves
<1>. QED BY <1>1, Invariance, PTL

-------------------------------------------------------------------------------
(* What becomes of the paths of each definition.                            *)

\* No path of a definition is lost, and where several definitions serve the same
\* the last of them in the order of their names provides it.
THEOREM LastDefinitionWins ==
  ASSUME NEW contents, DOMAIN contents \subseteq Definitions,
         NEW d \in DOMAIN contents, NEW path \in DOMAIN Paths(contents[d], d)
  PROVE  /\ path \in DOMAIN Merged(contents).paths
         /\ \E last \in DOMAIN contents :
              /\ path \in DOMAIN Paths(contents[last], last)
              /\ Merged(contents).paths[path] = Paths(contents[last], last)[path]
              /\ \A e \in DOMAIN contents : path \in DOMAIN Paths(contents[e], e) => e <= last
<1> DEFINE paths == [e \in DOMAIN contents |-> Paths(contents[e], e)]
<1>1. Merged(contents).paths = LastWins(paths)
  BY DEF Merged
<1>2. DOMAIN paths = DOMAIN contents /\ \A e \in DOMAIN contents : paths[e] = Paths(contents[e], e)
  OBVIOUS
<1> HIDE DEF paths
<1>3. path \in DOMAIN LastWins(paths)
  BY <1>2, LastWinsKeeps
<1>. QED BY <1>1, <1>2, <1>3, LastWinsIsLast

\* Once nothing is pending no path of a usable definition is missing from the merged
\* document.
THEOREM EveryPathIsServed == Spec => []SettledServesEveryPath
<1>1. SettledMergesEverything => SettledServesEveryPath
  <2> SUFFICES ASSUME SettledMergesEverything, Settled, Managed, configMap # None,
                      NEW d \in Definitions \ unusable, definition[d] # None
               PROVE  /\ configMap.parts[d] # None
                      /\ DOMAIN Paths(configMap.parts[d].content, d) \subseteq
                           DOMAIN MergedDocument(configMap.parts).paths
    BY DEF SettledServesEveryPath
  <2> DEFINE contents == [e \in Sources(configMap.parts) |-> configMap.parts[e].content]
  <2>1. d \in Sources(configMap.parts)
    BY DEF SettledMergesEverything
  <2>2. /\ DOMAIN contents \subseteq Definitions /\ d \in DOMAIN contents
        /\ contents[d] = configMap.parts[d].content
    BY <2>1 DEF Sources
  <2>3. MergedDocument(configMap.parts) = Merged(contents)
    BY DEF MergedDocument
  <2> HIDE DEF contents
  <2>4. \A path \in DOMAIN Paths(contents[d], d) : path \in DOMAIN Merged(contents).paths
    BY <2>2, LastDefinitionWins
  <2>. QED BY <2>1, <2>2, <2>3, <2>4 DEF Sources
<1>. QED BY <1>1, NothingIsLeftOut, PTL

===============================================================================
