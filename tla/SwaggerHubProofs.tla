---------------------------- MODULE SwaggerHubProofs ----------------------------
(***************************************************************************)
(* Theorems about SwaggerHub, for every set of hubs, specs and workers and *)
(* every bound on the disturbances.                                        *)
(***************************************************************************)
EXTENDS SwaggerHubProperties, TLAPS

USE DEF work

-------------------------------------------------------------------------------
(* Type correctness.                                                        *)

LEMMA NewHubTyped ==
  ASSUME NEW uid \in Nat, NEW spec \in Specs
  PROVE  NewHub(uid, spec) \in Hub
  BY DEF NewHub, Hub, NoConditions, Conditions

LEMMA ComputedTyped ==
  ASSUME NEW a \in Attempt
  PROVE  Computed(a) \in Hub
<1> DEFINE now == [outcome |-> a.outcome, generation |-> a.copy.generation]
<1>1. a.copy \in Hub /\ a.outcome \in Outcomes /\ a.copy.conditions \in Conditions
  BY DEF Attempt, Hub
<1>2. now \in Condition /\ [now EXCEPT !.outcome = "ok"] \in Condition
  BY <1>1 DEF Hub, Condition, Outcomes
<1>3. Computed(a).conditions \in Conditions
  BY <1>1, <1>2 DEF Computed, Conditions, Hub
<1>. QED BY <1>1, <1>3 DEF Computed, Hub

LEMMA PatchedTyped ==
  ASSUME NEW a \in Attempt, NEW server \in Hub, NEW latest
  PROVE  Patched(server, latest, Computed(a)) \in Hub
  BY ComputedTyped DEF Patched, MergeField, Hub

LEMMA PutTyped ==
  ASSUME TypeOK, NEW h \in Hubs, NEW k \in Kinds, NEW o \in Object \cup {None}, Put(h, k, o)
  PROVE  object' \in [Hubs -> [Kinds -> Object \cup {None}]] /\ unseen' \subseteq Event
<1>1. object' = [object EXCEPT ![h] = [object[h] EXCEPT ![k] = o]]
  BY DEF Put, TypeOK
<1>2. (Controlled(object[h][k]) \/ Controlled(o)) \in BOOLEAN
  BY DEF Controlled
<1>3. object[h] \in [Kinds -> Object \cup {None}]
  BY DEF TypeOK
<1>4. [object[h] EXCEPT ![k] = o] \in [Kinds -> Object \cup {None}]
  BY <1>3
<1>5. object' \in [Hubs -> [Kinds -> Object \cup {None}]]
  BY <1>1, <1>4 DEF TypeOK
<1>6. unseen' \subseteq Event
  <2>1. PICK controlled \in BOOLEAN :
          unseen' = IF object[h][k] = o THEN unseen ELSE unseen \cup {<<h, k, controlled>>}
    BY <1>2, Zenon DEF Put
  <2>. QED BY <2>1 DEF TypeOK, Event
<1>. QED BY <1>5, <1>6

LEMMA InitTyped == Init => TypeOK
  BY MaxClockAssumption DEF Init, TypeOK, Nothing

LEMMA UsersTyped ==
  ASSUME TypeOK, NEW h \in Hubs, Users(h)
  PROVE  TypeOK'
<1> USE NoneAssumption, MaxClockAssumption DEF Tick
<1>1. CASE CreateHub(h)
  <2>1. \A spec \in Specs : NewHub(clock + 1, spec) \in Hub
    BY NewHubTyped DEF TypeOK
  <2>. QED BY <1>1, <2>1 DEF TypeOK, CreateHub
<1>2. CASE EditHub(h)
  <2>1. PICK spec \in Specs : hub' = [hub EXCEPT ![h].spec = spec, ![h].generation = @ + 1]
    BY <1>2 DEF EditHub
  <2>2. hub[h] \in Hub
    BY <1>2 DEF EditHub, TypeOK
  <2>3. hub' = [hub EXCEPT ![h] =
          [hub[h] EXCEPT !.spec = spec, !.generation = hub[h].generation + 1]]
    BY <2>1, <2>2 DEF TypeOK, Hub
  <2>4. hub[h].generation + 1 \in Nat
    BY <2>2 DEF Hub
  <2>5. [hub[h] EXCEPT !.spec = spec, !.generation = hub[h].generation + 1] \in Hub
    BY <2>2, <2>4 DEF Hub
  <2>6. hub' \in [Hubs -> Hub \cup {None}]
    BY <2>3, <2>5 DEF TypeOK
  <2>. QED BY <1>2, <2>6 DEF TypeOK, EditHub
<1>3. CASE DeleteHub(h)
  BY <1>3 DEF TypeOK, DeleteHub
<1>4. CASE Tamper(h)
  <2>1. object[h]["deployment"] \in Object
    BY <1>4 DEF Tamper, TypeOK, Kinds
  <2>2. [object[h]["deployment"] EXCEPT !.template = 0] \in Object
    BY <2>1 DEF Object
  <2>. QED BY <1>4, <2>2, PutTyped DEF TypeOK, Tamper, Kinds
<1>5. CASE Flip(h)
  <2>1. object[h]["deployment"] \in Object
    BY <1>5 DEF Flip, TypeOK, Kinds
  <2>2. [object[h]["deployment"] EXCEPT !.ready = ~@] \in Object
    BY <2>1 DEF Object
  <2>. QED BY <1>5, <2>2, PutTyped DEF TypeOK, Flip, Kinds
<1>. QED BY <1>1, <1>2, <1>3, <1>4, <1>5 DEF Users

LEMMA ObjectsTyped ==
  ASSUME TypeOK, NEW h \in Hubs, NEW k \in Kinds, Intruders(h, k) \/ Cluster(h, k)
  PROVE  TypeOK'
<1> USE MaxClockAssumption DEF Tick
<1>1. CASE Intrude(h, k)
  <2>1. [owner |-> Stranger, template |-> 0, applied |-> FALSE, ready |-> FALSE] \in Object
    BY DEF Object, Stranger
  <2>. QED BY <1>1, <2>1, PutTyped DEF TypeOK, Intrude
<1>2. CASE DeleteObject(h, k) \/ CollectGarbage(h, k)
  BY <1>2, PutTyped DEF TypeOK, DeleteObject, CollectGarbage, Remove
<1>3. CASE DeliverObject(h, k)
  BY <1>3 DEF TypeOK, DeliverObject
<1>. QED BY <1>1, <1>2, <1>3 DEF Intruders, Cluster

LEMMA StartTyped ==
  ASSUME TypeOK, NEW w \in Workers, NEW h \in Hubs, Start(w, h)
  PROVE  TypeOK'
<1>1. CASE Begin(w, h)
  <2>1. cachedHub[h] \in Hub
    BY <1>1 DEF Begin, TypeOK
  <2>2. [key |-> h, stage |-> IF cachedHub[h].spec.valid THEN "service" ELSE "patch",
         copy |-> cachedHub[h],
         outcome |-> IF cachedHub[h].spec.valid THEN "ok" ELSE "failed"] \in Attempt
    BY <2>1 DEF Attempt, Kinds, Outcomes
  <2>. QED BY <1>1, <2>2 DEF TypeOK, Begin
<1>2. CASE Skip(w, h)
  BY <1>2 DEF TypeOK, Skip
<1>. QED BY <1>1, <1>2 DEF Start

\* What a worker may write into its record.
LEMMA ConcludeTyped ==
  ASSUME TypeOK, NEW w \in Workers, attempt[w] \in Attempt,
         NEW outcome \in Outcomes, Conclude(w, outcome)
  PROVE  attempt' \in [Workers -> Attempt \cup {None}]
<1>1. attempt' = [attempt EXCEPT ![w] =
        [attempt[w] EXCEPT !.stage = "patch", !.outcome = outcome]]
  BY DEF Conclude, TypeOK, Attempt
<1>2. [attempt[w] EXCEPT !.stage = "patch", !.outcome = outcome] \in Attempt
  BY DEF Attempt
<1>. QED BY <1>1, <1>2 DEF TypeOK

LEMMA AfterTyped ==
  ASSUME TypeOK, NEW w \in Workers, attempt[w] \in Attempt, After(w)
  PROVE  attempt' \in [Workers -> Attempt \cup {None}]
<1>1. ASSUME NEW stage \in {"deployment", "health"},
             attempt' = [attempt EXCEPT ![w].stage = stage]
      PROVE  attempt' \in [Workers -> Attempt \cup {None}]
  <2>1. attempt' = [attempt EXCEPT ![w] = [attempt[w] EXCEPT !.stage = stage]]
    BY <1>1 DEF TypeOK, Attempt
  <2>2. [attempt[w] EXCEPT !.stage = stage] \in Attempt
    BY DEF Attempt, Kinds
  <2>. QED BY <2>1, <2>2 DEF TypeOK
<1>2. CASE Conclude(w, "ok")
  BY <1>2, ConcludeTyped DEF Outcomes
<1>. QED BY <1>1, <1>2 DEF After

LEMMA WrittenTyped ==
  ASSUME TypeOK, NEW w \in Workers, attempt[w] \in Attempt, NEW k \in Kinds
  PROVE  Written(w, k) \in Object
<1>1. PICK h \in Hubs : h = attempt[w].key
  BY DEF Attempt
<1>2. (object[h][k] # None /\ object[h][k].ready) \in BOOLEAN
  BY DEF TypeOK, Object
<1>3. attempt[w].copy.uid \in Nat /\ attempt[w].copy.generation \in Nat
  BY DEF Attempt, Hub
<1>. QED BY <1>1, <1>2, <1>3 DEF Written, Object

LEMMA SendPatchTyped ==
  ASSUME TypeOK, NEW w \in Workers, attempt[w] \in Attempt, PatchAccepted(w), SendPatch(w)
  PROVE  hub' \in [Hubs -> Hub \cup {None}]
<1>1. PICK h \in Hubs : h = attempt[w].key
  BY DEF Attempt
<1>2. hub[h] \in Hub
  BY <1>1 DEF PatchAccepted, TypeOK
<1>3. Patched(hub[h], cachedHub[h], Computed(attempt[w])) \in Hub
  BY <1>2, PatchedTyped
<1>. QED BY <1>1, <1>3 DEF SendPatch, TypeOK

LEMMA AdvanceTyped ==
  ASSUME TypeOK, NEW w \in Workers, Advance(w)
  PROVE  TypeOK'
<1> USE NoneAssumption, MaxClockAssumption DEF Tick
<1>1. attempt[w] \in Attempt /\ attempt[w].key \in Hubs
  BY DEF TypeOK, Advance, Write, WriteFails, CheckHealth, PatchStatus, PatchFails, At, Attempt
<1>2. ASSUME NEW k \in Kinds, Write(w, k)
      PROVE  TypeOK'
  <2>1. Written(w, k) \in Object /\ attempt' \in [Workers -> Attempt \cup {None}]
    BY <1>1, <1>2, WrittenTyped, AfterTyped DEF Write
  <2>. QED BY <1>1, <1>2, <2>1, PutTyped DEF TypeOK, Write
<1>3. ASSUME NEW k \in Kinds, WriteFails(w, k)
      PROVE  TypeOK'
  <2>1. Written(w, k) \in Object /\ attempt' \in [Workers -> Attempt \cup {None}]
    BY <1>1, <1>3, WrittenTyped, ConcludeTyped DEF WriteFails, Outcomes
  <2>2. object' \in [Hubs -> [Kinds -> Object \cup {None}]] /\ unseen' \subseteq Event
    BY <1>1, <1>3, <2>1, PutTyped DEF WriteFails, TypeOK
  <2>3. clock' \in 0..MaxClock
    BY <1>3 DEF WriteFails, TypeOK
  <2>. QED BY <1>3, <2>1, <2>2, <2>3 DEF TypeOK, WriteFails
<1>4. CASE CheckHealth(w)
  <2>1. attempt' \in [Workers -> Attempt \cup {None}]
    BY <1>1, <1>4, ConcludeTyped DEF CheckHealth, Outcomes
  <2>. QED BY <1>4, <2>1 DEF TypeOK, CheckHealth
<1>5. CASE PatchStatus(w)
  <2>1. hub' \in [Hubs -> Hub \cup {None}]
    BY <1>1, <1>5, SendPatchTyped DEF PatchStatus
  <2>. QED BY <1>1, <1>5, <2>1 DEF TypeOK, PatchStatus
<1>6. CASE PatchFails(w)
  <2>1. hub' \in [Hubs -> Hub \cup {None}]
    BY <1>1, <1>6, SendPatchTyped DEF PatchFails, TypeOK
  <2>2. clock' \in 0..MaxClock
    BY <1>6 DEF PatchFails, TypeOK
  <2>. QED BY <1>1, <1>6, <2>1, <2>2 DEF TypeOK, PatchFails
<1>. QED BY <1>2, <1>3, <1>4, <1>5, <1>6 DEF Advance

LEMMA NextTyped == TypeOK /\ [Next]_vars => TypeOK'
<1> SUFFICES ASSUME TypeOK, [Next]_vars PROVE TypeOK'
  OBVIOUS
<1>1. ASSUME NEW h \in Hubs, DeliverHub(h) \/ Requeue(h)
      PROVE  TypeOK'
  BY <1>1 DEF TypeOK, DeliverHub, Requeue
<1>2. CASE Restart
  BY <1>2, MaxClockAssumption DEF Restart, TypeOK, Tick
<1>3. CASE UNCHANGED vars
  BY <1>3 DEF vars, TypeOK
<1>. QED BY <1>1, <1>2, <1>3, UsersTyped, ObjectsTyped, StartTyped, AdvanceTyped DEF Next

\* Every variable keeps to its type, and the clock to its bound.
THEOREM TypeCorrect == Spec => []TypeOK
  BY InitTyped, NextTyped, PTL DEF Spec

-------------------------------------------------------------------------------
(* The conditions on the server.                                            *)

\* Whatever copy they are computed from, conditions are consistent in themselves.
LEMMA ComputedAgree ==
  ASSUME NEW a \in Attempt
  PROVE  Agree(Computed(a).conditions)
  BY DEF Computed, Agree, Attempt, Hub

\* The patch replaces the list of conditions or leaves it: it mixes no two.
LEMMA SendPatchAgrees ==
  ASSUME TypeOK, ConditionsAgree, NEW w \in Workers, attempt[w] \in Attempt,
         PatchAccepted(w), SendPatch(w)
  PROVE  ConditionsAgree'
<1>1. PICK h \in Hubs : h = attempt[w].key
  BY DEF Attempt
<1>2. hub[h] \in Hub /\ Agree(hub[h].conditions)
  BY <1>1 DEF PatchAccepted, TypeOK, ConditionsAgree
<1>3. hub'[h].conditions \in {hub[h].conditions, Computed(attempt[w]).conditions}
  BY <1>1, <1>2 DEF SendPatch, Patched, MergeField, TypeOK, Hub
<1>4. Agree(hub'[h].conditions)
  BY <1>2, <1>3, ComputedAgree
<1>5. \A g \in Hubs \ {h} : hub'[g] = hub[g]
  BY <1>1 DEF SendPatch, TypeOK
<1>. QED BY <1>4, <1>5 DEF ConditionsAgree

LEMMA NextAgrees == TypeOK /\ ConditionsAgree /\ [Next]_vars => ConditionsAgree'
<1> SUFFICES ASSUME TypeOK, ConditionsAgree, [Next]_vars PROVE ConditionsAgree'
  OBVIOUS
<1>1. ASSUME NEW h \in Hubs, CreateHub(h)
      PROVE  ConditionsAgree'
  <2>1. \A spec \in Specs : Agree(NewHub(clock + 1, spec).conditions)
    BY DEF Agree, NewHub, NoConditions
  <2>. QED BY <1>1, <2>1 DEF CreateHub, ConditionsAgree, TypeOK
<1>2. ASSUME NEW h \in Hubs, EditHub(h)
      PROVE  ConditionsAgree'
  BY <1>2 DEF EditHub, ConditionsAgree, TypeOK, Hub
<1>3. ASSUME NEW h \in Hubs, DeleteHub(h)
      PROVE  ConditionsAgree'
  BY <1>3 DEF DeleteHub, ConditionsAgree, TypeOK
<1>4. ASSUME NEW w \in Workers, PatchStatus(w) \/ PatchFails(w)
      PROVE  ConditionsAgree'
  <2>1. attempt[w] \in Attempt
    BY <1>4 DEF PatchStatus, PatchFails, At, TypeOK
  <2>. QED BY <1>4, <2>1, SendPatchAgrees DEF PatchStatus, PatchFails, ConditionsAgree
<1>5. CASE UNCHANGED hub
  BY <1>5 DEF ConditionsAgree
<1>6. \/ UNCHANGED hub
      \/ \E h \in Hubs : CreateHub(h) \/ EditHub(h) \/ DeleteHub(h)
      \/ \E w \in Workers : PatchStatus(w) \/ PatchFails(w)
  BY DEF Next, vars, Users, Intruders, Cluster, Advance, Start, Tamper, Flip, Intrude,
         DeleteObject, Remove, CollectGarbage, DeliverHub, DeliverObject, Requeue, Skip, Begin,
         Write, WriteFails, CheckHealth, Restart
<1>. QED BY <1>1, <1>2, <1>3, <1>4, <1>5, <1>6

\* A hub that is Ready is neither Reconciling nor unhealthy.
THEOREM ReadyIsConsistent == Spec => []ConditionsAgree
<1>1. Init => ConditionsAgree
  BY DEF Init, ConditionsAgree
<1>. QED BY <1>1, NextAgrees, TypeCorrect, PTL DEF Spec

-------------------------------------------------------------------------------
(* The inductive invariant.  One lemma per group of actions; what several    *)
(* actions have in common, that events follow writes, comes first.           *)

LEMMA InitInvariant == Init => IInv
  BY DEF Init, IInv, Exclusive, CopiesInOrder, Precedes, StatusTrails, SameHub, ObservedOrPending,
         Done, RolledOutOrPending, FailureEnds, RendersInOrder, RenderedFrom, Nothing, Kinds

\* A write changes one object, and if that has or had a controller an event is on
\* its way that names it.
LEMMA PutNotifies ==
  ASSUME TypeOK, NEW h \in Hubs, NEW k \in Kinds, NEW o \in Object \cup {None}, Put(h, k, o)
  PROVE  /\ object'[h][k] = o
         /\ \A g \in Hubs, j \in Kinds : g # h \/ j # k => object'[g][j] = object[g][j]
         /\ unseen \subseteq unseen'
         /\ \A g \in Hubs, j \in Kinds : Controlled(object[g][j]) =>
              object'[g][j] = object[g][j] \/ <<g, j, TRUE>> \in unseen'
<1>1. object' = [object EXCEPT ![h] = [object[h] EXCEPT ![k] = o]]
  BY DEF Put, TypeOK
<1>2. /\ object'[h][k] = o
      /\ \A g \in Hubs, j \in Kinds : g # h \/ j # k => object'[g][j] = object[g][j]
  BY <1>1 DEF TypeOK
<1>3. unseen \subseteq unseen'
  BY DEF Put
<1>4. ASSUME Controlled(object[h][k]), object[h][k] # o
      PROVE  <<h, k, TRUE>> \in unseen'
  <2>1. (Controlled(object[h][k]) \/ Controlled(o)) = TRUE
    BY <1>4, Zenon DEF Controlled
  <2>2. unseen' = unseen \cup {<<h, k, Controlled(object[h][k]) \/ Controlled(o)>>}
    BY <1>4, Zenon DEF Put
  <2>3. <<h, k, Controlled(object[h][k]) \/ Controlled(o)>> = <<h, k, TRUE>>
    BY <2>1, Zenon
  <2>. QED BY <2>2, <2>3, Zenon
<1>. QED BY <1>2, <1>3, <1>4

\* Users change the hub on the server only.
LEMMA UsersKeep ==
  ASSUME TypeOK, TypeOK', IInv, NEW h \in Hubs, CreateHub(h) \/ EditHub(h) \/ DeleteHub(h)
  PROVE  IInv'
<1> USE NoneAssumption
<1>1. /\ clock' = clock + 1 /\ UNCHANGED <<cachedHub, object, cachedObject, unseen, work>>
      /\ \A g \in Hubs \ {h} : hub'[g] = hub[g]
  BY DEF CreateHub, EditHub, DeleteHub, Tick, TypeOK
<1>2. \/ hub'[h] = None
      \/ hub[h] = None /\ hub'[h] # None /\ hub'[h].uid = clock + 1
      \/ /\ hub[h] # None /\ hub'[h] # None
         /\ hub'[h].uid = hub[h].uid /\ hub'[h].generation = hub[h].generation + 1
         /\ hub'[h].observed = hub[h].observed /\ hub'[h].conditions = hub[h].conditions
  <2>1. CASE CreateHub(h)
    <3>1. PICK spec \in Specs : hub' = [hub EXCEPT ![h] = NewHub(clock + 1, spec)]
      BY <2>1 DEF CreateHub
    <3>2. hub'[h] = NewHub(clock + 1, spec) /\ hub'[h] # None
      BY <3>1, NewHubTyped DEF TypeOK
    <3>. QED BY <2>1, <3>2 DEF CreateHub, NewHub
  <2>2. CASE EditHub(h)
    <3>1. PICK spec \in Specs : hub' = [hub EXCEPT ![h].spec = spec, ![h].generation = @ + 1]
      BY <2>2 DEF EditHub
    <3>2. hub[h] \in Hub
      BY <2>2 DEF EditHub, TypeOK
    <3>3. hub'[h] = [hub[h] EXCEPT !.spec = spec, !.generation = hub[h].generation + 1]
      BY <3>1, <3>2 DEF TypeOK, Hub
    <3>4. hub[h].generation + 1 \in Nat
      BY <3>2 DEF Hub
    <3>5. hub'[h] \in Hub
      BY <3>2, <3>3, <3>4 DEF Hub
    <3>. QED BY <3>2, <3>3, <3>5 DEF Hub
  <2>3. CASE DeleteHub(h)
    BY <2>3 DEF DeleteHub, TypeOK
  <2>. QED BY <2>1, <2>2, <2>3
<1>3. Exclusive' /\ RolledOutOrPending' /\ FailureEnds'
  BY <1>1 DEF IInv, Exclusive, RolledOutOrPending, FailureEnds, InPlace, Done, Busy
<1>4. \A g \in Hubs : SameHub(g)' =>
        /\ SameHub(g) /\ hub'[g].observed = hub[g].observed
        /\ hub'[g].conditions = hub[g].conditions
  <2>1. cachedHub[h] # None => cachedHub[h].uid # clock + 1
    BY DEF IInv, CopiesInOrder, TypeOK
  <2>2. SameHub(h)' =>
          /\ SameHub(h) /\ hub'[h].observed = hub[h].observed
          /\ hub'[h].conditions = hub[h].conditions
    BY <1>1, <1>2, <2>1 DEF SameHub
  <2>. QED BY <1>1, <2>2 DEF SameHub
<1>5. StatusTrails' /\ ObservedOrPending'
  BY <1>1, <1>4 DEF IInv, StatusTrails, ObservedOrPending, Done, Busy
<1>6. CopiesInOrder'
  <2>1. /\ cachedHub[h] # None => cachedHub[h].uid \in Nat /\ cachedHub[h].generation \in Nat
        /\ hub[h] # None => hub[h].uid \in Nat /\ hub[h].generation \in Nat
        /\ clock \in Nat
        /\ \A w \in Workers : attempt[w] # None =>
             attempt[w].copy.uid \in Nat /\ attempt[w].copy.generation \in Nat
    BY DEF TypeOK, Hub, Attempt
  <2>2. Precedes(cachedHub[h], hub'[h])
    BY <1>2, <2>1 DEF IInv, CopiesInOrder, Precedes
  <2>3. \A w \in Workers : attempt[w] # None /\ attempt[w].key = h =>
          Precedes(attempt[w].copy, hub'[h])
    BY <1>2, <2>1 DEF IInv, CopiesInOrder, Precedes
  <2>4. \A c : c # None /\ c.uid \in 1..clock => c.uid \in 1..(clock + 1)
    BY <2>1
  <2>5. hub'[h] # None => hub'[h].uid \in 1..(clock + 1)
    BY <1>2, <2>1 DEF IInv, CopiesInOrder
  <2>. QED BY <1>1, <2>1, <2>2, <2>3, <2>5 DEF IInv, CopiesInOrder, Precedes
<1>7. RendersInOrder'
  <2>1. object[h]["deployment"] # None =>
          object[h]["deployment"].owner \in Nat /\ object[h]["deployment"].template \in Nat
    BY DEF TypeOK, Kinds, Object
  <2>2. RenderedFrom(h, hub'[h])
    BY <1>2, <2>1 DEF IInv, RendersInOrder, RenderedFrom, TypeOK, Hub
  <2>3. \A g \in Hubs : object[g]["deployment"] # None => object[g]["deployment"].owner \in Nat
    BY DEF TypeOK, Kinds, Object
  <2>4. clock \in Nat /\ clock' = clock + 1 /\ object' = object
    BY <1>1 DEF TypeOK
  <2>5. \A g \in Hubs : object'[g]["deployment"] # None => object'[g]["deployment"].owner <= clock'
    BY <2>3, <2>4 DEF IInv, RendersInOrder
  <2>6. \A g \in Hubs : RenderedFrom(g, hub[g]) /\ RenderedFrom(g, cachedHub[g])
    BY DEF IInv, RendersInOrder
  <2>7. \A g \in Hubs : RenderedFrom(g, hub'[g])
    BY <1>1, <2>2, <2>6
  <2>8. \A g \in Hubs : RenderedFrom(g, hub[g])' /\ RenderedFrom(g, cachedHub[g])'
    BY <1>1, <2>4, <2>6, <2>7 DEF RenderedFrom
  <2>9. \A w \in Workers : attempt'[w] # None => RenderedFrom(attempt[w].key, attempt[w].copy)'
    BY <1>1, <2>4 DEF IInv, RendersInOrder, RenderedFrom, work
  <2>. QED BY <2>5, <2>8, <2>9 DEF RendersInOrder
<1>. QED BY <1>3, <1>5, <1>6, <1>7 DEF IInv

\* What users, pods, strangers and the garbage collector do to an object: it keeps
\* its owner and gets no newer, or it goes or is a stranger's; if it had a
\* controller its event is on its way.
LEMMA ObjectsChangeKeeps ==
  ASSUME TypeOK, TypeOK', IInv, clock' \in {clock, clock + 1}, UNCHANGED <<hub, cachedHub, work>>,
         NEW h \in Hubs, NEW k \in Kinds, NEW o \in Object \cup {None}, Put(h, k, o),
         o # None /\ k = "deployment" =>
           \/ o.owner = Stranger
           \/ /\ object[h][k] # None /\ o.owner = object[h][k].owner
              /\ o.template \in {0, object[h][k].template}
  PROVE  IInv'
<1> USE NoneAssumption
<1>1. /\ clock \in Nat
      /\ \A g \in Hubs, c \in {hub[h], cachedHub[h]} :
           c # None => c.uid \in Nat /\ c.generation \in Nat
  BY DEF TypeOK, Hub
<1>2. Exclusive' /\ StatusTrails' /\ ObservedOrPending' /\ FailureEnds'
  BY DEF IInv, Exclusive, StatusTrails, ObservedOrPending, FailureEnds, SameHub, Done, Busy
<1>3. CopiesInOrder'
  BY DEF IInv, CopiesInOrder, Precedes, TypeOK
<1>4. /\ unseen \subseteq unseen'
      /\ \A g \in Hubs, j \in Kinds : object[g][j] # None /\ object[g][j].owner # Stranger =>
           object'[g][j] = object[g][j] \/ <<g, j, TRUE>> \in unseen'
      /\ object'[h][k] = o
      /\ \A g \in Hubs, j \in Kinds : g # h \/ j # k => object'[g][j] = object[g][j]
  BY PutNotifies DEF Controlled
<1>5. RolledOutOrPending'
  <2>1. ASSUME NEW g \in Hubs, Done(g)'
        PROVE  cachedHub[g].spec.valid /\ \A j \in Kinds : InPlace(g, j, cachedHub[g])'
    <3>1. Done(g) /\ cachedHub[g].uid # Stranger
      BY <2>1 DEF Done, Busy, IInv, CopiesInOrder, Stranger, TypeOK
    <3>2. cachedHub[g].spec.valid /\ \A j \in Kinds : InPlace(g, j, cachedHub[g])
      BY <3>1 DEF IInv, RolledOutOrPending
    <3>. QED BY <1>4, <3>1, <3>2 DEF InPlace
  <2>2. ASSUME NEW w \in Workers, attempt[w] # None, attempt[w].outcome # "failed"
        PROVE  LET a == attempt[w] IN
               /\ a.copy.spec.valid
               /\ a.stage # "service" => InPlace(a.key, "service", a.copy)'
               /\ a.stage \in {"health", "patch"} => InPlace(a.key, "deployment", a.copy)'
    <3>1. attempt[w].key \in Hubs /\ attempt[w].copy.uid # Stranger
      BY <2>2 DEF IInv, CopiesInOrder, Stranger, TypeOK, Attempt
    <3>2. LET a == attempt[w] IN
          /\ a.copy.spec.valid
          /\ a.stage # "service" => InPlace(a.key, "service", a.copy)
          /\ a.stage \in {"health", "patch"} => InPlace(a.key, "deployment", a.copy)
      BY <2>2 DEF IInv, RolledOutOrPending
    <3>. QED BY <1>4, <3>1, <3>2 DEF InPlace, Kinds
  <2>. QED BY <2>1, <2>2 DEF RolledOutOrPending
<1>6. RendersInOrder'
  <2>1. \A g \in Hubs : object[g]["deployment"] # None =>
          object[g]["deployment"].owner \in Nat /\ object[g]["deployment"].template \in Nat
    BY DEF TypeOK, Kinds, Object
  <2>2. \A g \in Hubs :
          \/ object'[g]["deployment"] \in {None, object[g]["deployment"]}
          \/ object'[g]["deployment"].owner = Stranger
          \/ /\ object[g]["deployment"] # None
             /\ object'[g]["deployment"].owner = object[g]["deployment"].owner
             /\ object'[g]["deployment"].template \in {0, object[g]["deployment"].template}
    <3>1. TAKE g \in Hubs
    <3>2. CASE g = h /\ k = "deployment"
      <4>1. object'[g]["deployment"] = o /\ (o # None => o.owner = Stranger
              \/ /\ object[g]["deployment"] # None /\ o.owner = object[g]["deployment"].owner
                 /\ o.template \in {0, object[g]["deployment"].template})
        BY <1>4, <3>2
      <4>. QED BY <4>1
    <3>3. CASE g # h \/ k # "deployment"
      <4>1. object'[g]["deployment"] = object[g]["deployment"]
        BY <1>4, <3>3 DEF Kinds
      <4>. QED BY <4>1
    <3>. QED BY <3>2, <3>3
  <2>3. \A g \in Hubs :
          /\ object'[g]["deployment"] # None => object'[g]["deployment"].owner <= clock'
          /\ \A c : c # None /\ c.uid # Stranger /\ c.generation \in Nat /\ RenderedFrom(g, c) =>
               (object'[g]["deployment"] # None /\ object'[g]["deployment"].owner = c.uid =>
                  object'[g]["deployment"].template <= c.generation)
    BY <1>1, <2>1, <2>2 DEF IInv, RendersInOrder, RenderedFrom, Stranger
  <2>4. \A g \in Hubs : \A c \in {hub[g], cachedHub[g]} :
          c # None => c.uid # Stranger /\ c.generation \in Nat
    BY DEF IInv, CopiesInOrder, Stranger, TypeOK, Hub
  <2>5. \A w \in Workers : attempt[w] # None =>
          /\ attempt[w].key \in Hubs /\ attempt[w].copy # None
          /\ attempt[w].copy.uid # Stranger /\ attempt[w].copy.generation \in Nat
    BY DEF IInv, CopiesInOrder, Stranger, TypeOK, Attempt, Hub
  <2>. QED BY <2>3, <2>4, <2>5 DEF IInv, RendersInOrder, RenderedFrom
<1>. QED BY <1>2, <1>3, <1>5, <1>6 DEF IInv

LEMMA ObjectsKeep ==
  ASSUME TypeOK, TypeOK', IInv, NEW h \in Hubs, NEW k \in Kinds,
         Tamper(h) \/ Flip(h) \/ Intruders(h, k) \/ CollectGarbage(h, k)
  PROVE  IInv'
<1> USE DEF Tick
<1>1. CASE Tamper(h)
  <2>1. object[h]["deployment"] \in Object
    BY <1>1 DEF Tamper, TypeOK, Kinds
  <2>2. [object[h]["deployment"] EXCEPT !.template = 0] \in Object
    BY <2>1 DEF Object
  <2>. QED BY <1>1, <2>1, <2>2, ObjectsChangeKeeps DEF Tamper, Kinds, Object
<1>2. CASE Flip(h)
  <2> DEFINE flipped == [object[h]["deployment"] EXCEPT !.ready = ~@]
  <2>1. object[h]["deployment"] \in Object
    BY <1>2 DEF Flip, TypeOK, Kinds
  <2>2. /\ flipped \in Object /\ flipped.owner = object[h]["deployment"].owner
        /\ flipped.template = object[h]["deployment"].template
    BY <2>1 DEF Object
  <2>3. Put(h, "deployment", flipped)
    BY <1>2 DEF Flip
  <2> HIDE DEF flipped
  <2>. QED BY <1>2, <2>1, <2>2, <2>3, ObjectsChangeKeeps DEF Flip, Kinds
<1>3. CASE Intrude(h, k)
  <2>1. [owner |-> Stranger, template |-> 0, applied |-> FALSE, ready |-> FALSE] \in Object
    BY DEF Object, Stranger
  <2>. QED BY <1>3, <2>1, ObjectsChangeKeeps DEF Intrude
<1>4. CASE DeleteObject(h, k) \/ CollectGarbage(h, k)
  BY <1>4, ObjectsChangeKeeps DEF DeleteObject, CollectGarbage, Remove
<1>. QED BY <1>1, <1>2, <1>3, <1>4 DEF Intruders

\* An event the predicate drops leaves UID, generation and spec of the cached hub.
LEMMA DeliverHubKeeps ==
  ASSUME TypeOK, TypeOK', IInv, NEW h \in Hubs, DeliverHub(h)
  PROVE  IInv'
<1> USE NoneAssumption
<1>1. /\ cachedHub'[h] = hub[h] /\ \A g \in Hubs \ {h} : cachedHub'[g] = cachedHub[g]
      /\ queue \subseteq queue' /\ (Wakes(cachedHub[h], hub[h]) => h \in queue')
      /\ UNCHANGED <<hub, object, cachedObject, unseen, delayed, attempt, clock>>
  BY DEF DeliverHub, TypeOK
<1>2. h \notin queue' => /\ cachedHub[h] # None /\ hub[h] # None
                         /\ cachedHub[h].uid = hub[h].uid
                         /\ cachedHub[h].generation = hub[h].generation
                         /\ cachedHub[h].spec = hub[h].spec
  BY <1>1 DEF Wakes, IInv, CopiesInOrder, Precedes
<1>3. \A g \in Hubs : Done(g)' => Done(g)
  BY <1>1, <1>2 DEF Done, Busy
<1>4. Exclusive' /\ StatusTrails' /\ FailureEnds'
  BY <1>1 DEF IInv, Exclusive, StatusTrails, FailureEnds, SameHub
<1>5. CopiesInOrder'
  <2>1. hub[h] # None => hub[h].uid \in Nat /\ hub[h].generation \in Nat
    BY DEF TypeOK, Hub
  <2>. QED BY <1>1, <2>1 DEF IInv, CopiesInOrder, Precedes
<1>6. ObservedOrPending'
  BY <1>1, <1>2, <1>3 DEF IInv, ObservedOrPending, SameHub, Done
<1>7. RolledOutOrPending'
  <2>1. ASSUME NEW g \in Hubs, Done(g)'
        PROVE  (cachedHub[g].spec.valid /\ \A k \in Kinds : InPlace(g, k, cachedHub[g]))'
    <3>1. Done(g) /\ g \notin queue'
      BY <1>3, <2>1 DEF Done
    <3>2. cachedHub[g].spec.valid /\ \A k \in Kinds : InPlace(g, k, cachedHub[g])
      BY <3>1 DEF IInv, RolledOutOrPending
    <3>3. /\ cachedHub'[g].spec = cachedHub[g].spec /\ cachedHub'[g].uid = cachedHub[g].uid
          /\ cachedHub'[g].generation = cachedHub[g].generation
      BY <1>1, <1>2, <3>1
    <3>. QED BY <1>1, <3>1, <3>2, <3>3 DEF InPlace
  <2>2. \A w \in Workers : attempt'[w] # None /\ attempt'[w].outcome # "failed" =>
          LET a == attempt[w] IN
          /\ a.copy.spec.valid
          /\ a.stage # "service" => InPlace(a.key, "service", a.copy)'
          /\ a.stage \in {"health", "patch"} => InPlace(a.key, "deployment", a.copy)'
    BY <1>1 DEF IInv, RolledOutOrPending, InPlace
  <2>. QED BY <1>1, <2>1, <2>2 DEF RolledOutOrPending
<1>8. RendersInOrder'
  BY <1>1 DEF IInv, RendersInOrder, RenderedFrom
<1>. QED BY <1>4, <1>5, <1>6, <1>7, <1>8 DEF IInv

\* An event that names a controller brings the key back.
LEMMA DeliverObjectKeeps ==
  ASSUME TypeOK, TypeOK', IInv, NEW h \in Hubs, NEW k \in Kinds, DeliverObject(h, k) \/ Requeue(h)
  PROVE  IInv'
<1>1. /\ queue \subseteq queue' /\ delayed \subseteq delayed' \cup queue'
      /\ \A g \in Hubs, j \in Kinds : <<g, j, TRUE>> \in unseen =>
           <<g, j, TRUE>> \in unseen' \/ g \in queue'
      /\ UNCHANGED <<hub, cachedHub, object, attempt, clock>>
  BY DEF DeliverObject, Requeue, Unseen
<1>2. \A g \in Hubs : Done(g)' => Done(g)
  BY <1>1 DEF Done, Busy
<1>3. /\ Exclusive' /\ StatusTrails' /\ CopiesInOrder' /\ ObservedOrPending'
      /\ RendersInOrder' /\ FailureEnds'
  BY <1>1, <1>2 DEF IInv, Exclusive, StatusTrails, SameHub, CopiesInOrder, Precedes,
                    ObservedOrPending, RendersInOrder, RenderedFrom, FailureEnds
<1>4. RolledOutOrPending'
  <2>1. \A w \in Workers : attempt[w] # None => attempt[w].key \in Hubs
    BY DEF TypeOK, Attempt
  <2>. QED BY <1>1, <1>2, <2>1 DEF IInv, RolledOutOrPending, InPlace, Kinds
<1>. QED BY <1>3, <1>4 DEF IInv

LEMMA StartKeeps ==
  ASSUME TypeOK, TypeOK', IInv, NEW w \in Workers, NEW h \in Hubs, Start(w, h)
  PROVE  IInv'
<1> USE NoneAssumption
<1>1. CASE Skip(w, h)
  <2>1. /\ UNCHANGED <<hub, cachedHub, object, unseen, delayed, attempt, clock>>
        /\ \A g \in Hubs \ {h} : g \in queue' <=> g \in queue
        /\ cachedHub[h] # None => cachedHub[h].spec.suspend
        /\ ~Busy(h)
    BY <1>1 DEF Skip, Available
  <2>2. \A g \in Hubs : Done(g)' => Done(g) /\ g # h
    BY <2>1 DEF Done, Busy
  <2>3. /\ Exclusive' /\ StatusTrails' /\ CopiesInOrder' /\ ObservedOrPending'
        /\ RendersInOrder' /\ FailureEnds'
    BY <2>1, <2>2 DEF IInv, Exclusive, StatusTrails, SameHub, CopiesInOrder, Precedes,
                      ObservedOrPending, RendersInOrder, RenderedFrom, FailureEnds
  <2>4. \A v \in Workers : attempt[v] # None => attempt[v].key \in Hubs \ {h}
    BY <2>1 DEF TypeOK, Attempt, Busy
  <2>5. RolledOutOrPending'
    BY <2>1, <2>2, <2>4 DEF IInv, RolledOutOrPending, InPlace
  <2>. QED BY <2>3, <2>5 DEF IInv
<1>2. CASE Begin(w, h)
  <2>1. /\ UNCHANGED <<hub, cachedHub, object, unseen, delayed, clock>>
        /\ \A g \in Hubs \ {h} : g \in queue' <=> g \in queue
        /\ \A v \in Workers \ {w} : attempt'[v] = attempt[v]
        /\ attempt[w] = None /\ ~Busy(h) /\ cachedHub[h] # None
        /\ attempt'[w].key = h /\ attempt'[w].copy = cachedHub[h]
        /\ attempt'[w].outcome # "failed" => cachedHub[h].spec.valid
        /\ attempt'[w].outcome # "failed" => attempt'[w].stage = "service"
        /\ attempt'[w].outcome = "failed" => attempt'[w].stage = "patch"
    BY <1>2 DEF Begin, Available, TypeOK
  <2>2. attempt'[w] # None
    <3>1. cachedHub[h] \in Hub
      BY <2>1 DEF TypeOK
    <3>2. [key |-> h, stage |-> IF cachedHub[h].spec.valid THEN "service" ELSE "patch",
           copy |-> cachedHub[h],
           outcome |-> IF cachedHub[h].spec.valid THEN "ok" ELSE "failed"] \in Attempt
      BY <3>1 DEF Attempt, Kinds, Outcomes
    <3>. QED BY <1>2, <3>2 DEF Begin, TypeOK
  <2>3. \A g \in Hubs : Done(g)' => Done(g) /\ g # h
    BY <2>1, <2>2 DEF Done, Busy
  <2>4. \A v \in Workers \ {w} : attempt[v] # None => attempt[v].key \in Hubs \ {h}
    BY <2>1 DEF TypeOK, Attempt, Busy
  <2>5. Exclusive' /\ FailureEnds'
    BY <2>1, <2>4 DEF IInv, Exclusive, FailureEnds
  <2>6. StatusTrails' /\ ObservedOrPending'
    BY <2>1, <2>3 DEF IInv, StatusTrails, SameHub, ObservedOrPending
  <2>7. CopiesInOrder'
    <3>1. cachedHub[h].uid \in 1..clock /\ cachedHub[h].generation \in Nat
      BY <2>1 DEF IInv, CopiesInOrder, TypeOK, Hub
    <3>. QED BY <2>1, <3>1 DEF IInv, CopiesInOrder, Precedes
  <2>8. RolledOutOrPending'
    <3>1. ASSUME NEW g \in Hubs, Done(g)'
          PROVE  (cachedHub[g].spec.valid /\ \A k \in Kinds : InPlace(g, k, cachedHub[g]))'
      BY <2>1, <2>3, <3>1 DEF IInv, RolledOutOrPending, InPlace
    <3>2. ASSUME NEW v \in Workers, attempt'[v] # None, attempt'[v].outcome # "failed"
          PROVE  (LET a == attempt[v] IN
                  /\ a.copy.spec.valid
                  /\ a.stage # "service" => InPlace(a.key, "service", a.copy)
                  /\ a.stage \in {"health", "patch"} => InPlace(a.key, "deployment", a.copy))'
      <4>1. CASE v = w
        BY <2>1, <3>2, <4>1
      <4>2. CASE v # w
        <5>1. attempt'[v] = attempt[v] /\ attempt[v] # None /\ attempt[v].outcome # "failed"
              /\ attempt[v].key \in Hubs \ {h}
          BY <2>1, <2>4, <3>2, <4>2
        <5>2. LET a == attempt[v] IN
              /\ a.copy.spec.valid
              /\ a.stage # "service" => InPlace(a.key, "service", a.copy)
              /\ a.stage \in {"health", "patch"} => InPlace(a.key, "deployment", a.copy)
          BY <5>1 DEF IInv, RolledOutOrPending
        <5>. QED BY <2>1, <5>1, <5>2 DEF InPlace
      <4>. QED BY <4>1, <4>2
    <3>. QED BY <3>1, <3>2 DEF RolledOutOrPending
  <2>9. RendersInOrder'
    BY <2>1 DEF IInv, RendersInOrder, RenderedFrom
  <2>. QED BY <2>5, <2>6, <2>7, <2>8, <2>9 DEF IInv
<1>. QED BY <1>1, <1>2 DEF Start

\* What a worker does before the patch: at most it writes one object, rendered
\* from its copy, and it goes on only with what it has written in place.
LEMMA AttemptKeeps ==
  ASSUME TypeOK, TypeOK', IInv, NEW w \in Workers, NEW h \in Hubs,
         clock' \in {clock, clock + 1}, UNCHANGED <<hub, cachedHub, queue, delayed>>,
         attempt[w] # None, attempt[w].key = h,
         attempt'[w] # None, attempt'[w].key = h, attempt'[w].copy = attempt[w].copy,
         \A v \in Workers \ {w} : attempt'[v] = attempt[v],
         unseen \subseteq unseen',
         \A g \in Hubs, k \in Kinds : object[g][k] # None /\ object[g][k].owner # Stranger =>
           object'[g][k] = object[g][k] \/ <<g, k, TRUE>> \in unseen',
         \A g \in Hubs \ {h} : object'[g] = object[g],
         object'[h]["deployment"] # object[h]["deployment"] =>
           /\ object'[h]["deployment"].owner = attempt[w].copy.uid
           /\ object'[h]["deployment"].template = attempt[w].copy.generation,
         attempt'[w].outcome = "failed" => attempt'[w].stage = "patch",
         attempt'[w].outcome # "failed" =>
           /\ attempt[w].outcome # "failed" /\ attempt'[w].stage # "service"
           /\ attempt[w].stage # "service" \/ InPlace(h, "service", attempt[w].copy)'
           /\ \/ attempt'[w].stage = "deployment" \/ attempt[w].stage \in {"health", "patch"}
              \/ InPlace(h, "deployment", attempt[w].copy)'
  PROVE  IInv'
<1> USE NoneAssumption
<1>1. \A g \in Hubs : ~Done(g)' \/ (g # h /\ Done(g))
  BY DEF Done, Busy
<1>2. \A v \in Workers : attempt'[v] # None =>
        attempt[v] # None /\ attempt'[v].key = attempt[v].key /\ attempt'[v].copy = attempt[v].copy
  OBVIOUS
<1>3. Exclusive' /\ StatusTrails' /\ ObservedOrPending' /\ FailureEnds'
  BY <1>1, <1>2 DEF IInv, Exclusive, StatusTrails, ObservedOrPending, FailureEnds, SameHub
<1>4. CopiesInOrder'
  <2>1. clock \in Nat
    BY DEF TypeOK
  <2>. QED BY <1>2, <2>1 DEF IInv, CopiesInOrder, Precedes
<1>5. RolledOutOrPending'
  <2>1. ASSUME NEW g \in Hubs, Done(g)'
        PROVE  cachedHub[g].spec.valid /\ \A k \in Kinds : InPlace(g, k, cachedHub[g])'
    <3>1. Done(g) /\ cachedHub[g].uid # Stranger
      BY <1>1, <2>1 DEF Done, IInv, CopiesInOrder, Stranger, TypeOK
    <3>2. cachedHub[g].spec.valid /\ \A k \in Kinds : InPlace(g, k, cachedHub[g])
      BY <3>1 DEF IInv, RolledOutOrPending
    <3>. QED BY <3>1, <3>2 DEF InPlace
  <2>2. ASSUME NEW v \in Workers, NEW k \in Kinds, attempt[v] # None,
               InPlace(attempt[v].key, k, attempt[v].copy)
        PROVE  InPlace(attempt[v].key, k, attempt[v].copy)' \/ attempt'[v] = None
    <3>1. attempt[v].key \in Hubs /\ attempt[v].copy.uid # Stranger
      BY <2>2 DEF IInv, CopiesInOrder, Stranger, TypeOK, Attempt
    <3>. QED BY <1>2, <2>2, <3>1 DEF InPlace
  <2>3. ASSUME NEW v \in Workers, attempt'[v] # None, attempt'[v].outcome # "failed"
        PROVE  (LET a == attempt[v] IN
                /\ a.copy.spec.valid
                /\ a.stage # "service" => InPlace(a.key, "service", a.copy)
                /\ a.stage \in {"health", "patch"} => InPlace(a.key, "deployment", a.copy))'
    <3>1. attempt[v] # None /\ attempt[v].outcome # "failed"
      BY <2>3
    <3>2. LET a == attempt[v] IN
          /\ a.copy.spec.valid
          /\ a.stage # "service" => InPlace(a.key, "service", a.copy)
          /\ a.stage \in {"health", "patch"} => InPlace(a.key, "deployment", a.copy)
      BY <3>1 DEF IInv, RolledOutOrPending
    <3>3. CASE v # w
      BY <2>2, <2>3, <3>1, <3>2, <3>3 DEF Kinds
    <3>4. CASE v = w
      BY <2>2, <2>3, <3>1, <3>2, <3>4 DEF Kinds
    <3>. QED BY <3>3, <3>4
  <2>. QED BY <2>1, <2>3 DEF RolledOutOrPending
<1>6. RendersInOrder'
  <2>1. /\ attempt[w].copy.uid \in 1..clock /\ attempt[w].copy.generation \in Nat
        /\ Precedes(attempt[w].copy, hub[h]) /\ Precedes(attempt[w].copy, cachedHub[h])
        /\ clock \in Nat /\ attempt[w].copy # None
    BY DEF IInv, CopiesInOrder, TypeOK, Attempt, Hub
  <2>2. \A v \in Workers \ {w} : attempt[v] # None => attempt[v].key # h
    BY DEF IInv, Exclusive
  <2>3. \A g \in Hubs : object[g]["deployment"] # None => object[g]["deployment"].owner \in Nat
    BY DEF TypeOK, Kinds, Object
  <2>4. CASE object'[h]["deployment"] = object[h]["deployment"]
    <3>1. \A g \in Hubs : object'[g]["deployment"] = object[g]["deployment"]
      BY <2>4
    <3>2. \A v \in Workers : attempt[v] # None => attempt[v].key \in Hubs
      BY DEF TypeOK, Attempt
    <3>3. \A v \in Workers : attempt[v] # None => RenderedFrom(attempt[v].key, attempt[v].copy)
      BY DEF IInv, RendersInOrder
    <3>4. \A v \in Workers : attempt'[v] # None => RenderedFrom(attempt[v].key, attempt[v].copy)'
      BY <1>2, <3>1, <3>2, <3>3 DEF RenderedFrom
    <3>5. \A g \in Hubs :
            /\ object'[g]["deployment"] # None => object'[g]["deployment"].owner <= clock'
            /\ RenderedFrom(g, hub[g])' /\ RenderedFrom(g, cachedHub[g])'
      BY <2>1, <2>3, <3>1 DEF IInv, RendersInOrder, RenderedFrom
    <3>. QED BY <3>4, <3>5 DEF RendersInOrder
  <2>5. CASE object'[h]["deployment"] # object[h]["deployment"]
    <3>1. ASSUME NEW v \in Workers, attempt'[v] # None
          PROVE  RenderedFrom(attempt[v].key, attempt[v].copy)'
      <4>1. CASE v = w
        BY <2>1, <2>5, <4>1 DEF RenderedFrom
      <4>2. CASE v # w
        <5>1. attempt[v] # None /\ attempt'[v] = attempt[v] /\ attempt[v].key \in Hubs \ {h}
          BY <2>2, <3>1, <4>2 DEF TypeOK, Attempt
        <5>2. RenderedFrom(attempt[v].key, attempt[v].copy)
          BY <5>1 DEF IInv, RendersInOrder
        <5>. QED BY <5>1, <5>2 DEF RenderedFrom
      <4>. QED BY <4>1, <4>2
    <3>2. RenderedFrom(h, hub[h])' /\ RenderedFrom(h, cachedHub[h])'
      BY <2>1, <2>5 DEF RenderedFrom, Precedes
    <3>3. ASSUME NEW g \in Hubs
          PROVE  /\ object'[g]["deployment"] # None => object'[g]["deployment"].owner <= clock'
                 /\ RenderedFrom(g, hub[g])' /\ RenderedFrom(g, cachedHub[g])'
      <4>1. CASE g = h
        BY <2>1, <2>5, <3>2, <4>1
      <4>2. CASE g # h
        <5>1. RenderedFrom(g, hub[g]) /\ RenderedFrom(g, cachedHub[g])
              /\ (object[g]["deployment"] # None => object[g]["deployment"].owner <= clock)
          BY DEF IInv, RendersInOrder
        <5>. QED BY <2>1, <2>3, <4>2, <5>1 DEF RenderedFrom
      <4>. QED BY <4>1, <4>2
    <3>. QED BY <3>1, <3>3 DEF RendersInOrder
  <2>. QED BY <2>4, <2>5
<1>. QED BY <1>3, <1>4, <1>5, <1>6 DEF IInv

\* What the steps of a worker make of its record.
LEMMA ConcludeSteps ==
  ASSUME TypeOK, NEW w \in Workers, attempt[w] \in Attempt, NEW outcome \in Outcomes,
         Conclude(w, outcome)
  PROVE  /\ attempt'[w] # None /\ attempt'[w].stage = "patch" /\ attempt'[w].outcome = outcome
         /\ attempt'[w].key = attempt[w].key /\ attempt'[w].copy = attempt[w].copy
         /\ \A v \in Workers \ {w} : attempt'[v] = attempt[v]
<1>1. attempt' = [attempt EXCEPT ![w] =
        [attempt[w] EXCEPT !.stage = "patch", !.outcome = outcome]]
  BY DEF Conclude, TypeOK, Attempt
<1>2. [attempt[w] EXCEPT !.stage = "patch", !.outcome = outcome] \in Attempt
  BY DEF Attempt
<1>. QED BY <1>1, <1>2, NoneAssumption DEF TypeOK, Attempt

LEMMA AfterSteps ==
  ASSUME TypeOK, NEW w \in Workers, attempt[w] \in Attempt, NEW k \in Kinds, At(w, k), After(w)
  PROVE  /\ attempt'[w] # None /\ attempt'[w].outcome \in {attempt[w].outcome, "ok"}
         /\ attempt'[w].outcome = "failed" => attempt[w].outcome = "failed"
         /\ attempt'[w].key = attempt[w].key /\ attempt'[w].copy = attempt[w].copy
         /\ attempt'[w].stage \in (IF k = "service" THEN {"deployment"} ELSE {"health", "patch"})
         /\ \A v \in Workers \ {w} : attempt'[v] = attempt[v]
<1>1. ASSUME NEW stage \in {"deployment", "health"},
             attempt' = [attempt EXCEPT ![w].stage = stage]
      PROVE  /\ attempt'[w] # None /\ attempt'[w].outcome = attempt[w].outcome
             /\ attempt'[w].key = attempt[w].key /\ attempt'[w].copy = attempt[w].copy
             /\ attempt'[w].stage = stage /\ \A v \in Workers \ {w} : attempt'[v] = attempt[v]
  <2>1. attempt' = [attempt EXCEPT ![w] = [attempt[w] EXCEPT !.stage = stage]]
    BY <1>1 DEF TypeOK, Attempt
  <2>2. [attempt[w] EXCEPT !.stage = stage] \in Attempt
    BY DEF Attempt, Kinds
  <2>. QED BY <2>1, <2>2, NoneAssumption DEF TypeOK, Attempt
<1>2. CASE k = "service"
  <2>1. attempt' = [attempt EXCEPT ![w].stage = "deployment"]
    BY <1>2 DEF After, At
  <2>. QED BY <1>1, <1>2, <2>1
<1>3. CASE k # "service" /\ attempt[w].copy.spec.wait
  <2>1. attempt' = [attempt EXCEPT ![w].stage = "health"]
    BY <1>3 DEF After, At, Kinds
  <2>. QED BY <1>1, <1>3, <2>1
<1>4. CASE k # "service" /\ ~attempt[w].copy.spec.wait
  <2>1. Conclude(w, "ok")
    BY <1>4 DEF After, At, Kinds
  <2>. QED BY <1>4, <2>1, ConcludeSteps DEF Outcomes
<1>. QED BY <1>2, <1>3, <1>4

\* A write leaves the object in place, and changes no other.
LEMMA WrittenInPlace ==
  ASSUME TypeOK, NEW w \in Workers, NEW h \in Hubs, attempt[w] \in Attempt, attempt[w].key = h,
         NEW k \in Kinds, Put(h, k, Written(w, k))
  PROVE  /\ object'[h][k] # None /\ object'[h][k].owner = attempt[w].copy.uid
         /\ k = "deployment" => object'[h][k].template = attempt[w].copy.generation
         /\ \A g \in Hubs \ {h} : object'[g] = object[g]
         /\ object'[h]["deployment"] # object[h]["deployment"] =>
              /\ object'[h]["deployment"].owner = attempt[w].copy.uid
              /\ object'[h]["deployment"].template = attempt[w].copy.generation
         /\ unseen \subseteq unseen'
         /\ \A g \in Hubs, j \in Kinds : object[g][j] # None /\ object[g][j].owner # Stranger =>
              object'[g][j] = object[g][j] \/ <<g, j, TRUE>> \in unseen'
<1>1. Written(w, k) \in Object
  BY WrittenTyped
<1>2. /\ object'[h][k] = Written(w, k)
      /\ \A g \in Hubs, j \in Kinds : g # h \/ j # k => object'[g][j] = object[g][j]
      /\ unseen \subseteq unseen'
      /\ \A g \in Hubs, j \in Kinds : object[g][j] # None /\ object[g][j].owner # Stranger =>
           object'[g][j] = object[g][j] \/ <<g, j, TRUE>> \in unseen'
  BY <1>1, PutNotifies DEF Controlled
<1>3. \A g \in Hubs \ {h} : object'[g] = object[g]
  <2>1. object' = [object EXCEPT ![h] = [object[h] EXCEPT ![k] = Written(w, k)]]
    BY DEF Put, TypeOK
  <2>. QED BY <2>1 DEF TypeOK
<1>4. /\ Written(w, k).owner = attempt[w].copy.uid
      /\ k = "deployment" => Written(w, k).template = attempt[w].copy.generation
  BY DEF Written
<1>5. Written(w, k) # None
  BY <1>1, NoneAssumption
<1>6. k # "deployment" => object'[h]["deployment"] = object[h]["deployment"]
  BY <1>2 DEF Kinds
<1>. QED BY <1>2, <1>3, <1>4, <1>5, <1>6

\* Writes and the health check: accepted, refused, or lost on the way back.
LEMMA WriteKeeps ==
  ASSUME TypeOK, TypeOK', IInv, NEW w \in Workers, NEW k \in Kinds, Write(w, k) \/ WriteFails(w, k)
  PROVE  IInv'
<1> USE NoneAssumption DEF Tick
<1>1. PICK h \in Hubs : attempt[w] \in Attempt /\ attempt[w].key = h /\ At(w, k) /\ attempt[w] # None
  BY DEF TypeOK, Write, WriteFails, At, Attempt
<1>2. attempt[w].stage = k /\ attempt[w].outcome # "failed"
  BY <1>1 DEF At, Kinds, IInv, FailureEnds
<1>3. CASE Write(w, k)
  <2>1. /\ Put(h, k, Written(w, k)) /\ After(w)
        /\ UNCHANGED <<hub, cachedHub, queue, delayed, clock>>
    BY <1>1, <1>3 DEF Write
  <2>2. /\ attempt'[w] # None /\ attempt'[w].outcome # "failed"
        /\ attempt'[w].key = h /\ attempt'[w].copy = attempt[w].copy
        /\ attempt'[w].stage \in (IF k = "service" THEN {"deployment"} ELSE {"health", "patch"})
        /\ \A v \in Workers \ {w} : attempt'[v] = attempt[v]
    <3>1. /\ attempt'[w] # None /\ attempt'[w].outcome \in {attempt[w].outcome, "ok"}
          /\ attempt'[w].key = h /\ attempt'[w].copy = attempt[w].copy
          /\ attempt'[w].stage \in (IF k = "service" THEN {"deployment"} ELSE {"health", "patch"})
          /\ \A v \in Workers \ {w} : attempt'[v] = attempt[v]
      BY <1>1, <2>1, AfterSteps
    <3>. QED BY <1>2, <3>1
  <2>3. /\ object'[h][k] # None /\ object'[h][k].owner = attempt[w].copy.uid
        /\ k = "deployment" => object'[h][k].template = attempt[w].copy.generation
    BY <1>1, <2>1, WrittenInPlace
  <2>4. /\ attempt[w].stage # "service" \/ InPlace(h, "service", attempt[w].copy)'
        /\ attempt'[w].stage = "deployment" \/ InPlace(h, "deployment", attempt[w].copy)'
        /\ attempt'[w].stage # "service"
    BY <1>2, <2>2, <2>3 DEF InPlace, Kinds
  <2>5. /\ \A g \in Hubs \ {h} : object'[g] = object[g]
        /\ object'[h]["deployment"] # object[h]["deployment"] =>
             /\ object'[h]["deployment"].owner = attempt[w].copy.uid
             /\ object'[h]["deployment"].template = attempt[w].copy.generation
        /\ unseen \subseteq unseen'
        /\ \A g \in Hubs, j \in Kinds : object[g][j] # None /\ object[g][j].owner # Stranger =>
             object'[g][j] = object[g][j] \/ <<g, j, TRUE>> \in unseen'
    BY <1>1, <2>1, WrittenInPlace
  <2>. QED BY <1>1, <1>2, <2>1, <2>2, <2>3, <2>4, <2>5, AttemptKeeps
<1>4. CASE WriteFails(w, k)
  <2>1. /\ attempt'[w] # None /\ attempt'[w].stage = "patch" /\ attempt'[w].outcome = "failed"
        /\ attempt'[w].key = h /\ attempt'[w].copy = attempt[w].copy
        /\ \A v \in Workers \ {w} : attempt'[v] = attempt[v]
    BY <1>1, <1>4, ConcludeSteps DEF WriteFails, Outcomes
  <2>2. UNCHANGED <<hub, cachedHub, queue, delayed>> /\ clock' \in {clock, clock + 1}
    BY <1>4 DEF WriteFails
  <2>3. UNCHANGED <<object, unseen>> \/ Put(h, k, Written(w, k))
    BY <1>1, <1>4 DEF WriteFails
  <2>4. /\ \A g \in Hubs \ {h} : object'[g] = object[g]
        /\ object'[h]["deployment"] # object[h]["deployment"] =>
             /\ object'[h]["deployment"].owner = attempt[w].copy.uid
             /\ object'[h]["deployment"].template = attempt[w].copy.generation
        /\ unseen \subseteq unseen'
        /\ \A g \in Hubs, j \in Kinds : object[g][j] # None /\ object[g][j].owner # Stranger =>
             object'[g][j] = object[g][j] \/ <<g, j, TRUE>> \in unseen'
    BY <1>1, <2>3, WrittenInPlace
  <2>. QED BY <1>1, <2>1, <2>2, <2>4, AttemptKeeps
<1>. QED BY <1>3, <1>4

LEMMA CheckHealthKeeps ==
  ASSUME TypeOK, TypeOK', IInv, NEW w \in Workers, CheckHealth(w)
  PROVE  IInv'
<1> USE NoneAssumption
<1>1. PICK h \in Hubs : attempt[w] \in Attempt /\ attempt[w].key = h /\ At(w, "health") /\ attempt[w] # None
  BY DEF TypeOK, CheckHealth, At, Attempt
<1>2. attempt[w].stage = "health" /\ attempt[w].outcome # "failed"
  BY <1>1 DEF At, IInv, FailureEnds
<1>3. PICK outcome \in Outcomes : Conclude(w, outcome)
  BY DEF CheckHealth, Outcomes
<1>4. UNCHANGED <<hub, cachedHub, object, unseen, queue, delayed, clock>>
  BY DEF CheckHealth
<1>5. /\ attempt'[w] # None /\ attempt'[w].stage = "patch"
      /\ attempt'[w].key = h /\ attempt'[w].copy = attempt[w].copy
      /\ \A v \in Workers \ {w} : attempt'[v] = attempt[v]
  BY <1>1, <1>3, ConcludeSteps
<1>6. InPlace(h, "service", attempt[w].copy)'
  <2>1. InPlace(h, "service", attempt[w].copy)
    BY <1>1, <1>2 DEF IInv, RolledOutOrPending
  <2>. QED BY <1>4, <1>5, <2>1 DEF InPlace
<1>. QED BY <1>1, <1>2, <1>4, <1>5, <1>6, AttemptKeeps

\* What the patch leaves on the server speaks of the generation it was computed
\* from, whichever of its two fields was empty.
LEMMA SendPatchSteps ==
  ASSUME TypeOK, IInv, NEW w \in Workers, NEW h \in Hubs, attempt[w] \in Attempt,
         attempt[w].key = h, PatchAccepted(w), SendPatch(w)
  PROVE  /\ hub[h] # None /\ hub'[h] # None /\ cachedHub[h] = attempt[w].copy
         /\ hub'[h].uid = hub[h].uid /\ hub'[h].generation = hub[h].generation
         /\ hub'[h].spec = hub[h].spec
         /\ \A g \in Hubs \ {h} : hub'[g] = hub[g]
         /\ SameHub(h) => /\ hub'[h].observed = cachedHub[h].generation
                          /\ hub'[h].conditions.ready # None
                          /\ hub'[h].conditions.ready.generation = cachedHub[h].generation
<1> DEFINE computed == Computed(attempt[w])
<1> USE NoneAssumption
<1>1. /\ hub[h] \in Hub /\ hub[h] # None /\ cachedHub[h] = attempt[w].copy /\ cachedHub[h] \in Hub
  BY DEF PatchAccepted, TypeOK, Attempt
<1>2. /\ hub'[h] = Patched(hub[h], cachedHub[h], computed)
      /\ \A g \in Hubs \ {h} : hub'[g] = hub[g]
  BY DEF SendPatch, TypeOK
<1>3. hub'[h] \in Hub
  BY <1>1, <1>2, PatchedTyped
<1>4. computed \in Hub /\ computed.observed = cachedHub[h].generation
  BY <1>1, ComputedTyped DEF Computed, Hub
<1>5. computed.conditions.ready # None
      /\ computed.conditions.ready.generation = cachedHub[h].generation
  <2>1. computed.conditions.ready =
          [outcome |-> attempt[w].outcome, generation |-> attempt[w].copy.generation]
    BY <1>1 DEF Computed, Hub
  <2>2. attempt[w].outcome \in Outcomes /\ attempt[w].copy.generation \in Nat
    BY DEF Attempt, Hub
  <2>. QED BY <1>1, <2>1, <2>2 DEF Condition
<1> HIDE DEF computed
<1>6. /\ hub'[h].uid = hub[h].uid /\ hub'[h].generation = hub[h].generation
      /\ hub'[h].spec = hub[h].spec
      /\ hub'[h].observed = MergeField(hub[h].observed, cachedHub[h].observed, computed.observed)
      /\ hub'[h].conditions =
           MergeField(hub[h].conditions, cachedHub[h].conditions, computed.conditions)
  BY <1>1, <1>2 DEF Patched, Hub
<1>7. SameHub(h) => /\ hub'[h].observed = cachedHub[h].generation
                    /\ hub'[h].conditions.ready # None
                    /\ hub'[h].conditions.ready.generation = cachedHub[h].generation
  BY <1>4, <1>5, <1>6 DEF MergeField, IInv, StatusTrails
<1>. QED BY <1>1, <1>2, <1>3, <1>6, <1>7

LEMMA PatchKeeps ==
  ASSUME TypeOK, TypeOK', IInv, NEW w \in Workers, PatchStatus(w) \/ PatchFails(w)
  PROVE  IInv'
<1> USE NoneAssumption DEF Tick
<1>1. PICK h \in Hubs : attempt[w] \in Attempt /\ attempt[w].key = h /\ At(w, "patch") /\ attempt[w] # None
  BY DEF TypeOK, PatchStatus, PatchFails, At, Attempt
<1>2. /\ attempt'[w] = None /\ \A v \in Workers \ {w} : attempt'[v] = attempt[v]
      /\ delayed \subseteq delayed' /\ clock' \in {clock, clock + 1}
      /\ UNCHANGED <<cachedHub, object, cachedObject, unseen, queue>>
      /\ UNCHANGED hub \/ (PatchAccepted(w) /\ SendPatch(w))
  <2>1. CASE PatchStatus(w)
    BY <2>1 DEF PatchStatus, Retries, TypeOK
  <2>2. CASE PatchFails(w)
    BY <2>2 DEF PatchFails, TypeOK
  <2>. QED BY <2>1, <2>2
<1>3. \A v \in Workers : attempt'[v] # None => attempt'[v] = attempt[v]
  BY <1>2
<1>4. /\ \A g \in Hubs \ {h} : hub'[g] = hub[g]
      /\ hub'[h] # None => /\ hub[h] # None /\ hub'[h].uid = hub[h].uid
                           /\ hub'[h].generation = hub[h].generation
                           /\ hub'[h].spec = hub[h].spec
      /\ hub[h] # None => hub'[h] # None
  BY <1>1, <1>2, SendPatchSteps
<1>5. Exclusive' /\ FailureEnds'
  BY <1>3 DEF IInv, Exclusive, FailureEnds
<1>6. CopiesInOrder'
  <2>1. clock \in Nat
    BY DEF TypeOK
  <2>2. ASSUME NEW g \in Hubs
        PROVE  /\ hub'[g] # None => /\ hub[g] # None /\ hub'[g].uid = hub[g].uid
                                    /\ hub'[g].generation = hub[g].generation
                                    /\ hub'[g].spec = hub[g].spec
    BY <1>4
  <2>. QED BY <1>2, <1>3, <2>1, <2>2 DEF IInv, CopiesInOrder, Precedes
<1>7. RendersInOrder'
  <2>1. \A g \in Hubs : object[g]["deployment"] # None => object[g]["deployment"].owner \in Nat
    BY DEF TypeOK, Kinds, Object
  <2>2. \A g \in Hubs : RenderedFrom(g, hub[g])'
    BY <1>2, <1>4 DEF IInv, RendersInOrder, RenderedFrom
  <2>. QED BY <1>2, <1>3, <2>1, <2>2 DEF IInv, RendersInOrder, RenderedFrom, TypeOK
<1>8. \A g \in Hubs : Done(g)' /\ g # h => Done(g)
  BY <1>1, <1>2 DEF Done, Busy
<1>9. \A g \in Hubs : SameHub(g)' <=> SameHub(g)
  BY <1>2, <1>4 DEF SameHub
<1>10. ASSUME NEW g \in Hubs, Done(g)', Done(g)
       PROVE  cachedHub[g].spec.valid /\ \A k \in Kinds : InPlace(g, k, cachedHub[g])'
  <2>1. cachedHub[g].spec.valid /\ \A k \in Kinds : InPlace(g, k, cachedHub[g])
    BY <1>10 DEF IInv, RolledOutOrPending
  <2>. QED BY <1>2, <2>1 DEF InPlace
<1>11. ASSUME NEW v \in Workers, attempt'[v] # None, attempt'[v].outcome # "failed"
       PROVE  (LET a == attempt[v] IN
               /\ a.copy.spec.valid
               /\ a.stage # "service" => InPlace(a.key, "service", a.copy)
               /\ a.stage \in {"health", "patch"} => InPlace(a.key, "deployment", a.copy))'
  <2>1. LET a == attempt[v] IN
        /\ a.copy.spec.valid
        /\ a.stage # "service" => InPlace(a.key, "service", a.copy)
        /\ a.stage \in {"health", "patch"} => InPlace(a.key, "deployment", a.copy)
    BY <1>3, <1>11 DEF IInv, RolledOutOrPending
  <2>. QED BY <1>2, <1>3, <1>11, <2>1 DEF InPlace
<1>12. CASE UNCHANGED hub /\ h \in delayed'
  <2>1. \A g \in Hubs : Done(g)' => Done(g)
    BY <1>8, <1>12 DEF Done
  <2>2. StatusTrails' /\ ObservedOrPending'
    BY <1>2, <1>12, <2>1 DEF IInv, StatusTrails, ObservedOrPending, SameHub
  <2>3. RolledOutOrPending'
    BY <1>2, <1>10, <1>11, <2>1 DEF RolledOutOrPending
  <2>. QED BY <1>5, <1>6, <1>7, <2>2, <2>3 DEF IInv
<1>13. CASE PatchAccepted(w) /\ SendPatch(w) /\ (attempt[w].outcome = "failed" => h \in delayed')
  <2>1. /\ cachedHub[h] = attempt[w].copy
        /\ SameHub(h) => /\ hub'[h].observed = cachedHub[h].generation
                         /\ hub'[h].conditions.ready # None
                         /\ hub'[h].conditions.ready.generation = cachedHub[h].generation
    BY <1>1, <1>13, SendPatchSteps
  <2>2. StatusTrails'
    BY <1>2, <1>4, <1>9, <2>1 DEF IInv, StatusTrails
  <2>3. ObservedOrPending'
    BY <1>2, <1>4, <1>8, <1>9, <2>1 DEF IInv, ObservedOrPending
  <2>4. ASSUME NEW g \in Hubs, Done(g)'
        PROVE  cachedHub[g].spec.valid /\ \A k \in Kinds : InPlace(g, k, cachedHub[g])'
    <3>1. CASE g = h
      <4>1. attempt[w].outcome # "failed" /\ attempt[w].stage = "patch"
        BY <1>1, <1>13, <2>4, <3>1 DEF Done, At
      <4>2. /\ attempt[w].copy.spec.valid
            /\ InPlace(h, "service", attempt[w].copy) /\ InPlace(h, "deployment", attempt[w].copy)
        BY <1>1, <4>1 DEF IInv, RolledOutOrPending
      <4>. QED BY <1>2, <2>1, <3>1, <4>2 DEF InPlace, Kinds
    <3>2. CASE g # h
      BY <1>8, <1>10, <2>4, <3>2
    <3>. QED BY <3>1, <3>2
  <2>5. RolledOutOrPending'
    BY <1>2, <1>11, <2>4 DEF RolledOutOrPending
  <2>. QED BY <1>5, <1>6, <1>7, <2>2, <2>3, <2>5 DEF IInv
<1>14. (attempt[w].outcome = "failed" \/ PatchFails(w)) => h \in delayed'
  BY <1>1 DEF PatchStatus, PatchFails, Retries, TypeOK
<1>. QED BY <1>12, <1>13, <1>14 DEF PatchStatus, PatchFails

LEMMA RestartKeeps ==
  ASSUME TypeOK, TypeOK', IInv, Restart
  PROVE  IInv'
<1> USE NoneAssumption
<1>1. /\ cachedHub' = hub /\ clock' = clock + 1 /\ \A w \in Workers : attempt'[w] = None
      /\ UNCHANGED <<hub, object>> /\ \A h \in Hubs : hub[h] # None => h \in queue'
  BY DEF Restart, Tick
<1>2. \A h \in Hubs : ~Done(h)'
  BY <1>1 DEF Done
<1>3. /\ clock \in Nat
      /\ \A h \in Hubs : hub[h] # None => hub[h].uid \in Nat /\ hub[h].generation \in Nat
      /\ \A h \in Hubs : object[h]["deployment"] # None => object[h]["deployment"].owner \in Nat
  BY DEF TypeOK, Hub, Kinds, Object
<1>4. /\ Exclusive' /\ StatusTrails' /\ ObservedOrPending' /\ RolledOutOrPending'
      /\ FailureEnds'
  BY <1>1, <1>2 DEF Exclusive, StatusTrails, SameHub, ObservedOrPending, RolledOutOrPending,
                    FailureEnds
<1>5. CopiesInOrder' /\ RendersInOrder'
  BY <1>1, <1>3 DEF IInv, CopiesInOrder, Precedes, RendersInOrder, RenderedFrom
<1>. QED BY <1>4, <1>5 DEF IInv

LEMMA NextKeeps == TypeOK /\ IInv /\ [Next]_vars => IInv'
<1> SUFFICES ASSUME TypeOK, IInv, [Next]_vars PROVE IInv'
  OBVIOUS
<1>1. TypeOK'
  BY NextTyped
<1>2. CASE UNCHANGED vars
  <2>1. UNCHANGED <<hub, cachedHub, object, unseen, work, clock>>
    BY <1>2 DEF vars
  <2>2. Exclusive' /\ CopiesInOrder' /\ FailureEnds'
    BY <2>1 DEF IInv, Exclusive, CopiesInOrder, Precedes, FailureEnds
  <2>3. StatusTrails' /\ ObservedOrPending'
    BY <2>1 DEF IInv, StatusTrails, SameHub, ObservedOrPending, Done, Busy
  <2>4. RolledOutOrPending' /\ RendersInOrder'
    BY <2>1 DEF IInv, RolledOutOrPending, InPlace, Done, Busy, RendersInOrder, RenderedFrom
  <2>. QED BY <2>2, <2>3, <2>4 DEF IInv
<1>3. CASE Next
  <2>1. ASSUME NEW h \in Hubs, Users(h) \/ DeliverHub(h) \/ Requeue(h)
        PROVE  IInv'
    BY <1>1, <2>1, UsersKeep, ObjectsKeep, DeliverHubKeeps, DeliverObjectKeeps DEF Users, Kinds
  <2>2. ASSUME NEW h \in Hubs, NEW k \in Kinds, Intruders(h, k) \/ Cluster(h, k)
        PROVE  IInv'
    BY <1>1, <2>2, ObjectsKeep, DeliverObjectKeeps DEF Cluster
  <2>3. ASSUME NEW w \in Workers, Advance(w)
        PROVE  IInv'
    BY <1>1, <2>3, WriteKeeps, CheckHealthKeeps, PatchKeeps DEF Advance
  <2>. QED BY <1>1, <1>3, <2>1, <2>2, <2>3, StartKeeps, RestartKeeps DEF Next
<1>. QED BY <1>2, <1>3

\* The inductive invariant holds in every reachable state.
THEOREM Invariance == Spec => []IInv
<1>1. TypeOK /\ IInv /\ [Next]_vars => TypeOK' /\ IInv'
  BY NextTyped, NextKeeps
<1>. QED BY <1>1, InitTyped, InitInvariant, PTL DEF Spec

\* Once nothing is pending a hub that is not suspended is rolled out, from its
\* current spec and as its own objects, whatever was deleted, edited or in the
\* way meanwhile.
THEOREM EveryHubIsRolledOut == Spec => []SettledIsRolledOut
<1>1. TypeOK /\ IInv => SettledIsRolledOut
  <2> SUFFICES ASSUME TypeOK, IInv, NEW h \in Hubs, Settled(h), Managed(h)
               PROVE  hub[h].spec.valid /\ RolledOut(h)
    BY DEF SettledIsRolledOut
  <2>1. Done(h) /\ cachedHub[h] = hub[h] /\ \A k \in Kinds : <<h, k, TRUE>> \notin unseen
    BY DEF Settled, Managed, Done, Unseen
  <2>2. hub[h].spec.valid /\ \A k \in Kinds : InPlace(h, k, hub[h])
    BY <2>1 DEF IInv, RolledOutOrPending
  <2>. QED BY <2>1, <2>2 DEF InPlace, Done, RolledOut, Kinds
<1>. QED BY <1>1, TypeCorrect, Invariance, PTL

\* No spec change is lost, whatever caches, patches, faults and restarts do.
THEOREM NoChangeIsLost == Spec => []SettledIsObserved
<1>1. TypeOK /\ IInv => SettledIsObserved
  BY DEF IInv, ObservedOrPending, SettledIsObserved, Settled, Managed, Done, SameHub
<1>. QED BY <1>1, TypeCorrect, Invariance, PTL

\* Only a worker renders; what it writes is as new as anything rendered before
\* for the same hub.
LEMMA NextRollsForward ==
  ASSUME TypeOK, IInv, [Next]_vars, NEW h \in Hubs,
         object[h]["deployment"] # None, object'[h]["deployment"] # None,
         object[h]["deployment"].owner = object'[h]["deployment"].owner,
         object'[h]["deployment"].template # 0
  PROVE  object[h]["deployment"].template <= object'[h]["deployment"].template
<1> DEFINE old == object[h]["deployment"]
           new == object'[h]["deployment"]
<1> USE NoneAssumption
<1>1. old \in Object /\ old.template \in Nat
  BY DEF TypeOK, Kinds, Object
<1>2. CASE new = old
  BY <1>1, <1>2
<1>3. ASSUME NEW g \in Hubs, NEW k \in Kinds, NEW o \in Object \cup {None}, Put(g, k, o), new # old
      PROVE  g = h /\ k = "deployment" /\ new = o
  <2>1. /\ object'[g][k] = o
        /\ \A f \in Hubs, j \in Kinds : f # g \/ j # k => object'[f][j] = object[f][j]
    BY <1>3, PutNotifies
  <2>. QED BY <1>3, <2>1 DEF Kinds
<1>4. ASSUME NEW g \in Hubs, Tamper(g) \/ Flip(g), new # old
      PROVE  old.template <= new.template
  <2>1. object[g]["deployment"] \in Object
    BY <1>4 DEF Tamper, Flip, TypeOK, Kinds
  <2>2. CASE Tamper(g)
    <3>1. [object[g]["deployment"] EXCEPT !.template = 0] \in Object
      BY <2>1 DEF Object
    <3>2. new = [object[g]["deployment"] EXCEPT !.template = 0]
      BY <1>3, <1>4, <2>2, <3>1 DEF Tamper, Kinds
    <3>. QED BY <2>1, <3>2 DEF Object
  <2>3. CASE Flip(g)
    <3> DEFINE flipped == [object[g]["deployment"] EXCEPT !.ready = ~@]
    <3>1. flipped \in Object /\ flipped.template = object[g]["deployment"].template
      BY <2>1 DEF Object
    <3>2. Put(g, "deployment", flipped)
      BY <2>3 DEF Flip
    <3> HIDE DEF flipped
    <3>3. g = h /\ new = flipped
      BY <1>3, <1>4, <3>1, <3>2 DEF Kinds
    <3>. QED BY <1>1, <3>1, <3>3
  <2>. QED BY <1>4, <2>2, <2>3
<1>5. ASSUME NEW g \in Hubs, NEW k \in Kinds, Intruders(g, k) \/ CollectGarbage(g, k), new # old
      PROVE  old.template <= new.template
  <2>1. CASE Intrude(g, k)
    <3>1. [owner |-> Stranger, template |-> 0, applied |-> FALSE, ready |-> FALSE] \in Object
      BY DEF Object, Stranger
    <3>2. new.template = 0
      BY <1>3, <1>5, <2>1, <3>1 DEF Intrude
    <3>. QED BY <3>2
  <2>2. CASE DeleteObject(g, k) \/ CollectGarbage(g, k)
    <3>1. new = None
      BY <1>3, <1>5, <2>2 DEF DeleteObject, CollectGarbage, Remove
    <3>. QED BY <3>1
  <2>. QED BY <1>5, <2>1, <2>2 DEF Intruders
<1>6. ASSUME NEW w \in Workers, NEW k \in Kinds, At(w, k), new # old,
             Put(attempt[w].key, k, Written(w, k))
      PROVE  old.template <= new.template
  <2>1. attempt[w] \in Attempt /\ attempt[w] # None /\ attempt[w].key \in Hubs
    BY <1>6 DEF At, TypeOK, Attempt
  <2>2. attempt[w].key = h /\ k = "deployment" /\ new = Written(w, k)
    BY <1>3, <1>6, <2>1, WrittenTyped
  <2>3. new.owner = attempt[w].copy.uid /\ new.template = attempt[w].copy.generation
    BY <2>2 DEF Written
  <2>4. attempt[w].copy # None
    BY <2>1 DEF Attempt
  <2>5. RenderedFrom(h, attempt[w].copy)
    BY <2>1, <2>2 DEF IInv, RendersInOrder
  <2>. QED BY <2>3, <2>4, <2>5 DEF RenderedFrom
<1>7. ASSUME NEW w \in Workers, Advance(w), new # old
      PROVE  old.template <= new.template
  <2>1. PICK k \in Kinds : At(w, k) /\ Put(attempt[w].key, k, Written(w, k))
    BY <1>7 DEF Advance, Write, WriteFails, CheckHealth, PatchStatus, PatchFails
  <2>. QED BY <1>6, <1>7, <2>1
<1>8. \/ UNCHANGED object
      \/ \E g \in Hubs : Tamper(g) \/ Flip(g)
      \/ \E g \in Hubs, k \in Kinds : Intruders(g, k) \/ CollectGarbage(g, k)
      \/ \E w \in Workers : Advance(w)
  BY DEF Next, vars, Users, Cluster, CreateHub, EditHub, DeleteHub, DeliverHub, DeliverObject,
         Requeue, Start, Skip, Begin, Restart
<1>. QED BY <1>2, <1>4, <1>5, <1>7, <1>8

\* A Deployment is never replaced by one of an older spec of the same hub.
THEOREM NeverRolledBack == Spec => RollsForward
<1>1. TypeOK /\ IInv /\ [Next]_vars =>
        [\A h \in Hubs :
           LET old == object[h]["deployment"]
               new == object'[h]["deployment"] IN
           old # None /\ new # None /\ old.owner = new.owner /\ new.template # 0
             => old.template <= new.template]_vars
  BY NextRollsForward
<1>. QED BY <1>1, TypeCorrect, Invariance, PTL DEF Spec, RollsForward

===============================================================================
