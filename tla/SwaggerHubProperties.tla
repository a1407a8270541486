-------------------------- MODULE SwaggerHubProperties --------------------------
(***************************************************************************)
(* What the SwaggerHub controller has to keep.                             *)
(***************************************************************************)
EXTENDS SwaggerHub

\* The type of every variable.
TypeOK ==
  /\ hub \in [Hubs -> Hub \cup {None}]
  /\ cachedHub \in [Hubs -> Hub \cup {None}]
  /\ object \in [Hubs -> [Kinds -> Object \cup {None}]]
  /\ cachedObject \in [Hubs -> [Kinds -> Object \cup {None}]]
  /\ unseen \subseteq Event
  /\ queue \subseteq Hubs
  /\ delayed \subseteq Hubs
  /\ attempt \in [Workers -> Attempt \cup {None}]
  /\ clock \in 0..MaxClock

\* Nothing is on its way that would start another reconciliation of h.
Settled(h) ==
  /\ h \notin queue \cup delayed
  /\ ~Busy(h)
  /\ cachedHub[h] = hub[h]
  /\ \A k \in Kinds : Unseen(h, k) = {}

Managed(h) == hub[h] # None /\ ~hub[h].spec.suspend

RolledOut(h) ==
  /\ \A k \in Kinds : object[h][k] # None /\ object[h][k].owner = hub[h].uid
  /\ object[h]["deployment"].template = hub[h].generation

\* Once nothing is pending, both objects exist, belong to this very hub and the
\* Deployment is rendered from its current spec: whatever was deleted, edited,
\* left by a predecessor or put there by a stranger meanwhile.
SettledIsRolledOut ==
  \A h \in Hubs : Settled(h) /\ Managed(h) => hub[h].spec.valid /\ RolledOut(h)

\* No spec change is lost: the status speaks of the current generation.
SettledIsObserved ==
  \A h \in Hubs : Settled(h) /\ Managed(h) =>
    /\ hub[h].observed = hub[h].generation
    /\ hub[h].conditions.ready # None
    /\ hub[h].conditions.ready.generation = hub[h].generation

Agree(c) ==
  c.ready # None /\ c.ready.outcome = "ok" =>
    c.reconciling = None /\ c.healthy \in {None, c.ready}

\* The conditions on the server are those of one reconciliation, although each
\* is computed from a stale copy and sent as a difference: a hub that is Ready
\* is not Reconciling and not unhealthy.
ConditionsAgree == \A h \in Hubs : hub[h] # None => Agree(hub[h].conditions)

\* A Deployment is not rolled back: no worker or retry writes what it rendered
\* from an older spec over a newer one.
RollsForward ==
  [][\A h \in Hubs :
       LET old == object[h]["deployment"]
           new == object'[h]["deployment"] IN
       old # None /\ new # None /\ old.owner = new.owner /\ new.template # 0
         => old.template <= new.template]_vars

\* "can not take ownership of existing resource" (swaggerhub_controller.go:625):
\* what a stranger put under the name is never changed into the hub's.
TakesNothingOver ==
  [][\A h \in Hubs, k \in Kinds :
       object[h][k] # None /\ object[h][k].owner = Stranger
         => object'[h][k] = None \/ object'[h][k].owner = Stranger]_vars

Obstructed(h) == \E k \in Kinds : object[h][k] # None /\ object[h][k].owner = Stranger

\* When users and faults are quiet, a hub comes to rest with its objects rolled
\* out, even one re-created while the objects of its predecessor still exist and
\* block it until the garbage collector has removed them.
Converges ==
  \A h \in Hubs : <>[](Managed(h) /\ hub[h].spec.valid /\ ~Obstructed(h)
                         => Settled(h) /\ RolledOut(h))

\* A hub that cannot be reconciled, because of its selectors or of a stranger's
\* object under its name, says so.
FailureReported ==
  \A h \in Hubs : <>[](Managed(h) /\ (Obstructed(h) \/ ~hub[h].spec.valid) =>
    hub[h].conditions.ready # None /\ hub[h].conditions.ready.outcome = "failed")

\* What a deleted hub owned goes, also what a reconciliation in progress created
\* after the deletion.
Collected ==
  \A h \in Hubs : <>[](hub[h] = None => \A k \in Kinds :
    object[h][k] # None => object[h][k].owner = Stranger /\ object[h][k].template = 0)

-------------------------------------------------------------------------------
(* The inductive invariant.                                                  *)

\* No hub is reconciled by two workers.
Exclusive ==
  \A v, w \in Workers :
    attempt[v] # None /\ attempt[w] # None /\ attempt[v].key = attempt[w].key => v = w

\* One is a later state of the other, or of its predecessor under the name.
Precedes(old, new) ==
  old # None /\ new # None =>
    /\ old.uid <= new.uid
    /\ old.uid = new.uid => /\ old.generation <= new.generation
                            /\ old.generation = new.generation => old.spec = new.spec

\* UIDs are not used again and start above Stranger, and a worker's copy, the
\* cached hub and the one on the server follow each other.
CopiesInOrder ==
  \A h \in Hubs :
    /\ \A c \in {hub[h], cachedHub[h]} : c # None => c.uid \in 1..clock
    /\ Precedes(cachedHub[h], hub[h])
    /\ \A w \in Workers : attempt[w] # None /\ attempt[w].key = h =>
         /\ attempt[w].copy.uid \in 1..clock
         /\ Precedes(attempt[w].copy, cachedHub[h]) /\ Precedes(attempt[w].copy, hub[h])

SameHub(h) == hub[h] # None /\ cachedHub[h] # None /\ hub[h].uid = cachedHub[h].uid

\* The status on the server is the cached one or what a reconciliation of the
\* cached hub made of it.
StatusTrails ==
  \A h \in Hubs : SameHub(h) =>
    /\ hub[h].observed \in {cachedHub[h].observed, cachedHub[h].generation}
    /\ \/ hub[h].conditions = cachedHub[h].conditions
       \/ /\ hub[h].conditions.ready # None
          /\ hub[h].conditions.ready.generation = cachedHub[h].generation

\* A reconciliation of the cached hub is not due any more.
Done(h) ==
  /\ h \notin queue \cup delayed /\ ~Busy(h)
  /\ cachedHub[h] # None /\ ~cachedHub[h].spec.suspend

ObservedOrPending ==
  \A h \in Hubs : Done(h) /\ SameHub(h) =>
    /\ hub[h].observed = cachedHub[h].generation
    /\ hub[h].conditions.ready # None
    /\ hub[h].conditions.ready.generation = cachedHub[h].generation

\* Object k is the one of this copy of the hub, or an event that brings the key
\* back is on its way.
InPlace(h, k, copy) ==
  \/ h \in queue \/ <<h, k, TRUE>> \in unseen
  \/ /\ object[h][k] # None /\ object[h][k].owner = copy.uid
     /\ k = "deployment" => object[h][k].template = copy.generation

RolledOutOrPending ==
  /\ \A h \in Hubs : Done(h) =>
       cachedHub[h].spec.valid /\ \A k \in Kinds : InPlace(h, k, cachedHub[h])
  /\ \A w \in Workers : attempt[w] # None /\ attempt[w].outcome # "failed" =>
       LET a == attempt[w] IN
       /\ a.copy.spec.valid
       /\ a.stage # "service" => InPlace(a.key, "service", a.copy)
       /\ a.stage \in {"health", "patch"} => InPlace(a.key, "deployment", a.copy)

\* An error skips the writes and the health check that were left.
FailureEnds ==
  \A w \in Workers :
    attempt[w] # None /\ attempt[w].outcome = "failed" => attempt[w].stage = "patch"

\* The Deployment is not newer than any copy of the hub that owns it.
RenderedFrom(h, copy) ==
  LET app == object[h]["deployment"] IN
  app # None /\ copy # None /\ app.owner = copy.uid => app.template <= copy.generation

RendersInOrder ==
  /\ \A h \in Hubs :
       /\ object[h]["deployment"] # None => object[h]["deployment"].owner <= clock
       /\ RenderedFrom(h, hub[h]) /\ RenderedFrom(h, cachedHub[h])
  /\ \A w \in Workers : attempt[w] # None => RenderedFrom(attempt[w].key, attempt[w].copy)

\* What holds in every reachable state and makes each step keep it: whatever still
\* has to happen is in the queue, on its way to the caches or being done.
IInv ==
  /\ Exclusive /\ CopiesInOrder /\ StatusTrails /\ ObservedOrPending
  /\ RolledOutOrPending /\ FailureEnds /\ RendersInOrder

===============================================================================
