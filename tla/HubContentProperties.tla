-------------------------- MODULE HubContentProperties --------------------------
(***************************************************************************)
(* What the content of a SwaggerHub has to be.                             *)
(***************************************************************************)
EXTENDS HubContent

Version == Nat \cup {None}

IsSorted(list) == \A i, j \in DOMAIN list : i < j => list[i] < list[j]

Listed(list) == {list[i] : i \in DOMAIN list}

\* What a reconciliation has collected is sorted, and comes before what is left.
IsAttempt(a) ==
  /\ a \in Attempt
  /\ IsSorted(a.mounts)
  /\ \A s \in Listed(a.mounts) : \A r \in a.pending : s < r

\* Every field has been created or applied.
IsDeployment(d) ==
  d \in [fields : [d.created \cup d.applied -> Seq(Sources)],
         created : SUBSET Fields, applied : SUBSET Fields]

\* The type of every variable.
TypeOK ==
  /\ template \in Templates /\ cachedTemplate \in Templates
  /\ source \in [Sources -> Version] /\ cachedSource \in [Sources -> Version]
  /\ original \in [Sources -> Version] /\ cachedOriginal \in [Sources -> Version]
  /\ absent \in SUBSET Sources
  /\ copy \in [Sources -> Version] /\ cachedCopy \in [Sources -> Version]
  /\ \A s \in Sources \ Foreign : copy[s] = None
  /\ deployment # None => IsDeployment(deployment)
  /\ cachedDeployment # None => IsDeployment(cachedDeployment)
  /\ unseen \in BOOLEAN /\ queued \in BOOLEAN /\ delayed \in BOOLEAN
  /\ attempt # None => IsAttempt(attempt)
  /\ clock \in 0..MaxClock

\* Nothing is on its way that would start another reconciliation.
Settled ==
  /\ ~queued /\ ~delayed /\ attempt = None
  /\ cachedTemplate = template /\ cachedSource = source /\ ~unseen

\* What the last write put into the Deployment; the rest is left of its creation.
Current(d) == IF d.applied = {} THEN d.created ELSE d.applied

Mounts(d) == IF d # None /\ Volume \in Current(d) THEN d.fields[Volume] ELSE <<>>

URLs == <<"swagger-ui", "API_URLS">>
Mount == <<"swagger-ui", "definitions">>

\* Swagger UI offers what is mounted into it, and nothing else: URLs and volumes
\* are collected apart, a reference may be skipped or fail half-way, and users'
\* containers are merged over the one that holds them (unless they set API_URLS
\* themselves, which has the value <<>> here).
OffersWhatIsMounted ==
  deployment # None =>
    /\ URLs \in Current(deployment) => deployment.fields[URLs] \in {<<>>, Mounts(deployment)}
    /\ IF Mounts(deployment) = <<>> THEN Mount \notin Current(deployment)
       ELSE {URLs, Mount} \subseteq Current(deployment)

\* Once nothing is pending the Deployment is there, and another Apply of what the
\* hub's template now says would change nothing, although the reconciliation writes
\* in several steps, any of which may fail or find its cache behind.  (Fields that
\* Create wrote and no Apply ever changed stay when the template drops them.)
SettledIsRendered ==
  Settled =>
    /\ deployment # None
    /\ LET mounts == Mounts(deployment) IN
       deployment = Applied(deployment, Rendered(mounts, mounts, template))

\* Once nothing is pending no deleted source is left in what was last applied.  (If
\* the list becomes empty, one that Create wrote and no Apply changed stays.)
SettledHasNoGhosts ==
  Settled => \A s \in Listed(Mounts(deployment)) : source[s] # None

\* Once nothing is pending every source is offered whose ConfigMap has been there
\* all the time, however late the two caches show one and the other.  (One whose
\* ConfigMap comes late is left out until something else wakes the hub.)
SettledOffersEverything ==
  Settled => \A s \in Sources \ absent : source[s] # None => s \in Listed(Mounts(deployment))

\* "sources from another namespace are copied into the namespace of the hub"
\* (swaggerhub_controller.go:454): at rest the copies that are mounted exist, or
\* no pod of the hub can start.
SettledIsMounted ==
  Settled => \A s \in Listed(Mounts(deployment)) \cap Foreign : copy[s] # None

\* When users and faults are quiet the hub comes to rest.  It is woken by events of
\* the Deployment it writes: it would not if it rendered it differently each time.
\* (A template that names a new container twice is refused for ever.)
Rests == <>[](Admitted(template) => Settled)

-------------------------------------------------------------------------------
(* The inductive invariant.                                                  *)

\* What the last write put into the Deployment was rendered from its own mounts.
Shows(d, patches) ==
  LET new == Rendered(Mounts(d), Mounts(d), patches) IN
  Current(d) = DOMAIN new /\ \A l \in DOMAIN new : d.fields[l] = new[l]

DeploymentIsRendered ==
  deployment # None =>
    /\ Mounts(deployment) \in Seq(Sources) /\ IsSorted(Mounts(deployment))
    /\ \E patches \in Templates : Shows(deployment, patches)

\* URLs and mounts grow together.
InStep == attempt # None => attempt.urls = attempt.mounts

\* The sources the controller knows of, and those of them it must not leave out.
Known == {s \in Sources : cachedSource[s] # None}
Due == Known \ absent

\* A reconciliation works on what the caches hold, or is followed by another.
AttemptIsCurrent ==
  attempt # None /\ ~queued =>
    /\ attempt.template = cachedTemplate
    /\ Listed(attempt.mounts) \cup attempt.pending \subseteq Known
    /\ Due \subseteq Listed(attempt.mounts) \cup attempt.pending

\* A source that has always had its ConfigMap has it in the cache as well.
PresentIsCached ==
  \A s \in Sources \ absent : original[s] # None /\ cachedOriginal[s] # None

\* A write that changed the Deployment is followed by its event.  At rest the last
\* one changed nothing.
RestIsCurrent ==
  ~queued /\ ~delayed /\ attempt = None /\ ~unseen =>
    LET mounts == Mounts(deployment) IN
    /\ deployment # None
    /\ deployment = Applied(deployment, Rendered(mounts, mounts, cachedTemplate))
    /\ Listed(mounts) \subseteq Known /\ Due \subseteq Listed(mounts)

\* What holds in every reachable state and makes each step keep it.
IInv ==
  /\ DeploymentIsRendered /\ InStep /\ AttemptIsCurrent /\ PresentIsCached
  /\ RestIsCurrent

===============================================================================
