------------------------------- MODULE HubContent -------------------------------
(***************************************************************************)
(* What a SwaggerHub serves: reconcile                                     *)
(* (internal/controllers/swaggerhub_controller.go) goes through the        *)
(* SwaggerDefinitions and SwaggerSpecifications the hub selects, lists and *)
(* mounts the ConfigMaps it finds, copies those of other namespaces into   *)
(* the hub's, and renders a Deployment from them and the hub's template.   *)
(*                                                                         *)
(* One hub, whose own life, Service, status and conflicts with strangers   *)
(* are the subject of SwaggerHub, and whose selection is that of Discovery. *)
(* The sources' ConfigMaps are written by the two other controllers.       *)
(***************************************************************************)
EXTENDS ContainerMerge

CONSTANTS Sources,    \* selected objects, numbered in the order they are listed
          Foreign,    \* those of another namespace than the hub's
          Containers, \* the names of containers users put into spec.deploymentTemplate
          Settings,   \* the fields of a container they set there
          Templates,  \* the lists of containers they put there
          MaxClock,   \* bound on what users, the other controllers and faults do
          None        \* absent object

\* A value of a field is the list of sources it names; whatever users set names none.
Patch == [name : Containers, fields : UNION {[F -> {<<>>}] : F \in SUBSET Settings}]

\* A Deployment has fields in its containers, by name and path, and one in the pod.
Volume == <<"definitions">>
Fields ==
  {Volume} \cup (Containers \cup {"swagger-ui"})
                 \X (Settings \cup {"image", "API_URLS", "definitions"})

\* Its fields, and those that Create and Apply own.
Deployment == [fields : UNION {[F -> Seq(Sources)] : F \in SUBSET Fields},
               created : SUBSET Fields, applied : SUBSET Fields]

\* A reconciliation: what it has still to look at, and what it has collected.
Attempt == [template : Templates, pending : SUBSET Sources,
            urls : Seq(Sources), mounts : Seq(Sources)]

ASSUME SourcesAssumption == Sources \subseteq Nat /\ Foreign \subseteq Sources
\* The path definitions are mounted at is the controller's.
ASSUME TemplatesAssumption == Templates \subseteq Seq(Patch) /\ "definitions" \notin Settings
ASSUME MaxClockAssumption == MaxClock \in Nat
ASSUME NoneAssumption == None \notin Nat \cup Deployment \cup Attempt

VARIABLES
  template,          \* spec.deploymentTemplate on the API server
  cachedTemplate,    \* the same in the informer cache
  source,            \* version of the sources on the API server
  cachedSource,      \* the same in the informer cache
  original,          \* version of each source's ConfigMap on the API server
  cachedOriginal,    \* the same in the informer cache
  absent,            \* history: sources that have been without one at some time
  copy,              \* version of the copies in the hub's namespace
  cachedCopy,        \* the same in the informer cache
  deployment,        \* the Deployment on the API server
  cachedDeployment,  \* the same in the informer cache
  unseen,            \* events of the Deployment are on their way
  queued,            \* the hub's key is in the work queue
  delayed,           \* it joins the queue after a back-off
  attempt,           \* the reconciliation in progress
  clock              \* disturbances so far

hub == <<template, cachedTemplate>>
inputs == <<source, cachedSource, original, cachedOriginal, absent>>
copies == <<copy, cachedCopy>>
output == <<deployment, cachedDeployment, unseen>>
work == <<queued, delayed, attempt>>
vars == <<hub, inputs, copies, output, work, clock>>

Nothing == [s \in Sources |-> None]

\* The controller starts, and the hub and its sources are there.
Init ==
  /\ template \in Templates /\ cachedTemplate = template
  /\ source = [s \in Sources |-> 0] /\ cachedSource = source
  /\ original \in [Sources -> {0, None}] /\ cachedOriginal = original
  /\ absent = {s \in Sources : original[s] = None}
  /\ copy = Nothing /\ cachedCopy = Nothing
  /\ deployment = None /\ cachedDeployment = None /\ unseen = FALSE
  /\ queued = TRUE /\ delayed = FALSE /\ attempt = None
  /\ clock = 0

-------------------------------------------------------------------------------
(* Users, the other controllers and the garbage collector.                  *)

Tick == clock < MaxClock /\ clock' = clock + 1

EditTemplate ==
  /\ Tick
  /\ template' \in Templates \ {template}
  /\ UNCHANGED <<cachedTemplate, inputs, copies, output, work>>

DeleteDeployment ==
  /\ Tick
  /\ deployment # None
  /\ deployment' = None /\ unseen' = TRUE
  /\ UNCHANGED <<hub, inputs, copies, cachedDeployment, work>>

\* A source is created or changed, be it its status, or deleted.
ChangeSource(s) ==
  /\ Tick
  /\ \E v \in {clock + 1, None} : v # source[s] /\ source' = [source EXCEPT ![s] = v]
  /\ UNCHANGED <<hub, cachedSource, original, cachedOriginal, absent, copies, output, work>>

\* Its controller publishes a document, which it may do after a deletion it does
\* not know of; the collector or a user removes it.
ChangeOriginal(s) ==
  /\ Tick
  /\ \/ original' = [original EXCEPT ![s] = clock + 1] /\ UNCHANGED absent
     \/ /\ original[s] # None
        /\ original' = [original EXCEPT ![s] = None] /\ absent' = absent \cup {s}
  /\ UNCHANGED <<hub, source, cachedSource, cachedOriginal, copies, output, work>>

\* A copy keeps the ownerReference of the original, to an object of another
\* namespace: the garbage collector looks for it in the copy's and finds none.
CollectCopy(s) ==
  /\ copy[s] # None
  /\ copy' = [copy EXCEPT ![s] = None]
  /\ UNCHANGED <<hub, inputs, cachedCopy, output, work, clock>>

-------------------------------------------------------------------------------
(* Informers and the work queue.  Neither originals nor copies are watched.  *)

DeliverTemplate ==
  /\ cachedTemplate # template
  /\ cachedTemplate' = template
  /\ queued' = TRUE
  /\ UNCHANGED <<template, inputs, copies, output, delayed, attempt, clock>>

\* Mutants: deletions, or creations, are not mapped to hubs.
RequestsWhilePresent(s) == source[s] # None
RequestsForKnown(s) == cachedSource[s] # None

\* requestsForChangeBy...Selector, for every event of a selected source.
Requests(s) == TRUE

DeliverSource(s) ==
  /\ cachedSource[s] # source[s]
  /\ cachedSource' = [cachedSource EXCEPT ![s] = source[s]]
  /\ queued' = (queued \/ Requests(s))
  /\ UNCHANGED <<hub, source, original, cachedOriginal, absent, copies, output, delayed, attempt, clock>>

DeliverOriginal(s) ==
  /\ cachedOriginal[s] # original[s]
  /\ cachedOriginal' = [cachedOriginal EXCEPT ![s] = original[s]]
  /\ UNCHANGED <<hub, source, cachedSource, original, absent, copies, output, work, clock>>

DeliverCopy(s) ==
  /\ cachedCopy[s] # copy[s]
  /\ cachedCopy' = [cachedCopy EXCEPT ![s] = copy[s]]
  /\ UNCHANGED <<hub, inputs, copy, output, work, clock>>

DeliverDeployment ==
  /\ unseen
  /\ cachedDeployment' = deployment /\ unseen' = FALSE
  /\ queued' = TRUE
  /\ UNCHANGED <<hub, inputs, copies, deployment, delayed, attempt, clock>>

Requeue ==
  /\ delayed
  /\ delayed' = FALSE /\ queued' = TRUE
  /\ UNCHANGED <<hub, inputs, copies, output, attempt, clock>>

-------------------------------------------------------------------------------
(* Reconcile, one reference at a time.                                      *)

\* extendhubWithDefinitions and ...Specifications list what the cache has.
Begin ==
  /\ queued /\ attempt = None
  /\ queued' = FALSE
  /\ attempt' = [template |-> cachedTemplate, pending |-> {s \in Sources : cachedSource[s] # None},
                 urls |-> <<>>, mounts |-> <<>>]
  /\ UNCHANGED <<hub, inputs, copies, output, delayed, clock>>

Working == attempt # None

\* Mutant: the references come in the order of the cache.
AtAny(s) == Working /\ s \in attempt.pending

\* The loop over the references comes to s: they are sorted.
At(s) == Working /\ s \in attempt.pending /\ \A r \in attempt.pending : s <= r

\* Without a ConfigMap in the cache the reference is skipped, and not requeued.
SkipReference(s) ==
  /\ At(s) /\ cachedOriginal[s] = None
  /\ attempt' = [attempt EXCEPT !.pending = @ \ {s}]
  /\ UNCHANGED <<hub, inputs, copies, output, queued, delayed, clock>>

\* Mutants: the loop does not advance; a reference with a URL and no mount.
ReferencedStill(s) == attempt' = [attempt EXCEPT !.urls = Append(@, s), !.mounts = Append(@, s)]
ReferencedUnmounted(s) ==
  attempt' = [attempt EXCEPT !.pending = @ \ {s}, !.urls = Append(@, s)]

Referenced(s) ==
  attempt' = [attempt EXCEPT !.pending = @ \ {s}, !.urls = Append(@, s), !.mounts = Append(@, s)]

UseLocal(s) ==
  /\ At(s) /\ cachedOriginal[s] # None /\ s \notin Foreign
  /\ Referenced(s)
  /\ UNCHANGED <<hub, inputs, copies, output, queued, delayed, clock>>

\* Mutant: an error ends the reconciliation for good.
GiveUp == attempt' = None /\ UNCHANGED delayed

Fail == attempt' = None /\ delayed' = TRUE

\* Create or, with the UID and resourceVersion the cache holds, Update; the server
\* refuses the first if the copy is there, the second unless it is as cached.
Copy(s) ==
  /\ At(s) /\ cachedOriginal[s] # None /\ s \in Foreign
  /\ cachedCopy[s] = copy[s]
  /\ copy' = [copy EXCEPT ![s] = cachedOriginal[s]]
  /\ UNCHANGED <<hub, inputs, cachedCopy, output, queued>>

UseForeign(s) == Copy(s) /\ Referenced(s) /\ UNCHANGED <<delayed, clock>>

CopyRefused(s) ==
  /\ At(s) /\ cachedOriginal[s] # None /\ s \in Foreign
  /\ cachedCopy[s] # copy[s]
  /\ Fail
  /\ UNCHANGED <<hub, inputs, copies, output, queued, clock>>

\* The container of swagger-ui, with API_URLS and the mounted volume, if any.
SwaggerUI(urls, mounts) ==
  [f \in {"image"} \cup (IF urls # <<>> THEN {"API_URLS"} ELSE {})
                   \cup (IF mounts # <<>> THEN {"definitions"} ELSE {}) |->
     IF f = "API_URLS" THEN urls ELSE <<>>]

Base(urls, mounts) == [n \in {"swagger-ui"} |-> SwaggerUI(urls, mounts)]

\* The containers, patched, and their fields.
Merged(urls, mounts, patches) ==
  MergePatchContainers(Base(urls, mounts), patches)
FieldsOf(containers) == UNION {{n} \X DOMAIN containers[n] : n \in DOMAIN containers}

\* The Deployment: the fields of its containers, and the volume.
Rendered(urls, mounts, patches) ==
  LET containers == Merged(urls, mounts, patches) IN
  [l \in FieldsOf(containers) \cup (IF mounts # <<>> THEN {Volume} ELSE {}) |->
     IF l = Volume THEN mounts ELSE containers[l[1]][l[2]]]

Created(new) == [fields |-> new, created |-> DOMAIN new, applied |-> {}]

\* A forced Apply takes the fields it changes away from who created them, and
\* removes those it left out if nobody else owns them.  Create owns what it wrote:
\* it goes by another field manager than Apply.
Applied(old, new) ==
  [fields |-> [l \in DOMAIN new \cup old.created |->
                 IF l \in DOMAIN new THEN new[l] ELSE old.fields[l]],
   created |-> {l \in old.created : l \in DOMAIN new => new[l] = old.fields[l]},
   applied |-> DOMAIN new]

Unwritten == [fields |-> <<>>, created |-> {}, applied |-> {}]

\* The API server refuses a Deployment with two containers of one name.
Admitted(patches) == Repeated(Base(<<>>, <<>>), patches) = {}

\* Create or a forced Apply, as the cache says; the Apply creates a Deployment that
\* has gone.
Write ==
  /\ Working /\ attempt.pending = {} /\ Admitted(attempt.template)
  /\ \E new \in {Rendered(attempt.urls, attempt.mounts, attempt.template)} :
     IF cachedDeployment = None THEN deployment = None /\ deployment' = Created(new)
     ELSE deployment' = Applied(IF deployment = None THEN Unwritten ELSE deployment, new)
  /\ unseen' = (unseen \/ deployment' # deployment)
  /\ UNCHANGED <<hub, inputs, copies, cachedDeployment, queued>>

\* What the status patch then says is SwaggerHub's.
WriteDeployment == Write /\ attempt' = None /\ UNCHANGED <<delayed, clock>>

WriteRefused ==
  /\ Working /\ attempt.pending = {}
  /\ ~Admitted(attempt.template) \/ (cachedDeployment = None /\ deployment # None)
  /\ Fail
  /\ UNCHANGED <<hub, inputs, copies, output, queued, clock>>

Lost == UNCHANGED <<hub, inputs, copies, output, queued>>

\* The API server is unavailable at some point of the reconciliation: a call is lost,
\* or has its effect and the answer is.
Interrupt ==
  /\ Tick /\ Working
  /\ Lost \/ Write \/ \E s \in Sources : Copy(s)
  /\ Fail

Restart ==
  /\ Tick
  /\ cachedTemplate' = template /\ cachedSource' = source /\ cachedOriginal' = original
  /\ cachedCopy' = copy /\ cachedDeployment' = deployment
  /\ unseen' = FALSE /\ queued' = TRUE /\ delayed' = FALSE /\ attempt' = None
  /\ UNCHANGED <<template, source, original, absent, copy, deployment>>

-------------------------------------------------------------------------------
Deliver(s) == DeliverSource(s) \/ DeliverOriginal(s) \/ DeliverCopy(s)

Reference(s) == SkipReference(s) \/ UseLocal(s) \/ UseForeign(s) \/ CopyRefused(s)

Advance == (\E s \in Sources : Reference(s)) \/ WriteDeployment \/ WriteRefused

Next ==
  \/ EditTemplate \/ DeleteDeployment \/ Interrupt \/ Restart
  \/ \E s \in Sources : ChangeSource(s) \/ ChangeOriginal(s) \/ CollectCopy(s) \/ Deliver(s)
  \/ DeliverTemplate \/ DeliverDeployment \/ Requeue
  \/ Begin \/ Advance

Spec == Init /\ [][Next]_vars

\* Informers, back-offs and the worker do not stop.
Fairness ==
  /\ WF_vars(DeliverTemplate) /\ WF_vars(DeliverDeployment)
  /\ \A s \in Sources : WF_vars(Deliver(s))
  /\ WF_vars(Requeue) /\ WF_vars(Begin) /\ WF_vars(Advance)

FairSpec == Spec /\ Fairness

===============================================================================
