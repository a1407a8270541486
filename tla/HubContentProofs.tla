---------------------------- MODULE HubContentProofs ----------------------------
(***************************************************************************)
(* Theorems about HubContent, for every set of sources, every templates    *)
(* and every bound on the disturbances.                                    *)
(***************************************************************************)
EXTENDS HubContentProperties, ContainerMergeProofs

USE DEF hub, inputs, copies, output, work

-------------------------------------------------------------------------------
(* Lists of sources.                                                        *)

LEMMA AppendLists ==
  ASSUME NEW list \in Seq(Sources), NEW s \in Sources
  PROVE  /\ Append(list, s) \in Seq(Sources)
         /\ Listed(Append(list, s)) = Listed(list) \cup {s}
<1>1. /\ Len(list) \in Nat /\ DOMAIN list = 1..Len(list)
      /\ DOMAIN Append(list, s) = 1..(Len(list) + 1)
      /\ \A i \in 1..Len(list) : Append(list, s)[i] = list[i]
      /\ Append(list, s)[Len(list) + 1] = s
  BY LenProperties, AppendProperties
<1>2. 1..(Len(list) + 1) = (1..Len(list)) \cup {Len(list) + 1}
  BY <1>1
<1>. QED BY <1>1, <1>2, AppendProperties DEF Listed

LEMMA AppendSorts ==
  ASSUME NEW list \in Seq(Sources), NEW s \in Sources, IsSorted(list),
         \A r \in Listed(list) : r < s
  PROVE  IsSorted(Append(list, s))
<1>1. /\ Len(list) \in Nat /\ DOMAIN list = 1..Len(list)
      /\ DOMAIN Append(list, s) = 1..(Len(list) + 1)
      /\ \A i \in 1..Len(list) : Append(list, s)[i] = list[i]
      /\ Append(list, s)[Len(list) + 1] = s
  BY LenProperties, AppendProperties
<1>2. \A i \in 1..Len(list) : list[i] < s
  BY <1>1 DEF Listed
<1>3. ASSUME NEW i \in 1..(Len(list) + 1), NEW j \in 1..(Len(list) + 1), i < j
      PROVE  Append(list, s)[i] < Append(list, s)[j]
  <2>1. i \in 1..Len(list)
    BY <1>1, <1>3
  <2>2. CASE j = Len(list) + 1
    BY <1>1, <1>2, <2>1, <2>2
  <2>3. CASE j # Len(list) + 1
    <3>1. j \in 1..Len(list)
      BY <1>1, <2>3
    <3>. QED BY <1>1, <1>3, <2>1, <3>1 DEF IsSorted
  <2>. QED BY <2>2, <2>3
<1>. QED BY <1>1, <1>3 DEF IsSorted

LEMMA EmptyList == <<>> \in Seq(Sources) /\ Listed(<<>>) = {} /\ IsSorted(<<>>)
  BY EmptySeq DEF Listed, IsSorted

-------------------------------------------------------------------------------
(* What is rendered.                                                        *)

\* Whatever users put into the template is typed.
LEMMA PatchTyped ==
  ASSUME NEW patches \in Templates, NEW i \in DOMAIN patches
  PROVE  /\ patches[i].name \in Containers /\ DOMAIN patches[i].fields \subseteq Settings
         /\ \A f \in DOMAIN patches[i].fields : patches[i].fields[f] = <<>>
<1>1. patches \in Seq(Patch)
  BY TemplatesAssumption
<1>2. patches[i] \in Patch
  BY <1>1, LenProperties, ElementOfSeq
<1>3. PICK F \in SUBSET Settings : patches[i].fields \in [F -> {<<>>}]
  BY <1>2 DEF Patch
<1>4. patches[i].name \in Containers
  BY <1>2 DEF Patch
<1>. QED BY <1>3, <1>4

\* The containers: their fields, and those of swagger-ui that matter.
LEMMA MergedTyped ==
  ASSUME NEW mounts \in Seq(Sources), NEW patches \in Templates
  PROVE  LET containers == Merged(mounts, mounts, patches)
             ui == containers["swagger-ui"] IN
         /\ DOMAIN containers \subseteq Containers \cup {"swagger-ui"}
         /\ \A n \in DOMAIN containers : \A f \in DOMAIN containers[n] :
              /\ f \in Settings \cup {"image", "API_URLS", "definitions"}
              /\ containers[n][f] \in Seq(Sources)
         /\ "swagger-ui" \in DOMAIN containers
         /\ "image" \in DOMAIN ui
         /\ "API_URLS" \in DOMAIN ui => ui["API_URLS"] \in {<<>>, mounts}
         /\ mounts # <<>> => {"API_URLS", "definitions"} \subseteq DOMAIN ui
         /\ mounts = <<>> => "definitions" \notin DOMAIN ui
<1> DEFINE base == [n \in {"swagger-ui"} |-> SwaggerUI(mounts, mounts)]
           own == SwaggerUI(mounts, mounts)
           containers == MergePatchContainers(base, patches)
           ui == containers["swagger-ui"]
<1>1. patches \in Seq(Patch) /\ "definitions" \notin Settings
  BY TemplatesAssumption
<1>2. /\ "image" \in DOMAIN own /\ DOMAIN own \subseteq {"image", "API_URLS", "definitions"}
      /\ \A f \in DOMAIN own : own[f] \in {<<>>, mounts}
      /\ mounts # <<>> => {"API_URLS", "definitions"} \subseteq DOMAIN own
      /\ mounts = <<>> => "definitions" \notin DOMAIN own
  BY DEF SwaggerUI
<1>3. DOMAIN base = {"swagger-ui"} /\ base["swagger-ui"] = own
  OBVIOUS
<1>4. DOMAIN containers = {"swagger-ui"} \cup NamesIn(patches)
  BY <1>3, EveryContainerIsMerged
<1>5. NamesIn(patches) \subseteq Containers
  BY PatchTyped DEF NamesIn
<1>6. /\ "image" \in DOMAIN ui
      /\ \A f \in DOMAIN ui : /\ f \in Settings \cup {"image", "API_URLS", "definitions"}
                              /\ ui[f] \in {<<>>, mounts}
      /\ mounts # <<>> => {"API_URLS", "definitions"} \subseteq DOMAIN ui
      /\ mounts = <<>> => "definitions" \notin DOMAIN ui
  <2>1. CASE "swagger-ui" \notin NamesIn(patches)
    <3>1. ui = own
      BY <1>1, <1>3, <2>1, LastPatchWins
    <3>. QED BY <1>2, <3>1
  <2>2. CASE "swagger-ui" \in NamesIn(patches)
    <3>1. PICK last \in DOMAIN patches :
            /\ DOMAIN ui = DOMAIN own \cup DOMAIN patches[last].fields
            /\ \A f \in DOMAIN patches[last].fields : ui[f] = patches[last].fields[f]
            /\ \A f \in DOMAIN own \ DOMAIN patches[last].fields : ui[f] = own[f]
      BY <1>1, <1>3, <2>2, LastPatchWins
    <3>2. /\ DOMAIN patches[last].fields \subseteq Settings
          /\ \A f \in DOMAIN patches[last].fields : patches[last].fields[f] = <<>>
      BY PatchTyped
    <3>. QED BY <1>1, <1>2, <3>1, <3>2
  <2>. QED BY <2>1, <2>2
<1>7. ASSUME NEW n \in DOMAIN containers, n # "swagger-ui", NEW f \in DOMAIN containers[n]
      PROVE  f \in Settings /\ containers[n][f] = <<>>
  <2>1. n \in NamesIn(patches) \ DOMAIN base
    BY <1>3, <1>4, <1>7
  <2>2. PICK last \in DOMAIN patches : containers[n] = patches[last].fields
    BY <1>1, <2>1, NewContainersAreTheLast
  <2>. QED BY <1>7, <2>2, PatchTyped
<1>8. Merged(mounts, mounts, patches) = containers
  BY DEF Merged, Base
<1>9. <<>> \in Seq(Sources)
  BY EmptyList
<1>. HIDE DEF containers
<1>. QED BY <1>4, <1>5, <1>6, <1>7, <1>8, <1>9


LEMMA PairIsField ==
  ASSUME NEW containers, NEW n, NEW f
  PROVE  <<n, f>> \in FieldsOf(containers) <=>
           n \in DOMAIN containers /\ f \in DOMAIN containers[n]
  BY DEF FieldsOf

LEMMA VolumeIsNoPair == \A n, f : Volume # <<n, f>>
  BY DEF Volume

\* The Deployment: its fields, and those that matter.
LEMMA RenderedTyped ==
  ASSUME NEW mounts \in Seq(Sources), NEW patches \in Templates
  PROVE  LET new == Rendered(mounts, mounts, patches) IN
         /\ DOMAIN new \subseteq Fields /\ DOMAIN new # {}
         /\ new \in [DOMAIN new -> Seq(Sources)]
         /\ Volume \in DOMAIN new <=> mounts # <<>>
         /\ mounts # <<>> => new[Volume] = mounts
         /\ URLs \in DOMAIN new => new[URLs] \in {<<>>, mounts}
         /\ mounts # <<>> => {URLs, Mount} \subseteq DOMAIN new
         /\ mounts = <<>> => Mount \notin DOMAIN new
<1> DEFINE containers == Merged(mounts, mounts, patches)
           ui == containers["swagger-ui"]
           new == Rendered(mounts, mounts, patches)
           volume == IF mounts # <<>> THEN {Volume} ELSE {}
<1>1. /\ DOMAIN containers \subseteq Containers \cup {"swagger-ui"}
      /\ \A n \in DOMAIN containers : \A f \in DOMAIN containers[n] :
           /\ f \in Settings \cup {"image", "API_URLS", "definitions"}
           /\ containers[n][f] \in Seq(Sources)
      /\ "swagger-ui" \in DOMAIN containers /\ "image" \in DOMAIN ui
      /\ "API_URLS" \in DOMAIN ui => ui["API_URLS"] \in {<<>>, mounts}
      /\ mounts # <<>> => {"API_URLS", "definitions"} \subseteq DOMAIN ui
      /\ mounts = <<>> => "definitions" \notin DOMAIN ui
  BY MergedTyped
<1> HIDE DEF containers
<1>2. /\ DOMAIN new = FieldsOf(containers) \cup volume
      /\ \A l \in DOMAIN new : new[l] = IF l = Volume THEN mounts ELSE containers[l[1]][l[2]]
      /\ new = [l \in DOMAIN new |-> new[l]]
  BY DEF Rendered, containers
<1> HIDE DEF new
<1>3. \A l \in FieldsOf(containers) :
        \E n \in DOMAIN containers : \E f \in DOMAIN containers[n] : l = <<n, f>>
  BY DEF FieldsOf
<1>4. Volume \notin FieldsOf(containers)
  BY <1>3, VolumeIsNoPair
<1>5. ASSUME NEW n \in DOMAIN containers, NEW f \in DOMAIN containers[n]
      PROVE  <<n, f>> \in DOMAIN new /\ new[<<n, f>>] = containers[n][f]
  <2>1. <<n, f>> \in DOMAIN new
    BY <1>2, PairIsField
  <2>2. new[<<n, f>>] = IF <<n, f>> = Volume THEN mounts ELSE containers[<<n, f>>[1]][<<n, f>>[2]]
    BY <1>2, <2>1, Zenon
  <2>3. <<n, f>> # Volume
    BY VolumeIsNoPair, Zenon
  <2>. QED BY <2>1, <2>2, <2>3
<1>6. \A l \in FieldsOf(containers) : l \in Fields /\ new[l] \in Seq(Sources)
  BY <1>1, <1>3, <1>5 DEF Fields
<1>7. Volume \in Fields
  BY DEF Fields
<1>8. \A l \in DOMAIN new : l \in Fields /\ new[l] \in Seq(Sources)
  BY <1>2, <1>6, <1>7
<1>9. <<"swagger-ui", "image">> \in DOMAIN new
  BY <1>1, <1>5
<1>10. Volume \in DOMAIN new <=> mounts # <<>>
  BY <1>2, <1>4
<1>11. mounts # <<>> => new[Volume] = mounts
  BY <1>2, <1>10
<1>12. URLs \in DOMAIN new <=> "API_URLS" \in DOMAIN ui
  BY <1>1, <1>2, PairIsField, VolumeIsNoPair DEF URLs
<1>13. URLs \in DOMAIN new => new[URLs] \in {<<>>, mounts}
  BY <1>1, <1>5, <1>12 DEF URLs
<1>14. Mount \in DOMAIN new <=> "definitions" \in DOMAIN ui
  BY <1>1, <1>2, PairIsField, VolumeIsNoPair DEF Mount
<1>15. Rendered(mounts, mounts, patches) = new
  BY DEF new
<1>. QED BY <1>1, <1>2, <1>8, <1>9, <1>10, <1>11, <1>12, <1>13, <1>14, <1>15

\* A Deployment is not the absence of one.
LEMMA DeploymentIsThere ==
  ASSUME NEW d, IsDeployment(d)
  PROVE  d # None
<1>1. d.created \cup d.applied \in SUBSET Fields
  BY DEF IsDeployment
<1>2. d \in Deployment
  BY <1>1 DEF IsDeployment, Deployment
<1>. QED BY <1>2, NoneAssumption

\* The fields a write sets, as they are read back.
LEMMA WrittenIsShown ==
  ASSUME NEW mounts \in Seq(Sources), NEW patches \in Templates, NEW d, IsDeployment(d),
         Current(d) = DOMAIN Rendered(mounts, mounts, patches),
         \A l \in Current(d) : d.fields[l] = Rendered(mounts, mounts, patches)[l]
  PROVE  Mounts(d) = mounts /\ Shows(d, patches)
<1>1. Mounts(d) = mounts
  BY DeploymentIsThere, RenderedTyped DEF Mounts
<1>. QED BY <1>1 DEF Shows

LEMMA CreatedIsShown ==
  ASSUME NEW mounts \in Seq(Sources), NEW patches \in Templates
  PROVE  LET d == Created(Rendered(mounts, mounts, patches)) IN
         IsDeployment(d) /\ Mounts(d) = mounts /\ Shows(d, patches)
<1> DEFINE new == Rendered(mounts, mounts, patches)
           d == Created(new)
<1>1. DOMAIN new \subseteq Fields /\ new \in [DOMAIN new -> Seq(Sources)]
  BY RenderedTyped
<1>2. d.fields = new /\ d.created = DOMAIN new /\ d.applied = {} /\ Current(d) = DOMAIN new
  BY DEF Created, Current
<1>3. IsDeployment(d)
  <2>1. d.created \cup d.applied = DOMAIN new
    BY <1>2
  <2>. QED BY <1>1, <2>1 DEF IsDeployment, Created
<1>4. \A l \in Current(d) : d.fields[l] = new[l]
  BY <1>2
<1>. QED BY <1>2, <1>3, <1>4, WrittenIsShown

LEMMA AppliedIsShown ==
  ASSUME NEW mounts \in Seq(Sources), NEW patches \in Templates, NEW old,
         IsDeployment(old) \/ old = Unwritten
  PROVE  LET d == Applied(old, Rendered(mounts, mounts, patches)) IN
         IsDeployment(d) /\ Mounts(d) = mounts /\ Shows(d, patches)
<1> DEFINE new == Rendered(mounts, mounts, patches)
           d == Applied(old, new)
<1>1. DOMAIN new \subseteq Fields /\ DOMAIN new # {} /\ new \in [DOMAIN new -> Seq(Sources)]
  BY RenderedTyped
<1>2. old.created \subseteq Fields /\ \A l \in old.created : old.fields[l] \in Seq(Sources)
  BY DEF IsDeployment, Unwritten
<1> HIDE DEF new
<1>3. /\ d.fields = [l \in DOMAIN new \cup old.created |->
                      IF l \in DOMAIN new THEN new[l] ELSE old.fields[l]]
      /\ d.created = {l \in old.created : l \in DOMAIN new => new[l] = old.fields[l]}
      /\ d.applied = DOMAIN new
      /\ d = [fields |-> d.fields, created |-> d.created, applied |-> d.applied]
  BY DEF Applied
<1>4. Current(d) = DOMAIN new
  BY <1>1, <1>3 DEF Current
<1>5. d.created \cup d.applied = DOMAIN new \cup old.created
  BY <1>3
<1>6. d.fields \in [d.created \cup d.applied -> Seq(Sources)]
  BY <1>1, <1>2, <1>3, <1>5
<1>7. d.created \in SUBSET Fields /\ d.applied \in SUBSET Fields
  BY <1>1, <1>2, <1>3
<1>8. IsDeployment(d)
  <2> HIDE DEF d
  <2>. QED BY <1>3, <1>6, <1>7 DEF IsDeployment
<1>9. \A l \in Current(d) : d.fields[l] = new[l]
  BY <1>3, <1>4
<1>10. Rendered(mounts, mounts, patches) = new
  BY DEF new
<1> HIDE DEF d
<1>11. Mounts(d) = mounts /\ Shows(d, patches)
  BY <1>4, <1>8, <1>9, <1>10, WrittenIsShown
<1>. QED BY <1>8, <1>10, <1>11 DEF d

\* A second Apply of the same fields changes nothing, whoever created what before: the
\* event of the first one is the last that wakes the hub.
THEOREM ApplyIsIdempotent ==
  ASSUME NEW new, NEW old
  PROVE  Applied(Applied(old, new), new) = Applied(old, new)
<1> DEFINE once == Applied(old, new)
           twice == Applied(once, new)
<1>1. /\ once.fields = [l \in DOMAIN new \cup old.created |->
                         IF l \in DOMAIN new THEN new[l] ELSE old.fields[l]]
      /\ once.created = {l \in old.created : l \in DOMAIN new => new[l] = old.fields[l]}
      /\ once = [fields |-> once.fields, created |-> once.created, applied |-> DOMAIN new]
  BY DEF Applied
<1> HIDE DEF once
<1>2. /\ twice.fields = [l \in DOMAIN new \cup once.created |->
                          IF l \in DOMAIN new THEN new[l] ELSE once.fields[l]]
      /\ twice.created = {l \in once.created : l \in DOMAIN new => new[l] = once.fields[l]}
      /\ twice = [fields |-> twice.fields, created |-> twice.created, applied |-> DOMAIN new]
  BY DEF Applied
<1> HIDE DEF twice
<1>3. DOMAIN new \cup once.created = DOMAIN new \cup old.created
  BY <1>1
<1>4. twice.fields = once.fields
  BY <1>1, <1>2, <1>3
<1>5. twice.created = once.created
  BY <1>1, <1>2
<1>. QED BY <1>1, <1>2, <1>4, <1>5 DEF once, twice

-------------------------------------------------------------------------------
(* Type correctness.  What is rendered is typed as URLs and mounts are in   *)
(* step.                                                                    *)

LEMMA InitTyped == Init => TypeOK /\ InStep
<1> SUFFICES ASSUME Init PROVE TypeOK /\ InStep
  OBVIOUS
<1>1. /\ source \in [Sources -> Version] /\ original \in [Sources -> Version]
      /\ copy \in [Sources -> Version] /\ \A s \in Sources : copy[s] = None
  BY DEF Init, Version, Nothing
<1>2. clock \in 0..MaxClock
  BY MaxClockAssumption DEF Init
<1>. QED BY <1>1, <1>2 DEF Init, TypeOK, InStep

\* Users, the other controllers and the garbage collector.
LEMMA UsersTyped ==
  ASSUME TypeOK, InStep,
         EditTemplate \/ DeleteDeployment
         \/ \E s \in Sources : ChangeSource(s) \/ ChangeOriginal(s) \/ CollectCopy(s)
  PROVE  TypeOK' /\ InStep'
<1> USE MaxClockAssumption DEF Tick
<1>1. CASE EditTemplate
  BY <1>1 DEF TypeOK, InStep, EditTemplate
<1>2. CASE DeleteDeployment
  BY <1>2 DEF TypeOK, InStep, DeleteDeployment
<1>3. ASSUME NEW s \in Sources, ChangeSource(s)
      PROVE  TypeOK' /\ InStep'
  <2>1. source' \in [Sources -> Version]
    BY <1>3 DEF TypeOK, ChangeSource, Version
  <2>. QED BY <1>3, <2>1 DEF TypeOK, InStep, ChangeSource
<1>4. ASSUME NEW s \in Sources, ChangeOriginal(s)
      PROVE  TypeOK' /\ InStep'
  <2>1. original' \in [Sources -> Version] /\ absent' \in SUBSET Sources
    BY <1>4 DEF TypeOK, ChangeOriginal, Version
  <2>. QED BY <1>4, <2>1 DEF TypeOK, InStep, ChangeOriginal
<1>5. ASSUME NEW s \in Sources, CollectCopy(s)
      PROVE  TypeOK' /\ InStep'
  <2>1. copy' \in [Sources -> Version] /\ \A r \in Sources \ Foreign : copy'[r] = None
    BY <1>5 DEF TypeOK, CollectCopy, Version
  <2>. QED BY <1>5, <2>1 DEF TypeOK, InStep, CollectCopy
<1>. QED BY <1>1, <1>2, <1>3, <1>4, <1>5

LEMMA InformersTyped ==
  ASSUME TypeOK, InStep,
         DeliverTemplate \/ DeliverDeployment \/ Requeue \/ \E s \in Sources : Deliver(s)
  PROVE  TypeOK' /\ InStep'
<1>1. CASE DeliverTemplate
  BY <1>1 DEF TypeOK, InStep, DeliverTemplate
<1>2. CASE DeliverDeployment
  BY <1>2 DEF TypeOK, InStep, DeliverDeployment
<1>3. CASE Requeue
  BY <1>3 DEF TypeOK, InStep, Requeue
<1>4. ASSUME NEW s \in Sources, DeliverSource(s)
      PROVE  TypeOK' /\ InStep'
  <2>1. cachedSource' \in [Sources -> Version]
    BY <1>4 DEF TypeOK, DeliverSource
  <2>2. queued' = TRUE
    BY <1>4, Zenon DEF DeliverSource, Requests
  <2>. QED BY <1>4, <2>1, <2>2 DEF TypeOK, InStep, DeliverSource
<1>5. ASSUME NEW s \in Sources, DeliverOriginal(s)
      PROVE  TypeOK' /\ InStep'
  <2>1. cachedOriginal' \in [Sources -> Version]
    BY <1>5 DEF TypeOK, DeliverOriginal
  <2>. QED BY <1>5, <2>1 DEF TypeOK, InStep, DeliverOriginal
<1>6. ASSUME NEW s \in Sources, DeliverCopy(s)
      PROVE  TypeOK' /\ InStep'
  <2>1. cachedCopy' \in [Sources -> Version]
    BY <1>6 DEF TypeOK, DeliverCopy
  <2>. QED BY <1>6, <2>1 DEF TypeOK, InStep, DeliverCopy
<1>. QED BY <1>1, <1>2, <1>3, <1>4, <1>5, <1>6 DEF Deliver

\* What a reconciliation has in hand after it has come to s.
LEMMA ReferencedTyped ==
  ASSUME TypeOK, InStep, NEW s \in Sources, At(s), Referenced(s)
  PROVE  /\ attempt # None /\ IsAttempt(attempt')
         /\ attempt'.urls = attempt'.mounts /\ attempt'.template = attempt.template
         /\ Listed(attempt'.mounts) = Listed(attempt.mounts) \cup {s}
         /\ attempt'.pending = attempt.pending \ {s}
<1>1. attempt # None /\ IsAttempt(attempt) /\ s \in attempt.pending /\ attempt.urls = attempt.mounts
  BY DEF At, Working, TypeOK, InStep
<1>2. attempt \in Attempt
  BY <1>1 DEF IsAttempt
<1>3. /\ attempt'.pending = attempt.pending \ {s} /\ attempt'.template = attempt.template
      /\ attempt'.urls = Append(attempt.urls, s) /\ attempt'.mounts = Append(attempt.mounts, s)
      /\ attempt' \in [template : {attempt.template}, pending : {attempt.pending \ {s}},
                       urls : {Append(attempt.urls, s)}, mounts : {Append(attempt.mounts, s)}]
  BY <1>2 DEF Referenced, Attempt
<1>4. attempt.mounts \in Seq(Sources) /\ attempt.template \in Templates /\ attempt.pending \subseteq Sources
  BY <1>2 DEF Attempt
<1>5. /\ Append(attempt.mounts, s) \in Seq(Sources)
      /\ Listed(Append(attempt.mounts, s)) = Listed(attempt.mounts) \cup {s}
  BY <1>4, AppendLists
<1>6. attempt' \in Attempt
  BY <1>1, <1>3, <1>4, <1>5 DEF Attempt
<1>7. IsSorted(attempt'.mounts)
  BY <1>1, <1>3, <1>4, AppendSorts DEF IsAttempt
<1>8. ASSUME NEW r \in attempt'.pending PROVE s < r
  <2>1. r \in attempt.pending /\ r # s
    BY <1>3
  <2>2. s <= r
    BY <2>1 DEF At
  <2>3. s \in Nat /\ r \in Nat
    BY <1>4, <2>1, SourcesAssumption
  <2>. QED BY <2>1, <2>2, <2>3
<1>9. \A q \in Listed(attempt'.mounts) : \A r \in attempt'.pending : q < r
  BY <1>1, <1>3, <1>5, <1>8 DEF IsAttempt
<1>. QED BY <1>1, <1>3, <1>5, <1>6, <1>7, <1>9 DEF IsAttempt

LEMMA BeginTyped ==
  ASSUME TypeOK, Begin
  PROVE  /\ IsAttempt(attempt') /\ attempt'.urls = attempt'.mounts
         /\ attempt'.template = cachedTemplate /\ attempt'.pending = Known
         /\ Listed(attempt'.mounts) = {}
<1>1. attempt' = [template |-> cachedTemplate, pending |-> Known, urls |-> <<>>, mounts |-> <<>>]
  BY DEF Begin, Known
<1>2. attempt' \in Attempt
  BY <1>1, EmptyList DEF Attempt, TypeOK, Known
<1>. QED BY <1>1, <1>2, EmptyList DEF IsAttempt

LEMMA SkippedTyped ==
  ASSUME TypeOK, InStep, NEW s \in Sources, SkipReference(s)
  PROVE  /\ attempt # None /\ IsAttempt(attempt')
         /\ attempt'.urls = attempt'.mounts /\ attempt'.template = attempt.template
         /\ attempt'.mounts = attempt.mounts /\ attempt'.pending = attempt.pending \ {s}
<1>1. attempt # None /\ IsAttempt(attempt) /\ attempt.urls = attempt.mounts
  BY DEF SkipReference, At, Working, TypeOK, InStep
<1>2. attempt \in Attempt
  BY <1>1 DEF IsAttempt
<1>3. /\ attempt'.pending = attempt.pending \ {s} /\ attempt'.template = attempt.template
      /\ attempt'.urls = attempt.urls /\ attempt'.mounts = attempt.mounts /\ attempt' \in Attempt
  BY <1>2 DEF SkipReference, Attempt
<1>. QED BY <1>1, <1>3 DEF IsAttempt

LEMMA CopyTyped ==
  ASSUME TypeOK, NEW s \in Sources, Copy(s)
  PROVE  copy' \in [Sources -> Version] /\ \A r \in Sources \ Foreign : copy'[r] = None
  BY DEF TypeOK, Copy

LEMMA CollectTyped ==
  ASSUME TypeOK, InStep,
         Begin \/ \E s \in Sources : SkipReference(s) \/ UseLocal(s) \/ UseForeign(s)
  PROVE  TypeOK' /\ InStep'
<1>1. CASE Begin
  BY <1>1, BeginTyped DEF TypeOK, InStep, Begin
<1>2. ASSUME NEW s \in Sources, SkipReference(s)
      PROVE  TypeOK' /\ InStep'
  BY <1>2, SkippedTyped DEF TypeOK, InStep, SkipReference
<1>3. ASSUME NEW s \in Sources, UseLocal(s)
      PROVE  TypeOK' /\ InStep'
  <2>1. IsAttempt(attempt') /\ attempt'.urls = attempt'.mounts
    BY <1>3, ReferencedTyped DEF UseLocal
  <2>. QED BY <1>3, <2>1 DEF TypeOK, InStep, UseLocal
<1>4. ASSUME NEW s \in Sources, UseForeign(s)
      PROVE  TypeOK' /\ InStep'
  <2>1. IsAttempt(attempt') /\ attempt'.urls = attempt'.mounts
    BY <1>4, ReferencedTyped DEF UseForeign, Copy
  <2>2. copy' \in [Sources -> Version] /\ \A r \in Sources \ Foreign : copy'[r] = None
    BY <1>4, CopyTyped DEF UseForeign
  <2>. QED BY <1>4, <2>1, <2>2 DEF TypeOK, InStep, UseForeign, Copy
<1>. QED BY <1>1, <1>2, <1>3, <1>4

\* What a write leaves was rendered from what the reconciliation has in hand.
LEMMA WriteTyped ==
  ASSUME TypeOK, InStep, Write
  PROVE  /\ attempt # None /\ IsAttempt(attempt)
         /\ unseen' \in BOOLEAN /\ IsDeployment(deployment') /\ Mounts(deployment') = attempt.mounts
         /\ Shows(deployment', attempt.template)
<1> DEFINE new == Rendered(attempt.urls, attempt.mounts, attempt.template)
           old == IF deployment = None THEN Unwritten ELSE deployment
<1>1. attempt # None /\ IsAttempt(attempt) /\ attempt.urls = attempt.mounts
  BY DEF Write, Working, TypeOK, InStep
<1>2. attempt.mounts \in Seq(Sources) /\ attempt.template \in Templates
  BY <1>1 DEF IsAttempt, Attempt
<1>3. deployment' = Created(new) \/ deployment' = Applied(old, new)
  BY DEF Write
<1>4. IsDeployment(old) \/ old = Unwritten
  BY DEF TypeOK
<1>5. new = Rendered(attempt.mounts, attempt.mounts, attempt.template)
  BY <1>1
<1> HIDE DEF new, old
<1>6. unseen' \in BOOLEAN
  BY Zenon DEF Write, TypeOK
<1>7. CASE deployment' = Created(new)
  BY <1>1, <1>2, <1>5, <1>6, <1>7, CreatedIsShown
<1>8. CASE deployment' = Applied(old, new)
  BY <1>1, <1>2, <1>4, <1>5, <1>6, <1>8, AppliedIsShown
<1>. QED BY <1>3, <1>7, <1>8

LEMMA FinishTyped ==
  ASSUME TypeOK, InStep,
         WriteDeployment \/ WriteRefused \/ Interrupt \/ Restart
         \/ \E s \in Sources : CopyRefused(s)
  PROVE  TypeOK' /\ InStep'
<1> USE MaxClockAssumption DEF Tick, Fail
<1>1. CASE WriteDeployment
  <2>1. unseen' \in BOOLEAN /\ IsDeployment(deployment')
    BY <1>1, WriteTyped DEF WriteDeployment
  <2>. QED BY <1>1, <2>1 DEF TypeOK, InStep, WriteDeployment, Write
<1>2. CASE WriteRefused
  BY <1>2 DEF TypeOK, InStep, WriteRefused
<1>3. CASE Interrupt
  <2>1. attempt' = None /\ delayed' = TRUE /\ clock' \in 0..MaxClock
    BY <1>3 DEF Interrupt, TypeOK
  <2>2. CASE Lost
    BY <2>1, <2>2 DEF TypeOK, InStep, Lost
  <2>3. CASE Write
    <3>1. unseen' \in BOOLEAN /\ IsDeployment(deployment')
      BY <2>3, WriteTyped
    <3>. QED BY <2>1, <2>3, <3>1 DEF TypeOK, InStep, Write
  <2>4. ASSUME NEW s \in Sources, Copy(s)
        PROVE  TypeOK' /\ InStep'
    BY <2>1, <2>4, CopyTyped DEF TypeOK, InStep, Copy
  <2>. QED BY <1>3, <2>2, <2>3, <2>4 DEF Interrupt
<1>4. CASE Restart
  <2>1. /\ UNCHANGED <<template, source, original, absent, copy, deployment>>
        /\ cachedTemplate' = template /\ cachedSource' = source /\ cachedOriginal' = original
        /\ cachedCopy' = copy /\ cachedDeployment' = deployment
        /\ unseen' = FALSE /\ queued' = TRUE /\ delayed' = FALSE /\ attempt' = None
    BY <1>4 DEF Restart
  <2>2. clock' \in 0..MaxClock
    BY <1>4 DEF Restart, TypeOK
  <2>3. deployment # None => IsDeployment(deployment)
    BY DEF TypeOK
  <2>. QED BY <2>1, <2>2, <2>3 DEF TypeOK, InStep
<1>5. ASSUME NEW s \in Sources, CopyRefused(s)
      PROVE  TypeOK' /\ InStep'
  BY <1>5 DEF TypeOK, InStep, CopyRefused
<1>. QED BY <1>1, <1>2, <1>3, <1>4, <1>5

\* Every step keeps the state typed, and URLs and mounts in step.
LEMMA NextTyped == TypeOK /\ InStep /\ [Next]_vars => TypeOK' /\ InStep'
<1> SUFFICES ASSUME TypeOK, InStep, [Next]_vars PROVE TypeOK' /\ InStep'
  OBVIOUS
<1>1. CASE UNCHANGED vars
  BY <1>1 DEF vars, TypeOK, InStep
<1>2. CASE Next
  BY <1>2, UsersTyped, InformersTyped, CollectTyped, FinishTyped DEF Next, Advance, Reference
<1>. QED BY <1>1, <1>2

LEMMA TypedInStep == Spec => [](TypeOK /\ InStep)
  BY InitTyped, NextTyped, PTL DEF Spec

\* Every variable keeps to its type, the lists of a reconciliation sorted.
THEOREM TypeCorrect == Spec => []TypeOK
  BY TypedInStep, PTL

-------------------------------------------------------------------------------
(* The inductive invariant.                                                 *)

LEMMA InitInvariant == Init => IInv
<1> SUFFICES ASSUME Init PROVE IInv
  OBVIOUS
<1>1. PresentIsCached
  BY DEF Init, PresentIsCached
<1>2. deployment = None /\ attempt = None /\ queued
  BY DEF Init
<1>. QED BY <1>1, <1>2 DEF IInv, DeploymentIsRendered, InStep, AttemptIsCurrent, RestIsCurrent

\* Steps that bring the hub back to the queue, and leave the Deployment and what is
\* known of ConfigMaps alone.
LEMMA QueuedKeeps ==
  ASSUME IInv, queued', UNCHANGED <<deployment, attempt>>, PresentIsCached'
  PROVE  IInv'
  BY DEF IInv, DeploymentIsRendered, InStep, AttemptIsCurrent, RestIsCurrent

\* Steps that leave the work, the Deployment and the cached sources alone.
LEMMA IdleKeeps ==
  ASSUME IInv, UNCHANGED <<cachedTemplate, cachedSource, output, work>>,
         absent \subseteq absent', PresentIsCached'
  PROVE  IInv'
<1>1. Known' = Known /\ Due' \subseteq Due
  BY DEF Known, Due
<1>2. DeploymentIsRendered' /\ InStep'
  BY DEF IInv, DeploymentIsRendered, InStep
<1>3. AttemptIsCurrent'
  BY <1>1 DEF IInv, AttemptIsCurrent
<1>4. RestIsCurrent'
  BY <1>1 DEF IInv, RestIsCurrent
<1>. QED BY <1>2, <1>3, <1>4 DEF IInv

\* Steps that give the reconciliation up for a later one.
LEMMA FailKeeps ==
  ASSUME IInv, Fail, UNCHANGED <<hub, inputs, output>>
  PROVE  IInv'
<1>1. PresentIsCached' /\ DeploymentIsRendered'
  BY DEF IInv, PresentIsCached, DeploymentIsRendered
<1>2. InStep' /\ AttemptIsCurrent' /\ RestIsCurrent'
  BY DEF Fail, InStep, AttemptIsCurrent, RestIsCurrent
<1>. QED BY <1>1, <1>2 DEF IInv

LEMMA UsersKeep ==
  ASSUME TypeOK, IInv,
         EditTemplate \/ DeleteDeployment
         \/ \E s \in Sources : ChangeSource(s) \/ ChangeOriginal(s) \/ CollectCopy(s)
  PROVE  IInv'
<1>1. CASE EditTemplate
  <2>1. PresentIsCached'
    BY <1>1 DEF EditTemplate, IInv, PresentIsCached
  <2>. QED BY <1>1, <2>1, IdleKeeps DEF EditTemplate
<1>2. CASE DeleteDeployment
  <2>1. /\ deployment' = None /\ unseen' = TRUE
        /\ UNCHANGED <<hub, inputs, work>>
    BY <1>2 DEF DeleteDeployment
  <2>2. PresentIsCached' /\ InStep' /\ AttemptIsCurrent'
    BY <2>1 DEF IInv, PresentIsCached, InStep, AttemptIsCurrent, Known, Due
  <2>3. DeploymentIsRendered' /\ RestIsCurrent'
    BY <2>1 DEF DeploymentIsRendered, RestIsCurrent
  <2>. QED BY <2>2, <2>3 DEF IInv
<1>3. ASSUME NEW s \in Sources, ChangeSource(s) \/ CollectCopy(s)
      PROVE  IInv'
  <2>1. /\ UNCHANGED <<cachedTemplate, cachedSource, output, work>>
        /\ UNCHANGED <<original, cachedOriginal, absent>>
    BY <1>3 DEF ChangeSource, CollectCopy
  <2>2. PresentIsCached'
    BY <2>1 DEF IInv, PresentIsCached
  <2>. QED BY <2>1, <2>2, IdleKeeps
<1>4. ASSUME NEW s \in Sources, ChangeOriginal(s)
      PROVE  IInv'
  <2>1. UNCHANGED <<cachedTemplate, cachedSource, cachedOriginal, output, work>>
    BY <1>4 DEF ChangeOriginal
  <2>2. absent \subseteq absent'
    BY <1>4 DEF ChangeOriginal
  <2>3. clock + 1 # None
    BY NoneAssumption DEF TypeOK
  <2>4. \A r \in Sources \ absent' : original'[r] # None
    BY <1>4, <2>3 DEF ChangeOriginal, TypeOK, IInv, PresentIsCached
  <2>5. PresentIsCached'
    BY <2>1, <2>2, <2>4 DEF IInv, PresentIsCached
  <2>. QED BY <2>1, <2>2, <2>5, IdleKeeps
<1>. QED BY <1>1, <1>2, <1>3, <1>4

LEMMA InformersKeep ==
  ASSUME TypeOK, IInv,
         DeliverTemplate \/ DeliverDeployment \/ Requeue \/ \E s \in Sources : Deliver(s)
  PROVE  IInv'
<1>1. CASE DeliverTemplate \/ DeliverDeployment \/ Requeue
  <2>1. queued' /\ UNCHANGED <<deployment, attempt, inputs>>
    BY <1>1 DEF DeliverTemplate, DeliverDeployment, Requeue
  <2>2. PresentIsCached'
    BY <2>1 DEF IInv, PresentIsCached
  <2>. QED BY <2>1, <2>2, QueuedKeeps
<1>2. ASSUME NEW s \in Sources, DeliverSource(s)
      PROVE  IInv'
  <2>1. queued'
    BY <1>2, Zenon DEF DeliverSource, Requests
  <2>2. UNCHANGED <<deployment, attempt, original, cachedOriginal, absent>>
    BY <1>2 DEF DeliverSource
  <2>3. PresentIsCached'
    BY <2>2 DEF IInv, PresentIsCached
  <2>. QED BY <2>1, <2>2, <2>3, QueuedKeeps
<1>3. ASSUME NEW s \in Sources, DeliverOriginal(s)
      PROVE  IInv'
  <2>1. UNCHANGED <<cachedTemplate, cachedSource, original, absent, output, work>>
    BY <1>3 DEF DeliverOriginal
  <2>2. PresentIsCached'
    BY <1>3, <2>1 DEF DeliverOriginal, TypeOK, IInv, PresentIsCached
  <2>. QED BY <2>1, <2>2, IdleKeeps
<1>4. ASSUME NEW s \in Sources, DeliverCopy(s)
      PROVE  IInv'
  <2>1. UNCHANGED <<hub, inputs, output, work>>
    BY <1>4 DEF DeliverCopy
  <2>2. PresentIsCached'
    BY <2>1 DEF IInv, PresentIsCached
  <2>. QED BY <2>1, <2>2, IdleKeeps
<1>. QED BY <1>1, <1>2, <1>3, <1>4 DEF Deliver

\* A reconciliation starts with what the caches hold, and moves a source from what
\* is left to what it has, or skips one that has been without a ConfigMap.
LEMMA CollectKeeps ==
  ASSUME TypeOK, IInv,
         Begin \/ \E s \in Sources : SkipReference(s) \/ UseLocal(s) \/ UseForeign(s)
  PROVE  IInv'
<1>1. InStep'
  BY CollectTyped DEF IInv
<1>2. /\ UNCHANGED <<hub, inputs, output>> /\ attempt' # None
  <2>1. CASE Begin
    BY <2>1, NoneAssumption, BeginTyped DEF Begin, IsAttempt
  <2>2. ASSUME NEW s \in Sources, SkipReference(s)
        PROVE  UNCHANGED <<hub, inputs, output>> /\ attempt' # None
    BY <2>2, NoneAssumption, SkippedTyped DEF IInv, SkipReference, IsAttempt
  <2>3. ASSUME NEW s \in Sources, UseLocal(s) \/ UseForeign(s)
        PROVE  UNCHANGED <<hub, inputs, output>> /\ attempt' # None
    BY <2>3, NoneAssumption, ReferencedTyped DEF IInv, UseLocal, UseForeign, Copy, IsAttempt
  <2>. QED BY <2>1, <2>2, <2>3
<1>3. /\ PresentIsCached' /\ DeploymentIsRendered' /\ RestIsCurrent'
      /\ Known' = Known /\ Due' = Due
  BY <1>2 DEF IInv, PresentIsCached, DeploymentIsRendered, RestIsCurrent, Known, Due
<1>4. AttemptIsCurrent'
  <2>1. CASE Begin
    BY <1>2, <1>3, <2>1, BeginTyped DEF AttemptIsCurrent, Due
  <2>2. ASSUME NEW s \in Sources, SkipReference(s)
        PROVE  AttemptIsCurrent'
    <3>1. s \in absent
      BY <2>2 DEF SkipReference, IInv, PresentIsCached
    <3>2. /\ attempt # None /\ attempt'.template = attempt.template
          /\ attempt'.mounts = attempt.mounts /\ attempt'.pending = attempt.pending \ {s}
          /\ queued' = queued
      BY <2>2, SkippedTyped DEF IInv, SkipReference
    <3>. QED BY <1>2, <1>3, <3>1, <3>2 DEF IInv, AttemptIsCurrent, Due
  <2>3. ASSUME NEW s \in Sources, UseLocal(s) \/ UseForeign(s)
        PROVE  AttemptIsCurrent'
    <3>1. /\ attempt # None /\ attempt'.template = attempt.template
          /\ Listed(attempt'.mounts) = Listed(attempt.mounts) \cup {s}
          /\ attempt'.pending = attempt.pending \ {s} /\ s \in attempt.pending
          /\ queued' = queued
      BY <2>3, ReferencedTyped DEF IInv, UseLocal, UseForeign, Copy, At
    <3>. QED BY <1>2, <1>3, <3>1 DEF IInv, AttemptIsCurrent
  <2>. QED BY <2>1, <2>2, <2>3
<1>. QED BY <1>1, <1>3, <1>4 DEF IInv

\* A write that changes the Deployment is followed by its event; one that does not
\* was an Apply that found everything as it wanted it.  Its answer may be lost.
LEMMA WriteKeeps ==
  ASSUME TypeOK, IInv, Write, attempt' = None
  PROVE  IInv'
<1>1. /\ attempt # None /\ IsAttempt(attempt) /\ attempt.urls = attempt.mounts
      /\ IsDeployment(deployment') /\ Mounts(deployment') = attempt.mounts
      /\ Shows(deployment', attempt.template) /\ deployment' # None
  BY WriteTyped, DeploymentIsThere DEF IInv, InStep
<1>2. UNCHANGED <<hub, inputs, queued>> /\ attempt.pending = {}
  BY DEF Write
<1>3. DeploymentIsRendered'
  BY <1>1 DEF DeploymentIsRendered, IsAttempt, Attempt
<1>4. InStep' /\ AttemptIsCurrent'
  BY <1>2 DEF InStep, AttemptIsCurrent
<1>5. PresentIsCached' /\ Known' = Known /\ Due' = Due
  BY <1>2 DEF IInv, PresentIsCached, Known, Due
<1>6. RestIsCurrent'
  <2> DEFINE new == Rendered(attempt.mounts, attempt.mounts, attempt.template)
  <2> SUFFICES ASSUME ~queued', ~unseen'
               PROVE  /\ deployment' = Applied(deployment', Rendered(attempt.mounts, attempt.mounts, cachedTemplate))
                      /\ Listed(attempt.mounts) \subseteq Known /\ Due \subseteq Listed(attempt.mounts)
    BY <1>1, <1>2, <1>5 DEF RestIsCurrent
  <2>1. attempt.template = cachedTemplate
        /\ Listed(attempt.mounts) \subseteq Known /\ Due \subseteq Listed(attempt.mounts)
    BY <1>1, <1>2 DEF IInv, AttemptIsCurrent
  <2>2. deployment' = deployment
    BY Zenon DEF Write
  <2>3. cachedDeployment # None /\ deployment' = Applied(deployment, new)
    BY <1>1, <2>2 DEF Write
  <2>. QED BY <2>1, <2>2, <2>3
<1>. QED BY <1>3, <1>4, <1>5, <1>6 DEF IInv

LEMMA FinishKeeps ==
  ASSUME TypeOK, IInv,
         WriteRefused \/ Interrupt \/ Restart \/ \E s \in Sources : CopyRefused(s)
  PROVE  IInv'
<1>1. CASE WriteRefused \/ \E s \in Sources : CopyRefused(s)
  BY <1>1, FailKeeps DEF WriteRefused, CopyRefused
<1>2. CASE Interrupt
  <2>1. CASE Write
    BY <1>2, <2>1, WriteKeeps DEF Interrupt, Fail
  <2>2. CASE Lost \/ \E s \in Sources : Copy(s)
    BY <1>2, <2>2, FailKeeps DEF Interrupt, Lost, Copy
  <2>. QED BY <1>2, <2>1, <2>2 DEF Interrupt
<1>3. CASE Restart
  <2>1. /\ UNCHANGED <<deployment, original, absent>> /\ cachedOriginal' = original
        /\ queued' = TRUE /\ attempt' = None
    BY <1>3 DEF Restart
  <2>2. PresentIsCached' /\ DeploymentIsRendered'
    BY <2>1 DEF IInv, PresentIsCached, DeploymentIsRendered
  <2>. QED BY <2>1, <2>2 DEF IInv, InStep, AttemptIsCurrent, RestIsCurrent
<1>. QED BY <1>1, <1>2, <1>3

\* Every step keeps the invariant.
LEMMA NextKeeps == TypeOK /\ IInv /\ [Next]_vars => IInv'
<1> SUFFICES ASSUME TypeOK, IInv, [Next]_vars PROVE IInv'
  OBVIOUS
<1>1. CASE UNCHANGED vars
  <2>1. PresentIsCached' /\ absent' = absent
    BY <1>1 DEF vars, IInv, PresentIsCached
  <2>. QED BY <1>1, <2>1, IdleKeeps DEF vars
<1>2. CASE Next
  BY <1>2, UsersKeep, InformersKeep, CollectKeeps, WriteKeeps, FinishKeeps
     DEF Next, Advance, Reference, WriteDeployment
<1>. QED BY <1>1, <1>2

\* The inductive invariant: what a reconciliation collects and what the Deployment
\* shows agree with the caches, unless something is pending that makes up for it.
THEOREM Invariance == Spec => []IInv
  BY TypedInStep, InitInvariant, NextKeeps, PTL DEF Spec

-------------------------------------------------------------------------------
(* What follows from it.                                                    *)

\* Swagger UI offers what is mounted into it, whatever containers users put into the
\* template, in any order and number, as long as they mount nothing at its path.
THEOREM Offering == Spec => []OffersWhatIsMounted
<1>1. IInv => OffersWhatIsMounted
  <2> SUFFICES ASSUME IInv, deployment # None PROVE OffersWhatIsMounted
    BY DEF OffersWhatIsMounted
  <2> DEFINE mounts == Mounts(deployment)
  <2>1. mounts \in Seq(Sources)
    BY DEF IInv, DeploymentIsRendered
  <2>2. PICK patches \in Templates : Shows(deployment, patches)
    BY DEF IInv, DeploymentIsRendered
  <2>3. /\ Current(deployment) = DOMAIN Rendered(mounts, mounts, patches)
        /\ \A l \in Current(deployment) :
             deployment.fields[l] = Rendered(mounts, mounts, patches)[l]
    BY <2>2 DEF Shows
  <2> HIDE DEF mounts
  <2>4. /\ URLs \in Current(deployment) => deployment.fields[URLs] \in {<<>>, mounts}
        /\ mounts # <<>> => {URLs, Mount} \subseteq Current(deployment)
        /\ mounts = <<>> => Mount \notin Current(deployment)
    BY <2>1, <2>3, RenderedTyped
  <2>. QED BY <2>4 DEF OffersWhatIsMounted, mounts
<1>. QED BY <1>1, Invariance, PTL

\* At rest the Deployment is as the template and its own mounts say, and would not be
\* changed by another Apply.
THEOREM AtRestRendered == Spec => []SettledIsRendered
<1>1. IInv => SettledIsRendered
  BY DEF IInv, RestIsCurrent, SettledIsRendered, Settled
<1>. QED BY <1>1, Invariance, PTL

\* At rest no deleted source is offered.
THEOREM NoGhosts == Spec => []SettledHasNoGhosts
<1>1. IInv => SettledHasNoGhosts
  BY DEF IInv, RestIsCurrent, SettledHasNoGhosts, Settled, Known
<1>. QED BY <1>1, Invariance, PTL

\* At rest every source is offered that has had its ConfigMap all the time.
THEOREM NothingIsLeftOut == Spec => []SettledOffersEverything
<1>1. IInv => SettledOffersEverything
  BY DEF IInv, RestIsCurrent, SettledOffersEverything, Settled, Known, Due
<1>. QED BY <1>1, Invariance, PTL

===============================================================================
