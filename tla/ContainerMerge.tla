----------------------------- MODULE ContainerMerge -----------------------------
(***************************************************************************)
(* MergePatchContainers (internal/merge/container.go), which lays the      *)
(* containers of a hub's deploymentTemplate over the controller's own.     *)
(* A container is a function from the paths of its fields to their values; *)
(* list elements with a merge key (env, volumeMounts) have a path each, so *)
(* a strategic merge patch is a patch field by field.  The order of the    *)
(* containers is left out; the patches' decides which of two is used.      *)
(***************************************************************************)
EXTENDS Naturals, Sequences

NamesIn(patches) == {patches[i].name : i \in DOMAIN patches}

\* The last patch of that name.
LastOf(n, patches) ==
  CHOOSE i \in DOMAIN patches :
    /\ patches[i].name = n
    /\ \A j \in DOMAIN patches : patches[j].name = n => j <= i

\* containersByName: a later container of the same name overwrites.
ByName(patches) == [n \in NamesIn(patches) |-> patches[LastOf(n, patches)].fields]

\* A name the base does not have is appended once for every patch that has it; these
\* names the result has more than once, with the same fields.
Repeated(base, patches) ==
  {patches[i].name : i \in {j \in DOMAIN patches : j # LastOf(patches[j].name, patches)}}
    \ DOMAIN base

\* Mutant: the patch replaces the container.
Replaced(base, patch) == patch

\* StrategicMergePatch: what the patch does not mention stays.
Patched(base, patch) ==
  [field \in DOMAIN base \cup DOMAIN patch |->
     IF field \in DOMAIN patch THEN patch[field] ELSE base[field]]

\* The containers of the base, patched if there is a patch, and the other patches.
MergePatchContainers(base, patches) ==
  LET byName == ByName(patches) IN
  [n \in DOMAIN base \cup DOMAIN byName |->
     IF n \notin DOMAIN byName THEN base[n]
     ELSE IF n \notin DOMAIN base THEN byName[n]
     ELSE Patched(base[n], byName[n])]

===============================================================================
