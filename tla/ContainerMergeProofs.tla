-------------------------- MODULE ContainerMergeProofs --------------------------
(***************************************************************************)
(* What MergePatchContainers does to any containers and any patches.       *)
(***************************************************************************)
EXTENDS ContainerMerge, TLAPS, SequenceTheorems, WellFoundedInduction

\* The order of the numbers as a relation.
Less == {pair \in Nat \X Nat : pair[1] < pair[2]}

LEMMA LessIsWellFounded == IsWellFoundedOn(Less, Nat)
<1>1. OpToRel(<, Nat) = Less
  BY Zenon DEF OpToRel, Less
<1>. QED BY <1>1, NatLessThanWellFounded, Zenon

\* Of any numbers up to a bound one is the greatest.
LEMMA GreatestExists ==
  ASSUME NEW n \in Nat, NEW T \in SUBSET (1..n), T # {}
  PROVE  \E i \in T : \A j \in T : j <= i
<1> DEFINE Below == {n - i : i \in T}
<1>1. Below \subseteq Nat
  OBVIOUS
<1>2. Below # {}
  OBVIOUS
<1>3. PICK least \in Below : \A m \in Below : <<m, least>> \notin Less
  BY <1>1, <1>2, LessIsWellFounded, WFMin
<1>4. \A m \in Below : ~(m < least)
  BY <1>1, <1>3 DEF Less
<1>5. PICK i \in T : least = n - i
  OBVIOUS
<1>6. ASSUME NEW j \in T PROVE j <= i
  <2>1. n - j \in Below
    OBVIOUS
  <2>2. ~(n - j < n - i)
    BY <1>4, <1>5, <2>1
  <2>. QED BY <2>2
<1>. QED BY <1>6

-------------------------------------------------------------------------------
(* Containers are not lost, and a patch changes what it mentions.           *)

\* Of the patches of one name there is a last one, and LastOf is it.
LEMMA LastOfIsLast ==
  ASSUME NEW P, NEW patches \in Seq(P), NEW n \in NamesIn(patches)
  PROVE  /\ LastOf(n, patches) \in DOMAIN patches
         /\ patches[LastOf(n, patches)].name = n
         /\ \A j \in DOMAIN patches : patches[j].name = n => j <= LastOf(n, patches)
<1> DEFINE Named == {i \in DOMAIN patches : patches[i].name = n}
<1>1. Len(patches) \in Nat /\ DOMAIN patches = 1..Len(patches)
  BY LenProperties
<1>2. Named \in SUBSET (1..Len(patches))
  BY <1>1
<1>3. Named # {}
  BY DEF NamesIn
<1>4. \E i \in Named : \A j \in Named : j <= i
  BY <1>1, <1>2, <1>3, GreatestExists
<1>5. \E i \in DOMAIN patches :
        /\ patches[i].name = n
        /\ \A j \in DOMAIN patches : patches[j].name = n => j <= i
  BY <1>4
<1>. QED BY <1>5 DEF LastOf

\* MergePatchContainers loses no container of the base, adds those only the patches
\* have, and invents none.
LEMMA EveryContainerIsMerged ==
  ASSUME NEW base, NEW patches
  PROVE  DOMAIN MergePatchContainers(base, patches) = DOMAIN base \cup NamesIn(patches)
  BY DEF MergePatchContainers, ByName

\* A container of the base keeps every field the last patch of its name does not
\* mention and takes the others from it: earlier patches of that name are ignored,
\* fields none of the two has do not appear.
THEOREM LastPatchWins ==
  ASSUME NEW P, NEW patches \in Seq(P), NEW base, NEW n \in DOMAIN base
  PROVE  LET merged == MergePatchContainers(base, patches)[n] IN
         /\ n \notin NamesIn(patches) => merged = base[n]
         /\ n \in NamesIn(patches) =>
              \E last \in DOMAIN patches :
                LET patch == patches[last].fields IN
                /\ patches[last].name = n
                /\ \A j \in DOMAIN patches : patches[j].name = n => j <= last
                /\ DOMAIN merged = DOMAIN base[n] \cup DOMAIN patch
                /\ \A f \in DOMAIN patch : merged[f] = patch[f]
                /\ \A f \in DOMAIN base[n] \ DOMAIN patch : merged[f] = base[n][f]
<1> DEFINE last == LastOf(n, patches)
           merged == MergePatchContainers(base, patches)[n]
<1>1. CASE n \notin NamesIn(patches)
  BY <1>1 DEF MergePatchContainers, ByName
<1>2. CASE n \in NamesIn(patches)
  <2>1. merged = Patched(base[n], patches[last].fields)
    BY <1>2 DEF MergePatchContainers, ByName
  <2>2. /\ last \in DOMAIN patches /\ patches[last].name = n
        /\ \A j \in DOMAIN patches : patches[j].name = n => j <= last
    BY <1>2, LastOfIsLast
  <2>3. /\ DOMAIN merged = DOMAIN base[n] \cup DOMAIN patches[last].fields
        /\ \A f \in DOMAIN patches[last].fields : merged[f] = patches[last].fields[f]
        /\ \A f \in DOMAIN base[n] \ DOMAIN patches[last].fields : merged[f] = base[n][f]
    BY <2>1 DEF Patched
  <2>. HIDE DEF last, merged
  <2>4. MergePatchContainers(base, patches)[n] = merged
    BY DEF merged
  <2>. QED BY <1>2, <2>2, <2>3, <2>4
<1>. QED BY <1>1, <1>2

\* A container that only patches have is the last of them.
THEOREM NewContainersAreTheLast ==
  ASSUME NEW P, NEW patches \in Seq(P), NEW base, NEW n \in NamesIn(patches) \ DOMAIN base
  PROVE  \E last \in DOMAIN patches :
           /\ patches[last].name = n
           /\ \A j \in DOMAIN patches : patches[j].name = n => j <= last
           /\ MergePatchContainers(base, patches)[n] = patches[last].fields
<1>1. MergePatchContainers(base, patches)[n] = patches[LastOf(n, patches)].fields
  BY DEF MergePatchContainers, ByName
<1>. QED BY <1>1, LastOfIsLast

===============================================================================
