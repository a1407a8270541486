--------------------------- MODULE PublishedDocument ---------------------------
(***************************************************************************)
(* What the definition controller promises to the readers of its           *)
(* ConfigMaps, with no controller in sight: every document they find was   *)
(* served by the source at some time, and a document that stays in place   *)
(* is only ever replaced by one that is at least as recent.                *)
(***************************************************************************)
EXTENDS Naturals

CONSTANTS Definitions,  \* names of the SwaggerDefinition objects
          None          \* no document

VARIABLES source,       \* version of the document the source serves
          published     \* version readers find for each definition, or None

docVars == <<source, published>>

DocInit == source = 0 /\ published = [d \in Definitions |-> None]

Advance == source' = source + 1 /\ UNCHANGED published

Publish(d) ==
  \E version \in 0..source :
    /\ published[d] # None => published[d] <= version
    /\ published' = [published EXCEPT ![d] = version]
    /\ UNCHANGED source

Withdraw(d) == published' = [published EXCEPT ![d] = None] /\ UNCHANGED source

DocNext == Advance \/ \E d \in Definitions : Publish(d) \/ Withdraw(d)

DocSpec == DocInit /\ [][DocNext]_docVars

===============================================================================
