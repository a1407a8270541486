------------------------------ MODULE MCHubContent ------------------------------
(***************************************************************************)
(* Instances of HubContent for TLC: sources here and in another namespace, *)
(* and the containers users put into the template.                         *)
(***************************************************************************)
EXTENDS HubContentProperties

Sets(name, field) == [name |-> name, fields |-> [f \in {field} |-> <<>>]]

\* None; more memory for swagger-ui, replaced by an API_URLS of one's own, and a sidecar;
\* a sidecar that is there twice.
MCTemplates ==
  {<<>>, <<Sets("swagger-ui", "memory"), Sets("proxy", "image"), Sets("swagger-ui", "API_URLS")>>,
   <<Sets("proxy", "image"), Sets("proxy", "memory")>>}
MCPlainTemplates == {<<>>}

===============================================================================
