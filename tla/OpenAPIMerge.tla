------------------------------ MODULE OpenAPIMerge ------------------------------
(***************************************************************************)
(* What generateOpenAPI makes of the documents it finds: how one is         *)
(* prefixed and loaded, and how several are merged.  The definitions are   *)
(* numbered in the order of their names, the order they are merged in.     *)
(***************************************************************************)
EXTENDS Naturals, Sequences

\* A reference "#/components/<section>/<name>", or one to somewhere else.  The
\* sections other than schemas, and references deeper than a component, share
\* their fate and the section "parameters".
Reference(names) == [section : {"schemas", "parameters", "elsewhere"}, name : names]

\* The form of the bytes in a ConfigMap: a document, bytes that are no JSON object,
\* JSON whose components, schemas or $ref are not of the type the code asserts
\* (null, say), and a document whose server url has no base path.
Forms == {"document", "garbage", "odd", "baseless"}

\* fmt.Sprintf("%s.%s", definition.Name, name)
SchemaName(d, name) == <<d, name>>

\* prefixRef: whatever follows the last slash is prefixed, in any section.
PrefixRef(ref, d) ==
  IF ref.section = "elsewhere" THEN ref
  ELSE [section |-> ref.section, name |-> <<d, ref.name>>]

PrefixRefs(refs, d) == {PrefixRef(ref, d) : ref \in refs}

\* A map of the document under its new keys, its references prefixed.
Rekeyed(map, newKey, d) ==
  [key \in {newKey[k] : k \in DOMAIN map} |->
     PrefixRefs(map[CHOOSE k \in DOMAIN map : newKey[k] = key], d)]

Schemas(content, d) ==
  Rekeyed(content.schemas, [name \in DOMAIN content.schemas |-> SchemaName(d, name)], d)

\* Servers.BasePath() before each path, "/" being no prefix.
FullPath(base, path) == base \o path

Paths(content, d) ==
  Rekeyed(content.paths, [path \in DOMAIN content.paths |-> FullPath(content.base, path)], d)

\* The names of the security schemes are kept.
Security(content, d) == [name \in content.security |-> d]

RefsIn(map) == UNION {map[key] : key \in DOMAIN map}

\* Mutant: the loader is content with a reference it cannot follow.
LoadsAnyhow(content, d) == content.form = "document"

\* loader.LoadFromData follows every reference, and none out of the document.
Loads(content, d) ==
  /\ content.form = "document"
  /\ \A ref \in RefsIn(Paths(content, d)) \cup RefsIn(Schemas(content, d)) :
       ref.section = "schemas" /\ ref.name \in DOMAIN Schemas(content, d)

Latest(S) == CHOOSE d \in S : \A e \in S : e <= d

\* Assignments in a loop over the definitions, the last one of a key stays.
LastWins(maps) ==
  [key \in UNION {DOMAIN maps[d] : d \in DOMAIN maps} |->
     maps[Latest({d \in DOMAIN maps : key \in DOMAIN maps[d]})][key]]

\* The merged document of the contents of some definitions.
Merged(contents) ==
  [paths |-> LastWins([d \in DOMAIN contents |-> Paths(contents[d], d)]),
   schemas |-> LastWins([d \in DOMAIN contents |-> Schemas(contents[d], d)]),
   security |-> LastWins([d \in DOMAIN contents |-> Security(contents[d], d)])]

===============================================================================
