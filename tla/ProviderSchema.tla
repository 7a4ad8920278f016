---------------------------- MODULE ProviderSchema ----------------------------
(***************************************************************************)
(* The JSON schema a provider is given (llm/schema_utils.py): a copy of the *)
(* Pydantic schema without the value constraints the providers' subset does *)
(* not support, whatever the depth, and with every field still declared,    *)
(* also one that is named like a constraint.                                *)
(*                                                                         *)
(* A JSON document is what stands at each of its paths: the kind of an      *)
(* object or a list, or an atom.  A path is the sequence of keys that leads *)
(* to a node from the root; a list's positions are written as strings.      *)
(***************************************************************************)
EXTENDS Sequences, SequencesExt

CONSTANTS
    Schemas,    \* the schemas of the registry
    Unsent      \* no schema has been made yet

UnsupportedKeywords ==
    {"format", "pattern", "minimum", "maximum", "exclusiveMinimum", "exclusiveMaximum",
     "minLength", "maxLength", "multipleOf", "minItems", "maxItems", "uniqueItems"}

\* The keywords whose value maps names to schemas.
SchemaMapKeys == {"properties", "$defs", "definitions", "patternProperties", "dependentSchemas"}

\* A finite tree: only objects and lists have children, and a list's are
\* known by position, not by a word.
IsDocument(doc) ==
    /\ IsFiniteSet(DOMAIN doc)
    /\ <<>> \in DOMAIN doc
    /\ \A path \in DOMAIN doc \ {<<>>} :
          /\ path \in Seq(STRING)
          /\ Front(path) \in DOMAIN doc
          /\ \/ doc[Front(path)] = "object"
             \/ /\ doc[Front(path)] = "list"
                /\ Last(path) \notin UnsupportedKeywords \cup SchemaMapKeys

ASSUME SchemaAssumption == \A doc \in Schemas : IsDocument(doc)

VARIABLES
    schema,     \* the schema of the request's document type
    sanitized   \* what sanitize_for_provider returns

schemaVars == <<schema, sanitized>>

SchemaInit == schema \in Schemas /\ sanitized = Unsent

Children(doc, at) == {path \in DOMAIN doc \ {<<>>} : Front(path) = at}

\* Mutant of Strip: a key is dropped by its name wherever it stands.
StripByName(doc) ==
    [path \in {p \in DOMAIN doc : \A i \in DOMAIN p : p[i] \notin UnsupportedKeywords}
         |-> doc[path]]

\* _strip: the nodes it keeps of the value at a path, by recursion on the
\* value.  The names of a schema map are kept, and their schemas stripped.
Strip(doc) ==
    LET kept[at \in DOMAIN doc] ==
            LET Stripped(paths) == UNION {kept[path] : path \in paths}
                Value(key) ==
                    IF Last(key) \in SchemaMapKeys /\ doc[key] = "object"
                    THEN {key} \cup Stripped(Children(doc, key)) ELSE kept[key]
                Supported == {key \in Children(doc, at) : Last(key) \notin UnsupportedKeywords}
            IN  {at} \cup (IF doc[at] = "object" THEN UNION {Value(key) : key \in Supported}
                                                 ELSE Stripped(Children(doc, at)))
    IN  [path \in kept[<<>>] |-> doc[path]]

\* sanitize_for_provider, which leaves the schema itself alone.
Sanitize ==
    /\ sanitized = Unsent
    /\ sanitized' = Strip(schema)
    /\ UNCHANGED schema

SchemaNext == Sanitize

----------------------------------------------------------------------------
\* Properties

\* Whether the i-th key of a path is a name: what stands in a schema map, where
\* the map's own key is a keyword.
IsName(path, i) ==
    LET role[j \in 1..Len(path)] ==
            IF j > 1 /\ path[j - 1] \in SchemaMapKeys /\ role[j - 1] = "keyword"
            THEN "name" ELSE "keyword"
    IN  role[i] = "name"

\* No key of the path is an unsupported constraint.
Unconstrained(path) ==
    \A i \in DOMAIN path : path[i] \in UnsupportedKeywords => IsName(path, i)

\* ADR 0002, llm/schema_utils.py: "Stripping is keyword-position-aware".  What
\* the provider is given is the schema without its unsupported constraints and
\* with everything else as it was: a required field cannot lose its declaration,
\* and no constraint that the provider would refuse is left at any depth.
OnlyConstraintsDropped ==
    sanitized # Unsent =>
        sanitized = [path \in {p \in DOMAIN schema : Unconstrained(p)} |-> schema[path]]
=============================================================================
