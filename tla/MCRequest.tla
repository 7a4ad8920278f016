------------------------------- MODULE MCRequest -------------------------------
(***************************************************************************)
(* Model checking what a request passes on its way to the provider: its    *)
(* content becomes text, its schema is made fit for the provider, and the  *)
(* provider is called.  The three share nothing, so in each behaviour one  *)
(* of them runs and the others stay in an initial state.                   *)
(***************************************************************************)
EXTENDS ProviderSeam, Content, ProviderSchema

VARIABLE part

requestVars == <<part, vars, contentVars, schemaVars>>

\* The schema without a key.
Empty == <<>> :> "object"

PlainText == [format |-> "text", length |-> 0]

\* Every environment the seam tells apart (a fixture ignores the rest).
AllEnvironments ==
    {e \in EnvSpace :
        /\ ~e.fixture => e.canned = "json"
        /\ e.fixture => /\ ~e.bypass /\ ~e.baseUrl /\ ~e.gatewayKey
                        /\ e.ownKeys = {} /\ e.priced = {} /\ e.default = "unset"}

RequestInit ==
    /\ part \in {"call", "content", "schema"}
    /\ Init /\ (part # "call" => env.fixture /\ env.knobs /\ asked = [c \in Calls |-> "default"]
                                 /\ env.canned = "json")
    /\ ContentInit /\ (part # "content" => document = PlainText)
    /\ SchemaInit /\ (part # "schema" => schema = Empty)

RequestNext ==
    \/ part = "call" /\ Next /\ UNCHANGED <<part, contentVars, schemaVars>>
    \/ part = "content" /\ ContentNext /\ UNCHANGED <<part, vars, schemaVars>>
    \/ part = "schema" /\ SchemaNext /\ UNCHANGED <<part, vars, contentVars>>

RequestSpec == RequestInit /\ [][RequestNext]_requestVars

----------------------------------------------------------------------------

\* Pages below, at and above the text cap: empty, whitespace, text, unreadable.
Page(n, blank) == [length |-> n, blank |-> blank, readable |-> TRUE]
SomePages == {Page(0, TRUE), Page(1, TRUE), Page(1, FALSE), Page(3, FALSE),
              [Page(0, TRUE) EXCEPT !.readable = FALSE]}

\* Texts and PDFs around every cap, with up to one page too many.
SmallDocuments ==
    LET Pdf(pages) == [format |-> "pdf_base64", decodes |-> TRUE, bytes |-> MaxBytes,
                       opens |-> TRUE, pages |-> pages]
        Fine == Pdf(<<Page(1, FALSE)>>)
    IN  {[PlainText EXCEPT !.length = n] : n \in 0..(MaxChars + 1)}
        \cup {Pdf(pages) : pages \in BoundedSeq(SomePages, MaxPages + 1)}
        \cup {[Fine EXCEPT !.bytes = @ + 1], [Fine EXCEPT !.opens = FALSE],
              [Fine EXCEPT !.decodes = FALSE, !.bytes = 0, !.pages = <<>>]}

\* A document by its root's kind and what stands under each key.
Node(kind, under) ==
    LET below == UNION {{<<key>> \o path : path \in DOMAIN under[key]} : key \in DOMAIN under}
    IN  [path \in {<<>>} \cup below |->
             IF path = <<>> THEN kind ELSE under[Head(path)][Tail(path)]]
Atom == Node("atom", <<>>)

\* Schemas of one or two levels whose fields may be named like keywords, with
\* and without constraints, definitions and alternatives in a list.
FieldSchemas ==
    LET Object(keys) == Node("object", [k \in keys |-> Atom])
        Alternatives == "0" :> Object({"type", "minimum"}) @@ "1" :> Object({"type"})
    IN  {Object({"type"}), Object({"type", "format"}), Object({"type", "pattern", "maxLength"}),
         Node("object", "anyOf" :> Node("list", Alternatives))}
SmallSchemas ==
    LET Names == {"total", "format", "properties"}
        Fields(f) == "type" :> Atom @@ "required" :> Node("list", "0" :> Atom)
                     @@ "properties" :> Node("object", f)
        Nested == Fields("maxItems" :> Atom @@ "items" :> Node("object", Fields("format" :> Atom)))
        Definitions == Node("object", "pattern" :> Node("object", Nested))
        Flat == {Fields(f) : f \in [Names -> FieldSchemas]}
                \cup {Fields("minimum" :> s) : s \in FieldSchemas}
        FormatOnly == Node("object", "format" :> Atom)
        Listed == Fields("total" :> Node("object", "properties" :> Node("list", "0" :> FormatOnly)))
    IN  {Node("object", f) : f \in {Nested, Listed} \cup Flat
                                   \cup {f @@ "$defs" :> Definitions : f \in Flat}}
        \cup {Empty}
=============================================================================
