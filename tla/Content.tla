-------------------------------- MODULE Content --------------------------------
(***************************************************************************)
(* Request content to text (api/content.py): text is passed on under a     *)
(* size cap; a base64 PDF is decoded, opened and read page by page under   *)
(* caps on its bytes, pages and text, so that no input makes the service   *)
(* hold more than the caps.  Whatever is wrong with a document is the same *)
(* error, and a document without text is refused.                          *)
(*                                                                         *)
(* A text is known by its length and by whether it is blank, and PyMuPDF   *)
(* is external: a PDF opens or not, and each page gives a text or raises.  *)
(***************************************************************************)
EXTENDS Integers, Sequences, SequencesExt

CONSTANTS
    Documents,  \* the contents callers send
    MaxBytes,   \* _MAX_PDF_BYTES
    MaxPages,   \* _MAX_PDF_PAGES
    MaxChars    \* _MAX_TEXT_CHARS

\* A page's text, or a page that cannot be read.
PageSpace == [length : Nat, blank : BOOLEAN, readable : BOOLEAN]

ASSUME ContentAssumption ==
    /\ MaxBytes \in Nat /\ MaxPages \in Nat /\ MaxChars \in Nat
    /\ \A d \in Documents :
          \/ d.format = "text" /\ d.length \in Nat
          \/ /\ d.format = "pdf_base64"
             /\ d.decodes \in BOOLEAN /\ d.bytes \in Nat /\ d.opens \in BOOLEAN
             /\ d.pages \in Seq(PageSpace)

VARIABLES
    document,   \* the request's content
    resolving,  \* where resolve_content is
    parts,      \* the page texts kept so far
    total,      \* the characters counted so far
    text        \* the length of the text handed to the pipeline

contentVars == <<document, resolving, parts, total, text>>

ContentInit ==
    /\ document \in Documents
    /\ resolving = "asked"
    /\ parts = <<>> /\ total = 0 /\ text = 0

\* The length of "\n".join(parts).
Joined(ps) ==
    LET upTo[n \in 0..Len(ps)] == IF n = 0 THEN 0 ELSE upTo[n - 1] + ps[n].length
    IN  upTo[Len(ps)] + (IF ps = <<>> THEN 0 ELSE Len(ps) - 1)
Blank(ps) == \A i \in DOMAIN ps : ps[i].blank

Resolve(where, length) ==
    /\ resolving' = where
    /\ text' = length
    /\ UNCHANGED <<document, parts, total>>

\* resolve_content of plain text.
ResolveText ==
    /\ resolving = "asked" /\ document.format = "text"
    /\ IF document.length > MaxChars
       THEN Resolve("validation_failed", 0) ELSE Resolve("resolved", document.length)

\* b64decode and the cap on the decoded bytes; then the PDF is opened, unless
\* it does not open or has too many pages.
OpenPdf ==
    /\ resolving = "asked" /\ document.format = "pdf_base64"
    /\ IF document.decodes /\ document.bytes <= MaxBytes
          /\ document.opens /\ Len(document.pages) <= MaxPages
       THEN Resolve("reading", 0) ELSE Resolve("validation_failed", 0)

NextPage == document.pages[Len(parts) + 1]

\* Mutant of Counted: an empty page is not thought to need a separator.
CountedNonempty(page) ==
    total + page.length + (IF parts # <<>> /\ page.length > 0 THEN 1 ELSE 0)

\* The count with the next page, whose separator counts if a page came before.
Counted(page) == total + page.length + (IF parts # <<>> THEN 1 ELSE 0)

\* A page's text is counted, and kept or refused; a page that cannot be read
\* ends the document.
ReadPage ==
    /\ resolving = "reading"
    /\ Len(parts) < Len(document.pages)
    /\ IF NextPage.readable /\ Counted(NextPage) <= MaxChars
       THEN /\ parts' = Append(parts, NextPage)
            /\ total' = Counted(NextPage)
            /\ UNCHANGED <<document, resolving, text>>
       ELSE Resolve("validation_failed", 0)

\* The pages are joined; a text that is blank is refused.
JoinPages ==
    /\ resolving = "reading"
    /\ Len(parts) = Len(document.pages)
    /\ IF Blank(parts) THEN Resolve("validation_failed", 0)
       ELSE Resolve("resolved", Joined(parts))

ContentNext == ResolveText \/ OpenPdf \/ ReadPage \/ JoinPages

----------------------------------------------------------------------------
\* Properties

\* The documents the service can do something with.
Usable(d) ==
    IF d.format = "text" THEN d.length <= MaxChars
    ELSE /\ d.decodes /\ d.opens /\ d.bytes <= MaxBytes /\ Len(d.pages) <= MaxPages
         /\ \A i \in DOMAIN d.pages : d.pages[i].readable
         /\ Joined(d.pages) <= MaxChars
         /\ ~Blank(d.pages)

\* The caps of api/content.py: at no time is more text kept than the cap, and
\* exactly the documents whose whole text fits reach the pipeline, with all of
\* their text.
TextFits ==
    /\ Joined(parts) <= MaxChars
    /\ resolving = "resolved" => Usable(document) /\ text <= MaxChars
    /\ resolving = "validation_failed" => ~Usable(document)
=============================================================================
