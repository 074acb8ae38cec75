------------------------------ MODULE TermInfo ------------------------------
(***************************************************************************)
(* What the translator knows of the RDF term in a column, and the tag that *)
(* tells it at run time where it varies from row to row (TermInfo.cpp,     *)
(* TagSql.cpp).                                                            *)
(*                                                                         *)
(* An annotation is a record [kind, dt, lang, maybeTagged, degraded], with *)
(* NoTag for a datatype or language that is not known.  A tag is a pair of *)
(* its first character and the rest of it; the empty text is NoTagText.    *)
(***************************************************************************)
EXTENDS R2RMLModel, FiniteSetsExt

LangString == "rdf:langString"
Integral   == {"xsd:integer", "xsd:long", "xsd:int", "xsd:short", "xsd:byte"}
Numeric    == Integral \cup {"xsd:decimal", "xsd:double", "xsd:float"}
Temporal   == {"xsd:date", "xsd:dateTime"}

(* Datatypes and languages are texts, those named here among them; an      *)
(* absent one is none.                                                     *)
TagTexts == STRING \cup Numeric \cup Temporal \cup {LangString, "xsd:string", "xsd:boolean"}

ASSUME NoTagAssumption == NoTag \notin TagTexts

Known(kind, dt, lang) ==
  [kind |-> kind, dt |-> dt, lang |-> lang, maybeTagged |-> lang # NoTag, degraded |-> FALSE]

Unknown == Known("unknown", NoTag, NoTag)

IsNumeric(a)  == a.kind = "literal" /\ a.dt \in Numeric
IsTemporal(a) == a.kind = "literal" /\ a.dt \in Temporal
IsStringy(a)  == a.kind = "literal" /\ a.dt \in {"xsd:string", LangString}

-----------------------------------------------------------------------------
(* What two contributors of a column agree on.  That something disagreed   *)
(* is remembered, for afterwards it looks like never having been declared. *)
MeetForgetting(a, b) ==   \* variant: a disagreement is not remembered
  IF a.kind # b.kind \/ a.kind = "unknown" THEN Unknown
  ELSE [kind        |-> a.kind,
        dt          |-> IF a.dt = b.dt THEN a.dt ELSE NoTag,
        lang        |-> IF a.lang = b.lang THEN a.lang ELSE NoTag,
        maybeTagged |-> a.maybeTagged \/ b.maybeTagged,
        degraded    |-> FALSE]

Disagree(a, b) == a.kind # b.kind \/ a.dt # b.dt \/ a.lang # b.lang

Meet(a, b) ==
  LET degraded == a.degraded \/ b.degraded \/ Disagree(a, b) IN
  IF a.kind # b.kind \/ a.kind = "unknown" THEN [Unknown EXCEPT !.degraded = degraded]
  ELSE [kind        |-> a.kind,
        dt          |-> IF a.dt = b.dt THEN a.dt ELSE NoTag,
        lang        |-> IF a.lang = b.lang THEN a.lang ELSE NoTag,
        maybeTagged |-> a.maybeTagged \/ b.maybeTagged,
        degraded    |-> degraded]

(* Over the columns that a node is fed from, the first one being the seed; *)
(* the order does not matter (TriplePatternProofs).                        *)
MeetColumns(annotations) ==
  IF annotations = {} THEN Unknown
  ELSE LET seed == CHOOSE a \in annotations : TRUE
       IN  FoldSet(Meet, seed, annotations \ {seed})

-----------------------------------------------------------------------------
(* Whether one tag tells all there is to know.                             *)
IsFullyDetermined(a) ==
  /\ ~a.degraded
  /\ a.kind # "unknown"
  /\ a.kind = "literal" /\ a.lang = NoTag =>
       a.dt # LangString /\ (a.dt = NoTag => ~a.maybeTagged)

NoTagText == << "", NoTag >>

EncodeTag(a) ==
  CASE ~IsFullyDetermined(a) -> NoTagText
    [] IsFullyDetermined(a) /\ a.kind = "iri" -> << "I", NoTag >>
    [] IsFullyDetermined(a) /\ a.kind = "blank" -> << "B", NoTag >>
    [] OTHER -> IF a.lang # NoTag THEN << "@", a.lang >>
                ELSE IF a.dt # NoTag THEN << "D", a.dt >>
                ELSE << "L", NoTag >>

DecodeTag(tag) ==
  CASE tag[1] = "I" -> Known("iri", NoTag, NoTag)
    [] tag[1] = "B" -> Known("blank", NoTag, NoTag)
    [] tag[1] = "L" -> Known("literal", NoTag, NoTag)
    [] tag[1] = "@" -> Known("literal", LangString, tag[2])
    [] tag[1] = "D" -> Known("literal", tag[2], NoTag)
    [] OTHER -> Unknown

-----------------------------------------------------------------------------
(* What isIRI() and the like, LANG() and DATATYPE() read from a tag; NULL  *)
(* is the error of SPARQL.                                                 *)
TagKind(tag) == CASE tag[1] = "I" -> "iri" [] tag[1] = "B" -> "blank" [] OTHER -> "literal"

TagLang(tag) ==
  CASE tag[1] = "@" -> tag[2] [] tag[1] \in {"I", "B"} -> NULL [] OTHER -> NoTag

TagDatatype(tag) ==
  CASE tag[1] = "@" -> LangString [] tag[1] = "D" -> tag[2] [] OTHER -> NULL

ValueSpace(tag) ==
  CASE tag[1] = "I" -> "iri"
    [] tag[1] = "B" -> "blank"
    [] tag[1] = "@" -> LangString
    [] tag[1] = "D" /\ tag[2] \in Numeric -> "number"
    [] tag[1] = "D" /\ tag[2] \in Temporal -> "time"
    [] tag[1] = "D" /\ tag[2] = "xsd:string" -> "string"
    [] tag[1] = "D" /\ tag[2] = "xsd:boolean" -> "boolean"
    [] OTHER -> "unknown"

(* How two terms are compared for equality: as text, as numbers, times or  *)
(* truth values, not at all because they differ anyway, or with numbers    *)
(* guessed from their texts.                                               *)
TagEquality(t, u) ==
  LET v == ValueSpace(t)  w == ValueSpace(u) IN
  IF "unknown" \in {v, w} THEN "guess"
  ELSE IF v # w \/ (v = LangString /\ t # u) THEN "never"
  ELSE IF v \in {"number", "time", "boolean"} THEN v
  ELSE "text"

-----------------------------------------------------------------------------
(* The same where the annotations settle it when the SQL is made; else the *)
(* tags decide, row by row.                                                *)
KindOf(a, tag) == IF a.kind # "unknown" THEN a.kind ELSE TagKind(tag)

LangOf(a, tag) ==
  IF IsFullyDetermined(a) THEN IF a.kind # "literal" THEN NULL ELSE a.lang
  ELSE TagLang(tag)

DatatypeAnswer(a, tag) ==
  IF IsFullyDetermined(a) /\ a.kind # "literal" THEN NULL
  ELSE IF IsFullyDetermined(a) /\ a.dt # NoTag THEN a.dt
  ELSE TagDatatype(tag)

SettledEquality(a, b) ==
  IF "unknown" \notin {a.kind, b.kind} /\ a.kind # b.kind THEN "never"
  ELSE IF IsNumeric(a) /\ IsNumeric(b) THEN "number"
  ELSE IF IsTemporal(a) /\ IsTemporal(b) THEN "time"
  ELSE IF IsStringy(a) /\ IsStringy(b) /\ a.dt = b.dt /\ a.lang = b.lang THEN "text"
  ELSE "open"

Equality(a, t, b, u) ==
  IF SettledEquality(a, b) = "open" THEN TagEquality(t, u) ELSE SettledEquality(a, b)

(* sameTerm(), given that the texts agree.                                 *)
CertainlyDiffer(a, b) ==
  \/ a.kind # "unknown" /\ b.kind # "unknown" /\ a.kind # b.kind
  \/ /\ a.kind = "literal" /\ b.kind = "literal"
     /\ \/ a.dt # NoTag /\ b.dt # NoTag /\ a.dt # b.dt
        \/ a.lang # NoTag /\ b.lang # NoTag /\ a.lang # b.lang

SameTag(a, t, b, u) ==
  /\ ~CertainlyDiffer(a, b)
  /\ \/ IsFullyDetermined(a) /\ IsFullyDetermined(b) /\ EncodeTag(a) = EncodeTag(b)
     \/ t = u

-----------------------------------------------------------------------------
(* What an annotation says of a term [kind, dt, lang]; the text of a tag,  *)
(* read back, says as much of the term as the tag does.                    *)
Describes(a, term) ==
  a.kind # "unknown" =>
    /\ a.kind = term.kind
    /\ a.dt # NoTag => a.dt = term.dt
    /\ a.lang # NoTag => a.lang = term.lang
    /\ term.lang # NoTag => a.maybeTagged

(* The tag is one that a row may carry under the annotation.               *)
Covers(a, tag) ==
  /\ tag # NoTagText
  /\ Describes(a, DecodeTag(tag))
  /\ IsFullyDetermined(a) => EncodeTag(a) = tag
=============================================================================
