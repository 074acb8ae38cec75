----------------------------- MODULE Templates -----------------------------
(***************************************************************************)
(* String templates: how a conversion fills one in for a row, how the SQL  *)
(* of a query does, and how a query takes a given term apart again to find *)
(* the rows that produce it.                                               *)
(*                                                                         *)
(* Texts are sequences of characters.  In a template "{" and "}" enclose a *)
(* column name of one character.  For an IRI a reserved character of a     *)
(* value is escaped: "%" and a code, which stands for the two hexadecimal  *)
(* digits.  A code may have more than one spelling.                        *)
(*                                                                         *)
(* The loop of invertTemplate is a sequence of steps over `segments'.      *)
(***************************************************************************)
EXTENDS Naturals, Sequences, FiniteSets

CONSTANTS
  TemplateTexts,  (* the templates                                         *)
  Texts,          (* the values of columns                                 *)
  Columns,        (* the columns of a row                                  *)
  Bounds,         (* the lexical forms of given terms                      *)
  Reserved,       (* the characters that are escaped                       *)
  CodeOf,         (* the code that the encoder writes for each of them     *)
  CharOf,         (* the character that each code, however spelt, denotes  *)
  NULL

ASSUME CodesAssumption ==
  /\ "%" \in Reserved
  /\ DOMAIN CodeOf = Reserved
  /\ \A c \in Reserved : CodeOf[c] \in DOMAIN CharOf \ Reserved /\ CharOf[CodeOf[c]] = c

(* Texts are sequences of characters; NULL is no text.                     *)
ASSUME TextsAssumption ==
  /\ TemplateTexts \cup Texts \cup Bounds \subseteq Seq(STRING) /\ NULL \notin Seq(STRING)
  /\ Reserved \cup DOMAIN CharOf \subseteq STRING
  /\ \A code \in DOMAIN CharOf : CharOf[code] \in STRING

Rows == [Columns -> Texts \union {NULL}]

VARIABLES
  template, iri,    (* a template, and whether its term map makes IRIs     *)
  other,            (* a template to compare or join it with, or NULL      *)
  bound,            (* the term to invert it against if there is no other  *)
  i, pos, values,   (* the loop: segment, characters consumed, and pairs   *)
                    (* of a column and the span found for it               *)
  outcome           (* "none" while it runs                                *)

vars == << template, other, iri, bound, i, pos, values, outcome >>

-----------------------------------------------------------------------------
Concat(texts) == LET upTo[k \in 0 .. Len(texts)] == IF k = 0 THEN << >> ELSE upTo[k - 1] \o texts[k]
                 IN upTo[Len(texts)]

PercentEncode(text) ==
  Concat([k \in DOMAIN text |-> IF text[k] \in Reserved THEN << "%", CodeOf[text[k]] >> ELSE << text[k] >>])

PercentDecodeInside(text) ==   \* variant: an escape at the end is left as it is
  LET from[k \in 1 .. Len(text) + 2] ==
        IF k > Len(text) THEN << >>
        ELSE IF text[k] = "%" /\ k + 1 < Len(text) /\ text[k + 1] \in DOMAIN CharOf
          THEN << CharOf[text[k + 1]] >> \o from[k + 2]
          ELSE << text[k] >> \o from[k + 1]
  IN from[1]

PercentDecode(text) ==
  LET from[k \in 1 .. Len(text) + 2] ==
        IF k > Len(text) THEN << >>
        ELSE IF text[k] = "%" /\ k < Len(text) /\ text[k + 1] \in DOMAIN CharOf
          THEN << CharOf[text[k + 1]] >> \o from[k + 2]
          ELSE << text[k] >> \o from[k + 1]
  IN from[1]

Encoded(text) == IF iri THEN PercentEncode(text) ELSE text

(* The first place from k on where a text stands, or 0.                    *)
Find(text, part, k) ==
  LET places == { p \in k .. Len(text) - Len(part) + 1 : SubSeq(text, p, p + Len(part) - 1) = part } IN
  IF places = {} THEN 0 ELSE CHOOSE p \in places : \A q \in places : p <= q

Closing(t, k) == Find(t, << "}" >>, k + 1)

-----------------------------------------------------------------------------
(* generateRDFTerm of a template term map: it scans the template for every *)
(* row; an opening brace that is not closed ends the template.             *)
Expand(t, row) ==
  LET from[k \in 1 .. Len(t) + 1] ==
        IF k > Len(t) THEN << << >> >>
        ELSE IF t[k] # "{" THEN << << t[k] >> >> \o from[k + 1]
        ELSE IF Closing(t, k) = 0 THEN << << >> >>
        ELSE << IF row[t[k + 1]] = NULL THEN NULL ELSE Encoded(row[t[k + 1]]) >> \o from[Closing(t, k) + 1]
      parts == from[1]
  IN IF \E k \in DOMAIN parts : parts[k] = NULL THEN NULL ELSE Concat(parts)

(* parseTemplate, and its rest-as-text reading of an unclosed brace.       *)
Literal(text) == [placeholder |-> FALSE, text |-> text]
Placeholder(column) == [placeholder |-> TRUE, text |-> column]

Flushed(text) == IF text = << >> THEN << >> ELSE << Literal(text) >>

ParsedAsText(t) ==   \* variant: an unclosed brace stands for itself
  LET from[k \in 1 .. Len(t) + 1] == [text \in Seq(STRING) |->
        IF k > Len(t) THEN Flushed(text)
        ELSE IF t[k] = "{" /\ Closing(t, k) # 0
          THEN Flushed(text) \o << Placeholder(t[k + 1]) >> \o from[Closing(t, k) + 1][<< >>]
          ELSE from[k + 1][Append(text, t[k])]]
  IN from[1][<< >>]

ParseTemplate(t) ==
  LET from[k \in 1 .. Len(t) + 1] == [text \in Seq(STRING) |->
        IF k > Len(t) THEN Flushed(text)
        ELSE IF t[k] # "{" THEN from[k + 1][Append(text, t[k])]
        ELSE IF Closing(t, k) = 0 THEN Flushed(text)
        ELSE Flushed(text) \o << Placeholder(t[k + 1]) >> \o from[Closing(t, k) + 1][<< >>]]
  IN from[1][<< >>]

segments == ParseTemplate(template)

ReferencedColumns(segs) == { segs[k].text : k \in { k \in DOMAIN segs : segs[k].placeholder } }

(* The templates name columns of the rows.                                 *)
ASSUME ColumnsAssumption == \A t \in TemplateTexts : ReferencedColumns(ParseTemplate(t)) \subseteq Columns

(* buildProjectionSql with the guards of termMapToSqlExpr.                 *)
Filled(segs, row) ==
  [k \in DOMAIN segs |-> IF segs[k].placeholder THEN Encoded(row[segs[k].text]) ELSE segs[k].text]

Projection(segs, row) ==
  IF \E c \in ReferencedColumns(segs) : row[c] = NULL THEN NULL ELSE Concat(Filled(segs, row))

Adjacent(segs) == \E k \in 1 .. Len(segs) - 1 : segs[k].placeholder /\ segs[k + 1].placeholder

-----------------------------------------------------------------------------
(* templatesCanEverMatch compares what two templates begin and end with.   *)
StartsWith(text, part) == Len(part) <= Len(text) /\ SubSeq(text, 1, Len(part)) = part
EndsWith(text, part) ==
  Len(part) <= Len(text) /\ SubSeq(text, Len(text) - Len(part) + 1, Len(text)) = part

Shorter(a, b) == IF Len(a) <= Len(b) THEN Len(a) ELSE Len(b)

PrefixesCompatible(a, b) == SubSeq(a, 1, Shorter(a, b)) = SubSeq(b, 1, Shorter(a, b))
SuffixesCompatible(a, b) == EndsWith(a, b) \/ EndsWith(b, a)

LiteralOnly(segs) == ReferencedColumns(segs) = {}

CanEverMatchExactly(t1, t2) ==   \* variant: anchors must be equal
  LET a == ParseTemplate(t1)
      b == ParseTemplate(t2)
  IN \/ t1 = t2 \/ a = << >> \/ b = << >>
     \/ a[1].placeholder \/ b[1].placeholder \/ a[1].text = b[1].text

CanEverMatch(t1, t2) ==
  LET a == ParseTemplate(t1)
      b == ParseTemplate(t2)
  IN \/ t1 = t2 \/ a = << >> \/ b = << >>
     \/ /\ ~(LiteralOnly(a) /\ LiteralOnly(b))
        /\ \/ a[1].placeholder \/ b[1].placeholder
           \/ PrefixesCompatible(a[1].text, b[1].text)
        /\ \/ a[Len(a)].placeholder \/ b[Len(b)].placeholder
           \/ SuffixesCompatible(a[Len(a)].text, b[Len(b)].text)

(* sameTemplateShape: the literals are equal and the placeholders repeat   *)
(* at the same places.                                                     *)
SameLiterals(a, b) ==
  /\ DOMAIN a = DOMAIN b
  /\ \A k \in DOMAIN a : a[k].placeholder = b[k].placeholder /\ (~a[k].placeholder => a[k].text = b[k].text)

Placeholders(segs) == { k \in DOMAIN segs : segs[k].placeholder }

SameShape(t1, t2) ==
  LET a == ParseTemplate(t1)
      b == ParseTemplate(t2)
  IN \/ t1 = t2
     \/ /\ SameLiterals(a, b)
        /\ \A k, l \in Placeholders(a) : a[k].text = a[l].text <=> b[k].text = b[l].text

(* nativeKeyPairs: the placeholder columns that stand at the same place.   *)
KeyPairs(t1, t2) ==
  LET a == ParseTemplate(t1)
      b == ParseTemplate(t2)
  IN { << a[k].text, b[k].text >> : k \in Placeholders(a) }

NativelyJoinedAnyway(t1, t2) ==   \* variant: adjacent placeholders are no obstacle
  SameShape(t1, t2) /\ ~LiteralOnly(ParseTemplate(t1))

NativelyJoined(t1, t2) ==
  /\ SameShape(t1, t2)
  /\ ~Adjacent(ParseTemplate(t1)) /\ ~Adjacent(ParseTemplate(t2))
  /\ ~LiteralOnly(ParseTemplate(t1))

-----------------------------------------------------------------------------
(* invertTemplate.                                                         *)
Init ==
  /\ template \in TemplateTexts /\ iri \in BOOLEAN
  /\ \/ other = NULL /\ bound \in Bounds
     \/ other \in TemplateTexts /\ bound = << >>
  /\ i = 1 /\ pos = 0 /\ values = << >> /\ outcome = "none"

End(result) == outcome' = result /\ UNCHANGED << template, other, iri, bound, i, pos, values >>

(* An empty template, or one that cannot be split, is settled at once.     *)
Unsplit ==
  /\ outcome = "none" /\ other = NULL
  /\ \/ segments = << >> /\ End(IF bound = << >> THEN "whole" ELSE "never")
     \/ /\ Adjacent(segments)
        /\ LET first == segments[1]
               last  == segments[Len(segments)]
           IN End(IF /\ first.placeholder \/ StartsWith(bound, first.text)
                     /\ last.placeholder \/ EndsWith(bound, last.text)
                    THEN "whole" ELSE "never")

Running == outcome = "none" /\ other = NULL /\ segments # << >> /\ ~Adjacent(segments)

Rest == SubSeq(bound, pos + 1, Len(bound))

ReadLiteral ==
  /\ Running /\ i <= Len(segments) /\ ~segments[i].placeholder
  /\ IF StartsWith(Rest, segments[i].text)
       THEN /\ i' = i + 1 /\ pos' = pos + Len(segments[i].text)
            /\ UNCHANGED << template, other, iri, bound, values, outcome >>
       ELSE End("never")

(* A placeholder ends before the first place where the next literal        *)
(* stands, or takes all the rest.                                          *)
TakeTo(end) ==
  /\ values' = Append(values, << segments[i].text, SubSeq(bound, pos + 1, end) >>)
  /\ pos' = end /\ i' = i + 1
  /\ UNCHANGED << template, other, iri, bound, outcome >>

ReadPlaceholder ==
  /\ Running /\ i <= Len(segments) /\ segments[i].placeholder
  /\ IF i = Len(segments) THEN TakeTo(Len(bound))
     ELSE LET at == Find(bound, segments[i + 1].text, pos + 1) IN
          IF at = 0 THEN End("never") ELSE TakeTo(at - 1)

Finish ==
  /\ Running /\ i > Len(segments)
  /\ End(IF pos = Len(bound) THEN "columns" ELSE "never")

(* The optimizer compares two templates: union arms that cannot meet are   *)
(* pruned, a join of equal shapes is put on the columns.                   *)
Compare ==
  /\ outcome = "none" /\ other # NULL
  /\ End(IF ~CanEverMatch(template, other) THEN "pruned"
         ELSE IF NativelyJoined(template, other) THEN "keys" ELSE "texts")

Next == Compare \/ Unsplit \/ ReadLiteral \/ ReadPlaceholder \/ Finish

Spec == Init /\ [][Next]_vars

-----------------------------------------------------------------------------
(* The conditions that invertTermMapAgainstBoundTerm puts on a row.        *)
Decoded(text) == IF iri THEN PercentDecode(text) ELSE text

Agrees(row) == \A k \in DOMAIN values : row[values[k][1]] = Decoded(values[k][2])

Admits(row) ==
  /\ \A c \in ReferencedColumns(segments) : row[c] # NULL
  /\ \/ outcome = "whole" /\ Projection(segments, row) = bound
     \/ outcome = "columns" /\ Agrees(row)

(* A delimiter that a value cannot hold: an IRI's values have no reserved  *)
(* character but the sign that begins an escape.                           *)
Unmistakable(text) == iri /\ \E k \in DOMAIN text : text[k] \in Reserved \ {"%"}

SplitsOneWay(segs) ==
  Adjacent(segs) \/ \A k \in 2 .. Len(segs) : segs[k - 1].placeholder => Unmistakable(segs[k].text)

(* The span is one that the encoder writes.                                *)
Canonical(span) == Encoded(Decoded(span)) = span

(* The conversion and the SQL read the same text into a template, for      *)
(* every row, with NULL in any column and with a brace that is not closed  *)
(* (TemplateTermMap.cpp:36, TemplateUtil.h:19).                            *)
ReadersAgree == \A row \in Rows : Expand(template, row) = Projection(segments, row)

(* At every step, a row that produces the given term has the values found  *)
(* so far, and at the end it is found, unless a value can hold a delimiter *)
(* (TemplateUtil.h:50).                                                    *)
NoAnswerLost ==
  other = NULL /\ SplitsOneWay(segments) =>
    \A row \in { row \in Rows : Expand(template, row) = bound } :
      Agrees(row) /\ (outcome # "none" => Admits(row))

(* A row that is found produces the given term, unless that has an escape  *)
(* or a reserved character that no encoder writes there.                   *)
NoAnswerInvented ==
  \A row \in Rows :
    Admits(row) => \/ Expand(template, row) = bound
                   \/ \E k \in DOMAIN values : ~Canonical(values[k][2])

(* Taking a term apart finds the rows that produce it and no others.       *)
InversionIsRight == NoAnswerLost /\ NoAnswerInvented

(* An arm is pruned from a union only if it could never have met the other *)
(* side of the join, unless a template is cut off at a brace               *)
(* (TemplateUtil.h:96).                                                    *)
Terms(t) == { Expand(t, row) : row \in Rows } \ {NULL}
CutOff(t) == \E k \in DOMAIN t : t[k] = "{" /\ Closing(t, k) = 0

PruningIsSound ==
  outcome = "pruned" /\ ~CutOff(template) /\ ~CutOff(other) => Terms(template) \cap Terms(other) = {}

(* A join of two templates of equal shape on their columns joins the rows  *)
(* of equal terms, unless a value can hold a delimiter.                    *)
SameKeys(r1, r2) == \A p \in KeyPairs(template, other) : r1[p[1]] = r2[p[2]]

KeysAreTerms ==
  \A r1, r2 \in Rows :
    Expand(template, r1) # NULL /\ Expand(other, r2) # NULL =>
      (Expand(template, r1) = Expand(other, r2) <=> SameKeys(r1, r2))

KeysAreTermsIfSplit == outcome = "keys" /\ SplitsOneWay(segments) => KeysAreTerms

(* The claims of the documentation, without the exceptions: api.md on the  *)
(* keys of a join, TemplateUtil.h on pruning and on NeverMatches.          *)
KeysAreAlwaysTerms == outcome = "keys" => KeysAreTerms
PruningIsAlwaysSound == outcome = "pruned" => Terms(template) \cap Terms(other) = {}
NeverIsNever == outcome = "never" => bound \notin Terms(template)

=============================================================================
