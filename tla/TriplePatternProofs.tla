------------------------- MODULE TriplePatternProofs -------------------------
(***************************************************************************)
(* The translator and the converter read a mapping the same way: for every *)
(* valid mapping without the gaps named below, every pattern and whatever  *)
(* the tables hold, the SQL answers what the written graph contains.       *)
(* Before that the laws of meet, whatever the datatypes and languages are, *)
(* and that what is settled from annotations is what tags say row by row.  *)
(***************************************************************************)
EXTENDS TriplePattern, FiniteSetTheorems, WellFoundedInduction, TLAPS

-----------------------------------------------------------------------------
(* Annotations.                                                            *)
Text == TagTexts \cup {NoTag}

(* The annotations that the translator makes (annotate, termInfoOfTerm and *)
(* decodeTag) and whatever they meet to.                                   *)
Shape(a) ==
  /\ a.kind # "literal" => a.dt = NoTag /\ a.lang = NoTag /\ ~a.maybeTagged
  /\ a.lang # NoTag => a.dt = LangString /\ a.maybeTagged
  /\ ~a.degraded /\ a.maybeTagged => a.lang # NoTag

Records ==
  [kind : {"unknown", "iri", "blank", "literal"}, dt : Text, lang : Text,
   maybeTagged : BOOLEAN, degraded : BOOLEAN]

Annotations == { a \in Records : Shape(a) }

LEMMA MeetFields ==
  ASSUME NEW a \in Annotations, NEW b \in Annotations
  PROVE  /\ Meet(a, b) \in Records
         /\ Meet(a, b).kind = IF a.kind = b.kind THEN a.kind ELSE "unknown"
         /\ Meet(a, b).dt = IF a.kind = b.kind /\ a.dt = b.dt THEN a.dt ELSE NoTag
         /\ Meet(a, b).lang = IF a.kind = b.kind /\ a.lang = b.lang THEN a.lang ELSE NoTag
         /\ Meet(a, b).maybeTagged <=> a.kind = b.kind /\ (a.maybeTagged \/ b.maybeTagged)
         /\ Meet(a, b).degraded <=> a.degraded \/ b.degraded \/ Disagree(a, b)
<1>1. CASE a.kind = b.kind /\ a.kind # "unknown"
  BY <1>1 DEF Meet, Annotations, Records, Shape, Text, Disagree
<1>2. CASE a.kind # b.kind \/ a.kind = "unknown"
  BY <1>2 DEF Meet, Annotations, Records, Shape, Text, Disagree, Unknown, Known
<1> QED
  BY <1>1, <1>2

(* Meeting does not leave the annotations.                                 *)
LEMMA MeetIsAnnotation ==
  ASSUME NEW a \in Annotations, NEW b \in Annotations
  PROVE  Meet(a, b) \in Annotations
<1>1. Shape(Meet(a, b))
  BY MeetFields, NoTagAssumption DEF Annotations, Shape, Records, Disagree, LangString
<1> QED
  BY <1>1, MeetFields DEF Annotations

(* Two records with the same fields are one.                               *)
LEMMA SameFields ==
  ASSUME NEW a \in Records, NEW b \in Records,
         a.kind = b.kind, a.dt = b.dt, a.lang = b.lang,
         a.maybeTagged <=> b.maybeTagged, a.degraded <=> b.degraded
  PROVE  a = b
BY DEF Records

LEMMA MeetCommutes ==
  ASSUME NEW a \in Annotations, NEW b \in Annotations
  PROVE  Meet(a, b) = Meet(b, a)
BY MeetFields, SameFields DEF Disagree

LEMMA MeetIsIdempotent ==
  ASSUME NEW a \in Annotations
  PROVE  Meet(a, a) = a
BY MeetFields, SameFields DEF Disagree, Annotations

LEMMA MeetAssociates ==
  ASSUME NEW a \in Annotations, NEW b \in Annotations, NEW c \in Annotations
  PROVE  Meet(Meet(a, b), c) = Meet(a, Meet(b, c))
<1> DEFINE ab == Meet(a, b)  bc == Meet(b, c)
<1>1. ab \in Annotations /\ bc \in Annotations
  BY MeetIsAnnotation
<1>2. Meet(ab, c) \in Records /\ Meet(a, bc) \in Records
  BY <1>1, MeetFields
<1> HIDE DEF ab, bc
<1>3. /\ ab.kind = IF a.kind = b.kind THEN a.kind ELSE "unknown"
      /\ ab.dt = IF a.kind = b.kind /\ a.dt = b.dt THEN a.dt ELSE NoTag
      /\ ab.lang = IF a.kind = b.kind /\ a.lang = b.lang THEN a.lang ELSE NoTag
      /\ ab.maybeTagged <=> a.kind = b.kind /\ (a.maybeTagged \/ b.maybeTagged)
      /\ ab.degraded <=> a.degraded \/ b.degraded \/ Disagree(a, b)
  BY MeetFields DEF ab
<1>4. /\ bc.kind = IF b.kind = c.kind THEN b.kind ELSE "unknown"
      /\ bc.dt = IF b.kind = c.kind /\ b.dt = c.dt THEN b.dt ELSE NoTag
      /\ bc.lang = IF b.kind = c.kind /\ b.lang = c.lang THEN b.lang ELSE NoTag
      /\ bc.maybeTagged <=> b.kind = c.kind /\ (b.maybeTagged \/ c.maybeTagged)
      /\ bc.degraded <=> b.degraded \/ c.degraded \/ Disagree(b, c)
  BY MeetFields DEF bc
<1>5. Shape(a) /\ Shape(b) /\ Shape(c)
  BY DEF Annotations
<1>6. /\ Meet(ab, c).kind = Meet(a, bc).kind
      /\ Meet(ab, c).dt = Meet(a, bc).dt
      /\ Meet(ab, c).lang = Meet(a, bc).lang
  BY <1>1, <1>3, <1>4, <1>5, MeetFields DEF Shape
<1>7. Meet(ab, c).maybeTagged <=> Meet(a, bc).maybeTagged
  BY <1>1, <1>3, <1>4, <1>5, MeetFields DEF Shape
<1>8. Meet(ab, c).degraded <=> Meet(a, bc).degraded
  BY <1>1, <1>3, <1>4, <1>5, MeetFields DEF Shape, Disagree
<1> QED
  BY <1>2, <1>6, <1>7, <1>8, SameFields DEF ab, bc

(* The order of the branches of a union, of the positions of a variable    *)
(* and of the sides of a join makes no difference, nor does a branch that  *)
(* is met twice: meet is that of a semilattice (TermInfo.h:139).           *)
THEOREM MeetIsSemilattice ==
  \A a, b, c \in Annotations :
    /\ Meet(a, b) \in Annotations
    /\ Meet(a, a) = a
    /\ Meet(a, b) = Meet(b, a)
    /\ Meet(Meet(a, b), c) = Meet(a, Meet(b, c))
BY MeetIsAnnotation, MeetIsIdempotent, MeetCommutes, MeetAssociates

-----------------------------------------------------------------------------
(* The tags that rows carry.  No tag says rdf:langString without saying    *)
(* which language.                                                         *)
Plain == {<< "I", NoTag >>, << "B", NoTag >>, << "L", NoTag >>}
Typed == { << "D", dt >> : dt \in TagTexts \ {LangString} }
InLanguage == { << "@", lang >> : lang \in TagTexts }

TagSet == Plain \cup Typed \cup InLanguage

LEMMA TagCases ==
  ASSUME NEW tag \in TagSet
  PROVE  \/ tag = << "I", NoTag >> \/ tag = << "B", NoTag >> \/ tag = << "L", NoTag >>
         \/ \E dt \in TagTexts : dt # LangString /\ tag = << "D", dt >>
         \/ \E lang \in TagTexts : tag = << "@", lang >>
BY DEF TagSet, Plain, Typed, InLanguage

LEMMA KnownFields ==
  ASSUME NEW kind \in {"unknown", "iri", "blank", "literal"}, NEW dt \in Text, NEW lang \in Text
  PROVE  /\ Known(kind, dt, lang) \in Records
         /\ Known(kind, dt, lang).kind = kind
         /\ Known(kind, dt, lang).dt = dt
         /\ Known(kind, dt, lang).lang = lang
         /\ Known(kind, dt, lang).maybeTagged <=> lang # NoTag
         /\ ~Known(kind, dt, lang).degraded
<1>1. (lang # NoTag) \in BOOLEAN
  OBVIOUS
<1> DEFINE tagged == lang # NoTag
<1>2. /\ Known(kind, dt, lang) =
            [kind |-> kind, dt |-> dt, lang |-> lang, maybeTagged |-> tagged, degraded |-> FALSE]
      /\ tagged \in BOOLEAN
      /\ tagged <=> lang # NoTag
  BY DEF Known
<1> HIDE DEF tagged
<1> QED
  BY <1>2 DEF Records

(* A decoded tag, field by field.                                          *)
LEMMA Decoded ==
  ASSUME NEW tag \in TagSet
  PROVE  /\ DecodeTag(tag) \in Annotations
         /\ DecodeTag(tag).kind = TagKind(tag)
         /\ DecodeTag(tag).kind # "unknown"
         /\ DecodeTag(tag).dt = IF tag[1] = "@" THEN LangString ELSE tag[2]
         /\ DecodeTag(tag).lang = IF tag[1] = "@" THEN tag[2] ELSE NoTag
         /\ ~DecodeTag(tag).degraded
<1> DEFINE Decoding ==
      /\ DecodeTag(tag) \in Annotations
      /\ DecodeTag(tag).kind = TagKind(tag)
      /\ DecodeTag(tag).kind # "unknown"
      /\ DecodeTag(tag).dt = IF tag[1] = "@" THEN LangString ELSE tag[2]
      /\ DecodeTag(tag).lang = IF tag[1] = "@" THEN tag[2] ELSE NoTag
      /\ ~DecodeTag(tag).degraded
<1> SUFFICES Decoding
  OBVIOUS
<1>1. ASSUME NEW kind \in {"iri", "blank", "literal"}, NEW dt \in Text, NEW lang \in Text,
             kind # "literal" => dt = NoTag /\ lang = NoTag, lang # NoTag => dt = LangString,
             DecodeTag(tag) = Known(kind, dt, lang)
      PROVE  /\ DecodeTag(tag) \in Annotations /\ ~DecodeTag(tag).degraded
             /\ DecodeTag(tag).kind = kind /\ DecodeTag(tag).dt = dt /\ DecodeTag(tag).lang = lang
  BY <1>1, KnownFields DEF Annotations, Shape
<1>2. NoTag \in Text /\ LangString \in Text
  BY DEF Text, TagTexts
<1>3. CASE tag = << "I", NoTag >>
  <2>1. DecodeTag(tag) = Known("iri", NoTag, NoTag) /\ TagKind(tag) = "iri"
    BY <1>3 DEF DecodeTag, TagKind
  <2> QED
    BY <1>1, <1>2, <1>3, <2>1
<1>4. CASE tag = << "B", NoTag >>
  <2>1. DecodeTag(tag) = Known("blank", NoTag, NoTag) /\ TagKind(tag) = "blank"
    BY <1>4 DEF DecodeTag, TagKind
  <2> QED
    BY <1>1, <1>2, <1>4, <2>1
<1>5. CASE tag = << "L", NoTag >>
  <2>1. DecodeTag(tag) = Known("literal", NoTag, NoTag) /\ TagKind(tag) = "literal"
    BY <1>5 DEF DecodeTag, TagKind
  <2> QED
    BY <1>1, <1>2, <1>5, <2>1
<1>6. ASSUME NEW dt \in TagTexts, dt # LangString, tag = << "D", dt >>
      PROVE  Decoding
  <2>1. DecodeTag(tag) = Known("literal", dt, NoTag) /\ TagKind(tag) = "literal"
    BY <1>6 DEF DecodeTag, TagKind
  <2>2. dt \in Text
    BY DEF Text
  <2> QED
    BY <1>1, <1>2, <1>6, <2>1, <2>2
<1>7. ASSUME NEW lang \in TagTexts, tag = << "@", lang >>
      PROVE  Decoding
  <2>1. DecodeTag(tag) = Known("literal", LangString, lang) /\ TagKind(tag) = "literal"
    BY <1>7 DEF DecodeTag, TagKind
  <2>2. lang \in Text
    BY DEF Text
  <2> QED
    BY <1>1, <1>2, <1>7, <2>1, <2>2
<1> QED
  BY <1>3, <1>4, <1>5, <1>6, <1>7, TagCases

(* A tag is made from an annotation that determines the term, and read     *)
(* back it is that annotation (TermInfo.h:117).                            *)
LEMMA RoundTrip ==
  ASSUME NEW a \in Annotations, IsFullyDetermined(a)
  PROVE  EncodeTag(a) \in TagSet /\ DecodeTag(EncodeTag(a)) = a
<1>1. a \in Records /\ Shape(a)
  BY DEF Annotations
<1>2. CASE a.kind = "iri"
  BY <1>1, <1>2, SameFields, NoTagAssumption
     DEF EncodeTag, DecodeTag, Known, IsFullyDetermined, Shape, TagSet, Plain, Records, Text
<1>3. CASE a.kind = "blank"
  BY <1>1, <1>3, SameFields, NoTagAssumption
     DEF EncodeTag, DecodeTag, Known, IsFullyDetermined, Shape, TagSet, Plain, Records, Text
<1>4. CASE a.kind = "literal" /\ a.lang # NoTag
  BY <1>1, <1>4, SameFields, NoTagAssumption
     DEF EncodeTag, DecodeTag, Known, IsFullyDetermined, Shape, TagSet, InLanguage, Records, Text
<1>5. CASE a.kind = "literal" /\ a.lang = NoTag /\ a.dt # NoTag
  BY <1>1, <1>5, SameFields, NoTagAssumption
     DEF EncodeTag, DecodeTag, Known, IsFullyDetermined, Shape, TagSet, Typed, Records, Text
<1>6. CASE a.kind = "literal" /\ a.lang = NoTag /\ a.dt = NoTag
  BY <1>1, <1>6, SameFields, NoTagAssumption
     DEF EncodeTag, DecodeTag, Known, IsFullyDetermined, Shape, TagSet, Plain, Records, Text
<1> QED
  BY <1>1, <1>2, <1>3, <1>4, <1>5, <1>6 DEF Records, IsFullyDetermined

(* Nothing is claimed that a contributor of the column does not claim.     *)
LEMMA MeetDescribes ==
  ASSUME NEW a \in Annotations, NEW b \in Annotations, NEW term, Describes(a, term)
  PROVE  Describes(Meet(a, b), term)
BY MeetFields DEF Describes

(* A meet that determines the term is a meet of equals.                    *)
LEMMA DeterminedMeet ==
  ASSUME NEW a \in Annotations, NEW b \in Annotations, IsFullyDetermined(Meet(a, b))
  PROVE  IsFullyDetermined(a) /\ EncodeTag(Meet(a, b)) = EncodeTag(a)
<1>1. /\ ~a.degraded /\ a.kind = b.kind /\ a.dt = b.dt /\ a.lang = b.lang
      /\ Meet(a, b).kind = a.kind /\ Meet(a, b).dt = a.dt /\ Meet(a, b).lang = a.lang
  BY MeetFields DEF IsFullyDetermined, Disagree
<1>2. IsFullyDetermined(a)
  BY <1>1, MeetFields DEF IsFullyDetermined
<1> QED
  BY <1>1, <1>2 DEF EncodeTag

(* A tag that a row may carry in one branch of a union it may carry in the *)
(* union, however many branches there are: what is known of the column     *)
(* stays true of all of its rows.                                          *)
THEOREM MeetCovers ==
  \A a, b \in Annotations : \A tag \in TagSet :
    Covers(a, tag) \/ Covers(b, tag) => Covers(Meet(a, b), tag)
<1>1. ASSUME NEW a \in Annotations, NEW b \in Annotations, NEW tag \in TagSet, Covers(a, tag)
      PROVE  Covers(Meet(a, b), tag)
  BY <1>1, MeetDescribes, DeterminedMeet DEF Covers
<1> QED
  BY <1>1, MeetCommutes

(* The annotation of a term map covers the tag that is made from it.       *)
LEMMA OwnTag ==
  ASSUME NEW a \in Annotations, IsFullyDetermined(a)
  PROVE  Covers(a, EncodeTag(a))
<1>1. EncodeTag(a) # NoTagText
  BY DEF EncodeTag, NoTagText
<1>2. Describes(a, a)
  BY DEF Describes, Annotations, Shape
<1> QED
  BY <1>1, <1>2, RoundTrip DEF Covers

-----------------------------------------------------------------------------
(* isIRI() and the like, LANG() and DATATYPE() answer the same whether the *)
(* annotation settles them when the SQL is made or the tag when it runs    *)
(* (ExpressionTranslator.cpp:578-621).                                     *)
THEOREM FoldsAgree ==
  \A a \in Annotations : \A tag \in TagSet :
    Covers(a, tag) =>
      /\ KindOf(a, tag) = TagKind(tag)
      /\ LangOf(a, tag) = TagLang(tag)
      /\ DatatypeAnswer(a, tag) = TagDatatype(tag)
<1> SUFFICES ASSUME NEW a \in Annotations, NEW tag \in TagSet, Covers(a, tag)
             PROVE  /\ KindOf(a, tag) = TagKind(tag)
                    /\ LangOf(a, tag) = TagLang(tag)
                    /\ DatatypeAnswer(a, tag) = TagDatatype(tag)
  OBVIOUS
<1>1. KindOf(a, tag) = TagKind(tag)
  BY Decoded DEF KindOf, Covers, Describes
<1>2. ASSUME IsFullyDetermined(a)
      PROVE  a.kind = TagKind(tag) /\ a.dt = DecodeTag(tag).dt /\ a.lang = DecodeTag(tag).lang
  BY <1>2, <1>1, RoundTrip DEF Covers, KindOf, IsFullyDetermined
<1>3. LangOf(a, tag) = TagLang(tag)
  BY <1>2, Decoded, TagCases DEF LangOf, TagLang, TagKind
<1>4. DatatypeAnswer(a, tag) = TagDatatype(tag)
  BY <1>2, Decoded, TagCases, NoTagAssumption DEF DatatypeAnswer, TagDatatype, TagKind, LangString
<1> QED
  BY <1>1, <1>3, <1>4

(* sameTerm() of terms with equal texts is true when their kinds,          *)
(* datatypes and languages agree, settled or not (ExpressionTranslator.cpp:*)
(* 507-533).                                                               *)
THEOREM SameTermAgrees ==
  \A a, b \in Annotations : \A t, u \in TagSet :
    Covers(a, t) /\ Covers(b, u) => (SameTag(a, t, b, u) <=> t = u)
<1> SUFFICES ASSUME NEW a \in Annotations, NEW b \in Annotations, NEW t \in TagSet, NEW u \in TagSet,
                    Covers(a, t), Covers(b, u)
             PROVE  SameTag(a, t, b, u) <=> t = u
  OBVIOUS
<1>1. ASSUME CertainlyDiffer(a, b) PROVE t # u
  BY <1>1, Decoded DEF CertainlyDiffer, Covers, Describes
<1>2. ASSUME IsFullyDetermined(a), IsFullyDetermined(b), EncodeTag(a) = EncodeTag(b) PROVE t = u
  BY <1>2 DEF Covers
<1> QED
  BY <1>1, <1>2 DEF SameTag

(* The datatypes that have a value space of their own.                     *)
LEMMA NamedType ==
  ASSUME NEW dt \in Numeric \cup Temporal \cup {"xsd:string"}
  PROVE  dt # NoTag /\ dt # LangString
<1>1. dt # NoTag
  BY NoTagAssumption DEF TagTexts
<1> QED
  BY <1>1 DEF Numeric, Integral, Temporal, LangString

LEMMA TypedTag ==
  ASSUME NEW tag \in TagSet, DecodeTag(tag).dt \in Numeric \cup Temporal \cup {"xsd:string"}
  PROVE  tag = << "D", DecodeTag(tag).dt >>
<1> DEFINE dt == DecodeTag(tag).dt
<1>1. dt # NoTag /\ dt # LangString
  BY NamedType
<1>2. tag[1] # "@" /\ tag[2] = dt
  BY <1>1, Decoded
<1> HIDE DEF dt
<1>3. tag = << "D", dt >>
  BY <1>1, <1>2, TagCases
<1> QED
  BY <1>3 DEF dt

(* Comparing for equality what annotations settle is comparing by tags,    *)
(* but where a tag leaves the value open and numbers are guessed; unless   *)
(* all that is known of an operand is that it has some language            *)
(* (ExpressionTranslator.cpp:149).                                         *)
THEOREM EqualityAgrees ==
  \A a, b \in Annotations : \A t, u \in TagSet :
    Covers(a, t) /\ Covers(b, u) /\ (a.dt = LangString => a.lang # NoTag) =>
      \/ SettledEquality(a, b) \in {"open", TagEquality(t, u)}
      \/ TagEquality(t, u) = "guess"
<1> SUFFICES ASSUME NEW a \in Annotations, NEW b \in Annotations, NEW t \in TagSet, NEW u \in TagSet,
                    Covers(a, t), Covers(b, u), a.dt = LangString => a.lang # NoTag,
                    TagEquality(t, u) # "guess"
             PROVE  SettledEquality(a, b) \in {"open", TagEquality(t, u)}
  OBVIOUS
<1>1. /\ a.kind # "unknown" => a.kind = TagKind(t) /\ (a.dt # NoTag => a.dt = DecodeTag(t).dt)
                              /\ (a.lang # NoTag => a.lang = DecodeTag(t).lang)
      /\ b.kind # "unknown" => b.kind = TagKind(u) /\ (b.dt # NoTag => b.dt = DecodeTag(u).dt)
                              /\ (b.lang # NoTag => b.lang = DecodeTag(u).lang)
  BY Decoded DEF Covers, Describes
<1>2. ValueSpace(t) # "unknown" /\ ValueSpace(u) # "unknown"
  BY DEF TagEquality
<1>3. ASSUME NEW tag \in TagSet, ValueSpace(tag) # "unknown"
      PROVE  TagKind(tag) = IF ValueSpace(tag) \in {"iri", "blank"} THEN ValueSpace(tag) ELSE "literal"
  BY <1>3, TagCases DEF ValueSpace, TagKind, LangString
<1>4. ASSUME NEW tag \in TagSet, DecodeTag(tag).dt \in Numeric
      PROVE  ValueSpace(tag) = "number"
  BY <1>4, TypedTag DEF ValueSpace, Numeric, Integral, Temporal
<1>5. ASSUME NEW tag \in TagSet, DecodeTag(tag).dt \in Temporal
      PROVE  ValueSpace(tag) = "time"
  BY <1>5, TypedTag DEF ValueSpace, Numeric, Integral, Temporal
<1>6. ASSUME NEW tag \in TagSet, DecodeTag(tag).dt = "xsd:string"
      PROVE  ValueSpace(tag) = "string"
  BY <1>6, TypedTag DEF ValueSpace, Numeric, Integral, Temporal
<1>7. ASSUME NEW tag \in TagSet, NEW lang \in TagTexts, DecodeTag(tag).lang = lang
      PROVE  tag = << "@", lang >> /\ ValueSpace(tag) = LangString
  BY <1>7, Decoded, TagCases, NoTagAssumption DEF ValueSpace, LangString
<1>8. CASE SettledEquality(a, b) = "never"
  <2>1. TagKind(t) # TagKind(u)
    BY <1>1, <1>8 DEF SettledEquality
  <2> QED
    BY <2>1, <1>2, <1>3, <1>8 DEF TagEquality
<1>9. CASE IsNumeric(a) /\ IsNumeric(b)
  <2>1. a.dt # NoTag /\ b.dt # NoTag
    BY <1>9, NamedType DEF IsNumeric
  <2>2. ValueSpace(t) = "number" /\ ValueSpace(u) = "number"
    BY <1>1, <1>4, <1>9, <2>1 DEF IsNumeric
  <2> QED
    BY <1>9, <2>2 DEF IsNumeric, SettledEquality, TagEquality, LangString
<1>10. CASE IsTemporal(a) /\ IsTemporal(b)
  <2>1. a.dt # NoTag /\ b.dt # NoTag
    BY <1>10, NamedType DEF IsTemporal
  <2>2. ValueSpace(t) = "time" /\ ValueSpace(u) = "time"
    BY <1>1, <1>5, <1>10, <2>1 DEF IsTemporal
  <2> QED
    BY <1>10, <2>2
       DEF IsTemporal, IsNumeric, Numeric, Integral, Temporal, SettledEquality, TagEquality, LangString
<1>11. CASE IsStringy(a) /\ IsStringy(b) /\ a.dt = b.dt /\ a.lang = b.lang
  <2>1. CASE a.dt = "xsd:string"
    <3>1. a.dt # NoTag
      BY <2>1, NamedType
    <3>2. ValueSpace(t) = "string" /\ ValueSpace(u) = "string"
      BY <1>1, <1>6, <1>11, <2>1, <3>1 DEF IsStringy
    <3> QED
      BY <1>11, <2>1, <3>2
         DEF IsStringy, IsNumeric, IsTemporal, Numeric, Integral, Temporal, LangString,
             SettledEquality, TagEquality
  <2>2. CASE a.dt = LangString
    <3>1. a.lang \in TagTexts
      BY <2>2 DEF Annotations, Records, Text
    <3>2. t = << "@", a.lang >> /\ u = << "@", a.lang >> /\ ValueSpace(t) = LangString
      BY <1>1, <1>7, <1>11, <3>1, NoTagAssumption DEF IsStringy
    <3> QED
      BY <1>11, <2>2, <3>2
         DEF IsStringy, IsNumeric, IsTemporal, Numeric, Integral, Temporal, LangString,
             SettledEquality, TagEquality
  <2> QED
    BY <1>11, <2>1, <2>2 DEF IsStringy
<1> QED
  BY <1>8, <1>9, <1>10, <1>11 DEF SettledEquality
-----------------------------------------------------------------------------
(* Over many columns.  A set of numbers that has 0 and, with each number,  *)
(* the next one, has all of them.                                          *)
LEMMA LeastNumber ==
  ASSUME NEW T \in SUBSET Nat, T # {}
  PROVE  \E n \in T : \A m \in T : ~(m < n)
<1>1. IsWellFoundedOn(OpToRel(<, Nat), Nat)
  BY NatLessThanWellFounded
<1>2. PICK n \in T : \A m \in T : ~(<< m, n >> \in OpToRel(<, Nat))
  BY <1>1, WFMin
<1>3. \A m \in T : m < n => << m, n >> \in OpToRel(<, Nat)
  BY DEF OpToRel
<1>4. \A m \in T : ~(m < n)
  BY <1>2, <1>3
<1> QED
  BY <1>4

LEMMA NumberByNumber ==
  ASSUME NEW S \in SUBSET Nat, 0 \in S, \A n \in S : n + 1 \in S
  PROVE  S = Nat
<1> SUFFICES ASSUME Nat \ S # {} PROVE FALSE
  OBVIOUS
<1>1. PICK n \in Nat \ S : \A m \in Nat \ S : ~(m < n)
  BY LeastNumber
<1>2. n # 0 /\ n - 1 \in Nat /\ n = (n - 1) + 1 /\ n - 1 < n
  BY <1>1
<1>3. n - 1 \in S
  BY <1>1, <1>2
<1> QED
  BY <1>2, <1>3

(* The fold: at each step some element of what is left.                    *)
Some(s) == CHOOSE x \in s : TRUE

Step(base, before, s) == IF s = {} THEN base ELSE Meet(Some(s), before[s \ {Some(s)}])

UpTo(S, n) == { s \in SUBSET S : Cardinality(s) <= n }

LEMMA SomeIsLess ==
  ASSUME NEW S, IsFiniteSet(S), NEW s \in SUBSET S, s # {}
  PROVE  /\ Some(s) \in s /\ s \ {Some(s)} \in SUBSET S
         /\ Cardinality(s) \in Nat /\ Cardinality(s \ {Some(s)}) = Cardinality(s) - 1
         /\ Cardinality(s \ {Some(s)}) \in Nat
<1>1. Some(s) \in s
  BY DEF Some
<1>2. IsFiniteSet(s)
  BY FS_Subset
<1>3. IsFiniteSet(s \ {Some(s)}) /\ Cardinality(s \ {Some(s)}) = Cardinality(s) - 1
  BY <1>1, <1>2, FS_RemoveElement
<1> QED
  BY <1>1, <1>2, <1>3, FS_CardinalityType

LEMMA FoldExists ==
  ASSUME NEW base, NEW S, IsFiniteSet(S)
  PROVE  \E iter : iter = [s \in SUBSET S |-> Step(base, iter, s)]
<1> DEFINE Found == { n \in Nat : \E f : f = [s \in UpTo(S, n) |-> Step(base, f, s)] }
<1>1. 0 \in Found
  <2>1. \A s \in UpTo(S, 0) : s = {}
    BY FS_EmptySet, FS_Subset, FS_CardinalityType DEF UpTo
  <2> DEFINE f == [s \in UpTo(S, 0) |-> base]
  <2>2. f = [s \in UpTo(S, 0) |-> Step(base, f, s)]
    BY <2>1 DEF Step
  <2> QED
    BY <2>2
<1>2. ASSUME NEW n \in Found PROVE n + 1 \in Found
  <2>1. PICK f : f = [s \in UpTo(S, n) |-> Step(base, f, s)]
    OBVIOUS
  <2> DEFINE g == [s \in UpTo(S, n + 1) |-> Step(base, f, s)]
  <2>2. ASSUME NEW s \in UpTo(S, n) PROVE s \in UpTo(S, n + 1) /\ g[s] = f[s]
    <3>1. s \in UpTo(S, n + 1)
      BY FS_Subset, FS_CardinalityType DEF UpTo
    <3>2. f[s] = Step(base, f, s)
      BY <2>1
    <3> QED
      BY <3>1, <3>2
  <2>3. ASSUME NEW s \in UpTo(S, n + 1) PROVE g[s] = Step(base, g, s)
    <3>1. CASE s = {}
      BY <3>1 DEF Step
    <3>2. CASE s # {}
      <4>1. s \ {Some(s)} \in UpTo(S, n)
        BY <3>2, SomeIsLess DEF UpTo
      <4>2. g[s \ {Some(s)}] = f[s \ {Some(s)}]
        BY <2>2, <4>1
      <4> QED
        BY <3>2, <4>2 DEF Step
    <3> QED
      BY <3>1, <3>2
  <2>4. g = [s \in UpTo(S, n + 1) |-> g[s]]
    OBVIOUS
  <2> HIDE DEF g
  <2>5. g = [s \in UpTo(S, n + 1) |-> Step(base, g, s)]
    BY <2>3, <2>4
  <2> QED
    BY <2>5
<1>3. Cardinality(S) \in Found
  <2>1. Found \in SUBSET Nat
    OBVIOUS
  <2> HIDE DEF Found
  <2>2. Found = Nat
    BY <1>1, <1>2, <2>1, NumberByNumber
  <2> QED
    BY <2>2, FS_CardinalityType
<1>4. UpTo(S, Cardinality(S)) = SUBSET S
  BY FS_Subset DEF UpTo
<1> QED
  BY <1>3, <1>4

(* What is true of every row under one of the columns is true under their  *)
(* meet.                                                                   *)
Meets(S, base, tag, meet) ==
  /\ meet \in Annotations
  /\ Covers(base, tag) \/ (\E a \in S : Covers(a, tag)) => Covers(meet, tag)

LEMMA FoldCovers ==
  ASSUME NEW base \in Annotations, NEW S \in SUBSET Annotations, IsFiniteSet(S), NEW tag \in TagSet
  PROVE  Meets(S, base, tag, FoldSet(Meet, base, S))
<1> DEFINE iter == CHOOSE f : f = [s \in SUBSET S |-> Step(base, f, s)]
<1>1. iter = [s \in SUBSET S |-> Step(base, iter, s)]
  BY FoldExists
<1>2. FoldSet(Meet, base, S) = iter[S]
  BY DEF FoldSet, MapThenFoldSet, Step, Some
<1> HIDE DEF iter
<1> DEFINE Right == { n \in Nat : \A s \in SUBSET S : Cardinality(s) = n => Meets(s, base, tag, iter[s]) }
<1>3. 0 \in Right
  <2> SUFFICES ASSUME NEW s \in SUBSET S, Cardinality(s) = 0 PROVE Meets(s, base, tag, iter[s])
    OBVIOUS
  <2>1. s = {}
    BY FS_EmptySet, FS_Subset
  <2> QED
    BY <1>1, <2>1 DEF Step, Meets
<1>4. ASSUME NEW n \in Right PROVE n + 1 \in Right
  <2> SUFFICES ASSUME NEW s \in SUBSET S, Cardinality(s) = n + 1 PROVE Meets(s, base, tag, iter[s])
    OBVIOUS
  <2>1. s # {}
    BY FS_EmptySet
  <2> DEFINE x == Some(s)
             rest == s \ {x}
  <2>2. x \in s /\ rest \in SUBSET S /\ Cardinality(rest) = n
    BY <2>1, SomeIsLess
  <2>3. Meets(rest, base, tag, iter[rest])
    BY <2>2
  <2>4. iter[s] = Meet(x, iter[rest])
    BY <1>1, <2>1 DEF Step
  <2>5. x \in Annotations /\ s = rest \cup {x}
    BY <2>2
  <2> HIDE DEF x, rest
  <2>6. Meet(x, iter[rest]) \in Annotations
    BY <2>3, <2>5, MeetIsAnnotation DEF Meets
  <2>7. Covers(x, tag) \/ Covers(iter[rest], tag) => Covers(Meet(x, iter[rest]), tag)
    BY <2>3, <2>5, MeetCovers DEF Meets
  <2> QED
    BY <2>3, <2>4, <2>5, <2>6, <2>7 DEF Meets
<1>5. Cardinality(S) \in Right
  <2>1. Right \in SUBSET Nat
    OBVIOUS
  <2> HIDE DEF Right
  <2>2. Right = Nat
    BY <1>3, <1>4, <2>1, NumberByNumber
  <2> QED
    BY <2>2, FS_CardinalityType
<1> QED
  BY <1>2, <1>5

(* Whatever tag a row may carry under one of the columns that a node is    *)
(* fed from, it may carry under the annotation of the node's column, for   *)
(* any number of them (RelNode.h:81).                                      *)
THEOREM MeetColumnsCovers ==
  \A S \in SUBSET Annotations : IsFiniteSet(S) =>
    /\ MeetColumns(S) \in Annotations
    /\ \A a \in S : \A tag \in TagSet : Covers(a, tag) => Covers(MeetColumns(S), tag)
<1> SUFFICES ASSUME NEW S \in SUBSET Annotations, IsFiniteSet(S)
             PROVE  /\ MeetColumns(S) \in Annotations
                    /\ \A a \in S : \A tag \in TagSet : Covers(a, tag) => Covers(MeetColumns(S), tag)
  OBVIOUS
<1>1. CASE S = {}
  <2>1. Unknown \in Annotations
    BY KnownFields, NoTagAssumption DEF Unknown, Annotations, Shape, Text, LangString
  <2> QED
    BY <1>1, <2>1 DEF MeetColumns
<1>2. CASE S # {}
  <2> DEFINE seed == CHOOSE a \in S : TRUE
             rest == S \ {seed}
  <2>1. seed \in S /\ rest \in SUBSET Annotations /\ IsFiniteSet(rest)
    BY <1>2, FS_Subset
  <2>2. MeetColumns(S) = FoldSet(Meet, seed, rest)
    BY <1>2 DEF MeetColumns
  <2> HIDE DEF seed, rest
  <2>3. \A tag \in TagSet : Meets(rest, seed, tag, MeetColumns(S))
    BY <2>1, <2>2, FoldCovers
  <2>4. MeetColumns(S) \in Annotations
    <3>1. << "I", NoTag >> \in TagSet
      BY DEF TagSet, Plain
    <3> QED
      BY <2>3, <3>1 DEF Meets
  <2>5. \A a \in S : a = seed \/ a \in rest
    BY DEF rest
  <2> QED
    BY <2>3, <2>4, <2>5 DEF Meets
<1> QED
  BY <1>1, <1>2

-----------------------------------------------------------------------------
(* Tables.                                                                 *)
(* A table that answers is a sequence of rows, not a failed query.         *)
TablesAnswer == \A t \in DOMAIN TableRows : Seq(TableRows[t]) \cap {SqlError, NoResult} = {}

IsDatabase(d) ==
  /\ DOMAIN d = DOMAIN TableRows
  /\ \A t \in DOMAIN TableRows : d[t] \in Seq(TableRows[t])

-----------------------------------------------------------------------------
(* A term map.                                                             *)
LEMMA ExpansionFacts ==
  ASSUME NEW tm, NEW row
  PROVE  /\ Expansion(tm, row)[1] = tm.text
         /\ tm.cols = << >> => Expansion(tm, row) = << tm.text, << >> >>
BY DEF Expansion

(* The node it gives a row whose columns are there, without a tag and as   *)
(* an object.                                                              *)
TermNode(tm, row) == [type |-> tm.type, lex |-> Expansion(tm, row), tag |-> NoTag]

WrittenTag(tm, row) ==
  IF tm.type # "literal" THEN NoTag
  ELSE IF tm.lang # NoTag THEN << "@", tm.lang >> ELSE << "^^", DatatypeOf(tm, row) >>

WrittenObject(tm, row) ==
  [type |-> tm.type, lex |-> Expansion(tm, row), tag |-> WrittenTag(tm, row)]

(* Its node is none exactly if one of its columns is NULL.                 *)
LEMMA NodeSpeaks ==
  ASSUME NEW tm, NEW row, Speaks(tm)
  PROVE  /\ NodeOf(tm, row) = Nothing <=> ~NotNull(tm, row)
         /\ ObjectNode(tm, row) = Nothing <=> ~NotNull(tm, row)
         /\ NotNull(tm, row) => /\ NodeOf(tm, row) = TermNode(tm, row)
                                /\ ObjectNode(tm, row) = WrittenObject(tm, row)
<1>1. YieldsNothing(tm, row) <=> ~NotNull(tm, row)
  BY DEF YieldsNothing, NotNull, Speaks
<1>2. CASE ~NotNull(tm, row)
  BY <1>1, <1>2 DEF NodeOf, ObjectNode, Nothing
<1>3. CASE NotNull(tm, row)
  <2>1. NodeOf(tm, row) = TermNode(tm, row)
    BY <1>1, <1>3 DEF NodeOf, TermNode
  <2>2. ObjectNode(tm, row) = WrittenObject(tm, row)
    BY <2>1 DEF ObjectNode, TermNode, WrittenObject, WrittenTag
  <2>3. tm.type # "nothing" /\ Nothing.type = "nothing"
    BY DEF Speaks, Nothing
  <2>4. TermNode(tm, row).type = tm.type /\ WrittenObject(tm, row).type = tm.type
    BY DEF TermNode, WrittenObject
  <2> QED
    BY <1>3, <2>1, <2>2, <2>3, <2>4
<1> QED
  BY <1>2, <1>3

-----------------------------------------------------------------------------
(* An arm is left out only where no row could satisfy its conditions, and  *)
(* these are what the pattern asks of the position.                        *)
LEMMA PositionDecided ==
  ASSUME NEW tm, NEW row, NEW c, c.is \in {"variable", "term", "notIn"}
  PROVE  Keeps(tm, c) /\ Holds(tm, row, c) <=> MatchesTerm(c, Expansion(tm, row))
<1> DEFINE lex == Expansion(tm, row)
<1>1. CouldProduce(tm, lex) /\ \A x : AlwaysProduces(tm, x) => x = lex
  BY ExpansionFacts DEF CouldProduce, AlwaysProduces
<1> HIDE DEF lex
<1>2. CASE c.is = "variable"
  BY <1>2 DEF Keeps, Holds, MatchesTerm
<1>3. CASE c.is = "term"
  BY <1>1, <1>3 DEF Keeps, Holds, MatchesTerm, lex
<1>4. CASE c.is = "notIn"
  <2>1. MatchesTerm(c, lex) <=> lex \notin c.lexes
    BY <1>4 DEF MatchesTerm
  <2>2. Keeps(tm, c) <=> \A x \in c.lexes : ~AlwaysProduces(tm, x)
    BY <1>4 DEF Keeps
  <2>3. Holds(tm, row, c) <=> \A x \in c.lexes : CouldProduce(tm, x) => lex # x
    BY <1>4 DEF Holds, lex
  <2> QED
    BY <1>1, <2>1, <2>2, <2>3 DEF lex
<1> QED
  BY <1>2, <1>3, <1>4

(* The variable of two positions, by name or by comparing the positions.   *)
LEMMA GuardsAgree ==
  ASSUME NEW pattern, IsPattern(pattern), NEW t
  PROVE  SelfJoinGuard(pattern, t) <=>
           \A v \in Names(pattern) : \A i, j \in Positions :
             pattern[i] = Variable(v) /\ pattern[j] = Variable(v) => t[i] = t[j]
<1>1. \A i \in Positions : pattern[i].is = "variable" <=> \E v \in Names(pattern) : pattern[i] = Variable(v)
  BY DEF IsPattern, Names, Variable
<1>2. ASSUME SelfJoinGuard(pattern, t), NEW v \in Names(pattern), NEW i \in Positions, NEW j \in Positions,
             pattern[i] = Variable(v), pattern[j] = Variable(v)
      PROVE  t[i] = t[j]
  BY <1>1, <1>2 DEF SelfJoinGuard
<1>3. ASSUME \A v \in Names(pattern) : \A i, j \in Positions :
               pattern[i] = Variable(v) /\ pattern[j] = Variable(v) => t[i] = t[j],
             NEW i \in Positions, NEW j \in Positions, pattern[i].is = "variable", pattern[i] = pattern[j]
      PROVE  t[i] = t[j]
  BY <1>1, <1>3
<1> QED
  BY <1>2, <1>3 DEF SelfJoinGuard

(* The rows that the conversion pairs where an arm joins tables, and what  *)
(* an arm has terms for among them, before any condition of the pattern.   *)
Paired(arm, d) ==
  IF arm.parent = NoTable
    THEN { << row, row >> : row \in RowSet(d, arm.table) }
    ELSE { pair \in RowSet(d, arm.table) \X RowSet(d, arm.parent)
             : Joins(arm.joins, pair[1], pair[2]) }

Read(arm, d) ==
  { pair \in Paired(arm, d) : \A pos \in Positions : NotNull(arm[pos], RowAt(pair, pos)) }

LEMMA SelectedMatches ==
  ASSUME NEW arm, NEW pattern, IsPattern(pattern), NEW d, Joined(arm, d) = Paired(arm, d), NEW pair \in Read(arm, d)
  PROVE  Matches(pattern, TripleAt(arm, pair)) <=>
           /\ \A pos \in Positions : Keeps(arm[pos], pattern[pos])
           /\ pair \in Selected(arm, pattern, d)
<1> DEFINE t == TripleAt(arm, pair)
<1>1. \A pos \in Positions : t[pos] = Expansion(arm[pos], RowAt(pair, pos))
  BY DEF TripleAt
<1>2. pair \in Selected(arm, pattern, d) <=>
        /\ \A pos \in Positions : Holds(arm[pos], RowAt(pair, pos), pattern[pos])
        /\ SelfJoinGuard(pattern, t)
  BY DEF Selected, Read
<1> HIDE DEF t
<1>3. \A pos \in Positions :
        Keeps(arm[pos], pattern[pos]) /\ Holds(arm[pos], RowAt(pair, pos), pattern[pos])
          <=> MatchesTerm(pattern[pos], t[pos])
  <2> SUFFICES ASSUME NEW pos \in Positions
               PROVE  Keeps(arm[pos], pattern[pos]) /\ Holds(arm[pos], RowAt(pair, pos), pattern[pos])
                        <=> MatchesTerm(pattern[pos], t[pos])
    OBVIOUS
  <2> QED
    BY <1>1, PositionDecided DEF IsPattern
<1>4. Matches(pattern, t) <=> (\A pos \in Positions : MatchesTerm(pattern[pos], t[pos])) /\ SelfJoinGuard(pattern, t)
  BY GuardsAgree DEF Matches
<1> QED
  BY <1>2, <1>3, <1>4 DEF t

-----------------------------------------------------------------------------
(* The triples, one row at a time.                                         *)
NodeTriple(s, p, o) == [s |-> s, p |-> p, o |-> o]

TripleOfQuad(q) == NodeTriple(q.s, q.p, q.o)

QuadsSay(quads, t) == \E q \in quads : t = TripleOfQuad(q)

LEMMA TripleOfQuadIs ==
  ASSUME NEW s, NEW p, NEW o, NEW g
  PROVE  TripleOfQuad([s |-> s, p |-> p, o |-> o, g |-> g]) = NodeTriple(s, p, o)
BY DEF TripleOfQuad

LEMMA RowsAreRead ==
  ASSUME TablesAnswer, IsDatabase(db), NEW tm, TriplesMapValid(tm), tm.table \in DOMAIN TableRows
  PROVE  /\ RowsOf(db, tm) = db[tm.table]
         /\ RowSet(db, tm.table) = { db[tm.table][r] : r \in DOMAIN db[tm.table] }
         /\ db[tm.table] \notin {SqlError, NoResult}
BY DEF RowsOf, RowSet, TablesAnswer, IsDatabase

(* A triple comes from a row of a triples map.                             *)
LEMMA TriplesByRows ==
  ASSUME TablesAnswer, IsDatabase(db), Translatable(mapping), NEW t
  PROVE  t \in Triples <=>
           \E m \in DOMAIN mapping : \E row \in RowSet(db, mapping[m].table) :
             QuadsSay(RowQuads(mapping, db, mapping[m], row), t)
<1>1. t \in Triples <=> \E q \in Denotation(mapping, db) : t = TripleOfQuad(q)
  BY DEF Triples, TripleOfQuad, NodeTriple
<1>2. ASSUME NEW m \in DOMAIN mapping
      PROVE  MapQuads(mapping, db, m) = UNION { RowQuads(mapping, db, mapping[m], row) : row \in RowSet(db, mapping[m].table) }
  <2>1. RowsOf(db, mapping[m]) = db[mapping[m].table]
    BY RowsAreRead DEF Translatable
  <2> QED
    BY <2>1 DEF MapQuads, RowSet
<1>3. \A q : q \in Denotation(mapping, db) <=>
        \E m \in DOMAIN mapping : \E row \in RowSet(db, mapping[m].table) : q \in RowQuads(mapping, db, mapping[m], row)
  BY <1>2 DEF Denotation
<1> QED
  BY <1>1, <1>3 DEF QuadsSay

(* Every triple is in some graph.                                          *)
LEMMA SomeGraph == ASSUME NEW graphMaps, NEW row PROVE GraphsOf(graphMaps, row) # {}
BY DEF GraphsOf

(* The triple that the conversion writes where an arm reads a pair of      *)
(* rows.                                                                   *)
NodesAt(arm, pair) ==
  NodeTriple(TermNode(arm["s"], pair[1]), TermNode(arm["p"], pair[1]),
             IF arm.parent = NoTable THEN WrittenObject(arm["o"], pair[2]) ELSE TermNode(arm["o"], pair[2]))

LEMMA TextsAt == ASSUME NEW arm, NEW pair PROVE Texts(NodesAt(arm, pair)) = TripleAt(arm, pair)
BY DEF Texts, NodesAt, NodeTriple, TermNode, WrittenObject, TripleAt, RowAt, Positions

(* The triples of an arm whose rows are those of a row of the table.       *)
ReadAt(arm, d, row) == { pair \in Read(arm, d) : pair[1] = row }

ArmSays(arm, d, row, t) == \E pair \in ReadAt(arm, d, row) : t = NodesAt(arm, pair)

LEMMA ArmFacts ==
  ASSUME NEW tm, NEW pred, NEW obj
  PROVE  LET arm == Arm(tm, pred, obj) IN
           /\ arm.table = tm.table /\ arm.parent = NoTable
           /\ arm["s"] = tm.subject /\ arm["p"] = pred /\ arm["o"] = obj
BY DEF Arm

(* A row that an arm over one table reads.                                 *)
LEMMA ReadOfArm ==
  ASSUME NEW d, NEW tm, NEW pred, NEW obj, NEW row \in RowSet(d, tm.table), NEW pair
  PROVE  pair \in ReadAt(Arm(tm, pred, obj), d, row) <=>
           pair = << row, row >> /\ NotNull(tm.subject, row) /\ NotNull(pred, row) /\ NotNull(obj, row)
<1> DEFINE arm == Arm(tm, pred, obj)
<1>1. pair \in Paired(arm, d) <=> \E r \in RowSet(d, tm.table) : pair = << r, r >>
  BY ArmFacts DEF Paired
<1>2. pair = << row, row >> => ((\A pos \in Positions : NotNull(arm[pos], RowAt(pair, pos))) <=>
        NotNull(tm.subject, row) /\ NotNull(pred, row) /\ NotNull(obj, row))
  BY ArmFacts DEF Positions, RowAt
<1> QED
  BY <1>1, <1>2 DEF ReadAt, Read

LEMMA NodesOfArm ==
  ASSUME NEW tm, NEW pred, NEW obj, NEW row
  PROVE  NodesAt(Arm(tm, pred, obj), << row, row >>) =
           NodeTriple(TermNode(tm.subject, row), TermNode(pred, row), WrittenObject(obj, row))
BY ArmFacts DEF NodesAt

-----------------------------------------------------------------------------
(* Classes.                                                                *)
LEMMA ConstantMapFacts ==
  ASSUME NEW text, NEW row
  PROVE  /\ NotNull(ConstantMap(text), row) /\ Expansion(ConstantMap(text), row) = << text, << >> >>
         /\ TermNode(ConstantMap(text), row) = ConstantIri(text)
         /\ WrittenObject(ConstantMap(text), row) = ConstantIri(text)
BY DEF ConstantMap, NotNull, Expansion, TermNode, WrittenObject, WrittenTag, ConstantIri

LEMMA ClassesAgree ==
  ASSUME NEW d, NEW tm, tm.subject.kind # "absent", Speaks(tm.subject), NEW row \in RowSet(d, tm.table),
         SubjectNode(tm, row) # Nothing, NEW t
  PROVE  QuadsSay(ClassQuads(tm, row), t) <=> \E arm \in ClassArms(tm) : ArmSays(arm, d, row, t)
<1> DEFINE subject == SubjectNode(tm, row)
           classArm(c) == Arm(tm, ConstantMap(RdfType), ConstantMap(tm.classes[c]))
           said(c) == NodeTriple(subject, ConstantIri(RdfType), ConstantIri(tm.classes[c]))
<1>1. NotNull(tm.subject, row) /\ subject = TermNode(tm.subject, row)
  BY NodeSpeaks DEF SubjectNode
<1>2. ASSUME NEW c
      PROVE  /\ NodesAt(classArm(c), << row, row >>) = said(c)
             /\ \A pair : pair \in ReadAt(classArm(c), d, row) <=> pair = << row, row >>
  <2>1. NodesAt(classArm(c), << row, row >>) = said(c)
    BY <1>1, NodesOfArm, ConstantMapFacts
  <2> QED
    BY <2>1, <1>1, ReadOfArm, ConstantMapFacts
<1>3. ASSUME NEW c, NEW g
      PROVE  TripleOfQuad([s |-> subject, p |-> ConstantIri(RdfType), o |-> ConstantIri(tm.classes[c]), g |-> g]) = said(c)
  BY TripleOfQuadIs
<1>4. \A q : q \in ClassQuads(tm, row) <=>
        \E c \in DOMAIN tm.classes : \E g \in GraphsOf(tm.graphs, row) :
          q = [s |-> subject, p |-> ConstantIri(RdfType), o |-> ConstantIri(tm.classes[c]), g |-> g]
  BY DEF ClassQuads, Quads
<1>5. \A arm : arm \in ClassArms(tm) <=> \E c \in DOMAIN tm.classes : arm = classArm(c)
  BY DEF ClassArms
<1> HIDE DEF subject, classArm, said
<1>6. QuadsSay(ClassQuads(tm, row), t) <=> \E c \in DOMAIN tm.classes : t = said(c)
  <2>1. ASSUME NEW q \in ClassQuads(tm, row), t = TripleOfQuad(q) PROVE \E c \in DOMAIN tm.classes : t = said(c)
    BY <1>3, <1>4, <2>1
  <2>2. ASSUME NEW c \in DOMAIN tm.classes, t = said(c) PROVE \E q \in ClassQuads(tm, row) : t = TripleOfQuad(q)
    <3>1. PICK g : g \in GraphsOf(tm.graphs, row)
      BY SomeGraph
    <3>2. [s |-> subject, p |-> ConstantIri(RdfType), o |-> ConstantIri(tm.classes[c]), g |-> g] \in ClassQuads(tm, row)
      BY <1>4, <3>1
    <3> QED
      BY <1>3, <2>2, <3>2
  <2> QED
    BY <2>1, <2>2 DEF QuadsSay
<1>7. (\E arm \in ClassArms(tm) : ArmSays(arm, d, row, t))
        <=> \E c \in DOMAIN tm.classes : t = said(c)
  BY <1>2, <1>5 DEF ArmSays
<1> QED
  BY <1>6, <1>7

-----------------------------------------------------------------------------
(* Pairs of a predicate map and an object map.                             *)
NodesSay(nodes, s, p, t) == \E o \in nodes \ {Nothing} : t = NodeTriple(s, p, o)

LEMMA PairTexts ==
  ASSUME NEW mp, NEW d, NEW tm, NEW row, NEW pom, NEW q, NEW j, Speaks(pom.preds[q]), Speaks(tm.subject),
         tm.subject.kind # "absent", SubjectNode(tm, row) # Nothing, NEW t
  PROVE  QuadsSay(PairQuads(mp, d, tm, row, pom, q, j), t) <=>
           /\ NotNull(pom.preds[q], row)
           /\ NodesSay(ObjectNodes(mp, d, pom.objs[j], row), TermNode(tm.subject, row), TermNode(pom.preds[q], row), t)
<1> DEFINE subject == SubjectNode(tm, row)
           pred    == NodeOf(pom.preds[q], row)
           objects == ObjectNodes(mp, d, pom.objs[j], row) \ {Nothing}
           graphs  == GraphsOf(tm.graphs \o pom.graphs, row)
           said(o) == NodeTriple(TermNode(tm.subject, row), TermNode(pom.preds[q], row), o)
<1>1. subject = TermNode(tm.subject, row)
  BY NodeSpeaks DEF SubjectNode
<1>2. (pred = Nothing <=> ~NotNull(pom.preds[q], row)) /\ (NotNull(pom.preds[q], row) => pred = TermNode(pom.preds[q], row))
  BY NodeSpeaks
<1>3. CASE ~NotNull(pom.preds[q], row)
  BY <1>2, <1>3 DEF PairQuads, QuadsSay
<1>4. CASE NotNull(pom.preds[q], row)
  <2>1. \A quad : quad \in PairQuads(mp, d, tm, row, pom, q, j) <=>
          \E o \in objects : \E g \in graphs : quad = [s |-> subject, p |-> pred, o |-> o, g |-> g]
    BY <1>2, <1>4 DEF PairQuads, Quads
  <2>2. ASSUME NEW o, NEW g PROVE TripleOfQuad([s |-> subject, p |-> pred, o |-> o, g |-> g]) = said(o)
    BY <1>1, <1>2, <1>4, TripleOfQuadIs
  <2>3. PICK g : g \in graphs
    BY SomeGraph
  <2> HIDE DEF subject, pred, objects, graphs, said
  <2>4. ASSUME NEW quad \in PairQuads(mp, d, tm, row, pom, q, j), t = TripleOfQuad(quad) PROVE \E o \in objects : t = said(o)
    BY <2>1, <2>2, <2>4
  <2>5. ASSUME NEW o \in objects, t = said(o) PROVE QuadsSay(PairQuads(mp, d, tm, row, pom, q, j), t)
    <3>1. [s |-> subject, p |-> pred, o |-> o, g |-> g] \in PairQuads(mp, d, tm, row, pom, q, j)
      BY <2>1, <2>3
    <3> QED
      BY <2>2, <2>5, <3>1 DEF QuadsSay
  <2>6. QuadsSay(PairQuads(mp, d, tm, row, pom, q, j), t) <=> \E o \in objects : t = said(o)
    BY <2>4, <2>5 DEF QuadsSay
  <2> QED
    BY <1>4, <2>6 DEF said, objects, NodesSay
<1> QED
  BY <1>3, <1>4

LEMMA RegularAgree ==
  ASSUME NEW mp, NEW d, NEW tm, tm.subject.kind # "absent", Speaks(tm.subject), NEW row \in RowSet(d, tm.table),
         SubjectNode(tm, row) # Nothing, NEW pom, NEW q, NEW j, Speaks(pom.preds[q]),
         ~pom.objs[j].rom, Speaks(pom.objs[j].map), NEW t
  PROVE  QuadsSay(PairQuads(mp, d, tm, row, pom, q, j), t) <=>
           \E arm \in PairArms(mp, tm, pom.preds[q], pom.objs[j]) : ArmSays(arm, d, row, t)
<1> DEFINE obj == pom.objs[j].map
           pred == pom.preds[q]
           said == NodeTriple(TermNode(tm.subject, row), TermNode(pred, row), WrittenObject(obj, row))
<1>1. NotNull(tm.subject, row)
  BY NodeSpeaks DEF SubjectNode
<1>2. ObjectNodes(mp, d, pom.objs[j], row) = {ObjectNode(obj, row)}
  BY DEF ObjectNodes
<1>3. (ObjectNode(obj, row) = Nothing <=> ~NotNull(obj, row)) /\ (NotNull(obj, row) => ObjectNode(obj, row) = WrittenObject(obj, row))
  BY NodeSpeaks
<1>4. QuadsSay(PairQuads(mp, d, tm, row, pom, q, j), t) <=>
        NotNull(pred, row) /\ NotNull(obj, row) /\ t = said
  <2>1. QuadsSay(PairQuads(mp, d, tm, row, pom, q, j), t) <=>
          /\ NotNull(pred, row)
          /\ NodesSay(ObjectNodes(mp, d, pom.objs[j], row), TermNode(tm.subject, row), TermNode(pred, row), t)
    BY PairTexts
  <2>2. NodesSay(ObjectNodes(mp, d, pom.objs[j], row), TermNode(tm.subject, row), TermNode(pred, row), t)
          <=> NotNull(obj, row) /\ t = said
    BY <1>2, <1>3 DEF NodesSay
  <2> QED
    BY <2>1, <2>2
<1>5. PairArms(mp, tm, pred, pom.objs[j]) = {Arm(tm, pred, obj)}
  BY DEF PairArms
<1>6. NodesAt(Arm(tm, pred, obj), << row, row >>) = said
  BY NodesOfArm
<1>7. \A pair : pair \in ReadAt(Arm(tm, pred, obj), d, row) <=> pair = << row, row >> /\ NotNull(pred, row) /\ NotNull(obj, row)
  BY <1>1, ReadOfArm
<1> HIDE DEF obj, pred, said
<1> QED
  BY <1>4, <1>5, <1>6, <1>7 DEF pred, ArmSays

(* A parent: its rows, and whether it has subjects.                        *)
LEMMA ParentFacts ==
  ASSUME TablesAnswer, IsDatabase(db), NEW mp, Translatable(mp), NEW om, om.parent \in DOMAIN mp \ {0}
  PROVE  /\ mp[om.parent].table # NoTable /\ mp[om.parent].subject.kind # "absent"
         /\ HasTerms(mp[om.parent]) <=> mp[om.parent].subject.kind # "none"
         /\ ParentRows(mp, db, om) = db[mp[om.parent].table]
         /\ HasTerms(mp[om.parent]) => Speaks(mp[om.parent].subject)
<1> DEFINE parent == mp[om.parent]
<1>1. TriplesMapValid(parent) /\ parent.table \in DOMAIN TableRows /\ (parent.subject.kind # "none" => Speaks(parent.subject))
  BY DEF Translatable
<1>2. parent.table # NoTable /\ parent.subject.kind # "absent"
  BY <1>1 DEF TriplesMapValid
<1>3. db[parent.table] \notin {SqlError, NoResult}
  BY <1>1, RowsAreRead
<1> QED
  BY <1>1, <1>2, <1>3 DEF HasTerms, ParentRows

Referenced(mp, d, om, row) ==
  { NodeOf(mp[om.parent].subject, prow)
      : prow \in { r \in RowSet(d, mp[om.parent].table) : Joins(om.joins, row, r) } }

LEMMA ReferencedObjects ==
  ASSUME TablesAnswer, IsDatabase(db), NEW mp, Translatable(mp), NEW om, om.rom, om.parent \in DOMAIN mp \ {0}, NEW row
  PROVE  ObjectNodes(mp, db, om, row) = Referenced(mp, db, om, row)
<1>1. ParentRows(mp, db, om) = db[mp[om.parent].table] /\ mp[om.parent].subject.kind # "absent"
  BY ParentFacts
<1>2. \A o : o \in ObjectNodes(mp, db, om, row) <=>
        \E k \in DOMAIN db[mp[om.parent].table] :
          Joins(om.joins, row, db[mp[om.parent].table][k]) /\ o = SubjectNode(mp[om.parent], db[mp[om.parent].table][k])
  BY <1>1 DEF ObjectNodes
<1>3. \A prow : SubjectNode(mp[om.parent], prow) = NodeOf(mp[om.parent].subject, prow)
  BY <1>1 DEF SubjectNode
<1> QED
  BY <1>2, <1>3 DEF RowSet, Referenced

(* A pair of rows that an arm over two tables reads.                       *)
LEMMA ReadOfPair ==
  ASSUME NEW d, NEW tm, NEW pred, NEW parent, parent.table # NoTable, NEW joins,
         NEW arm, arm.table = tm.table, arm.parent = parent.table, arm.joins = joins,
         arm["s"] = tm.subject, arm["p"] = pred, arm["o"] = parent.subject,
         NEW row \in RowSet(d, tm.table)
  PROVE  /\ \A pair : pair \in ReadAt(arm, d, row) <=>
              \E prow \in RowSet(d, parent.table) :
                /\ pair = << row, prow >> /\ Joins(joins, row, prow)
                /\ NotNull(tm.subject, row) /\ NotNull(pred, row) /\ NotNull(parent.subject, prow)
         /\ \A prow : NodesAt(arm, << row, prow >>) =
              NodeTriple(TermNode(tm.subject, row), TermNode(pred, row), TermNode(parent.subject, prow))
<1>1. \A pair : pair \in Paired(arm, d) /\ pair[1] = row <=>
        \E prow \in RowSet(d, parent.table) : pair = << row, prow >> /\ Joins(joins, row, prow)
  BY DEF Paired
<1>2. \A prow : (\A pos \in Positions : NotNull(arm[pos], RowAt(<< row, prow >>, pos))) <=>
        NotNull(tm.subject, row) /\ NotNull(pred, row) /\ NotNull(parent.subject, prow)
  BY DEF Positions, RowAt
<1>3. \A prow : NodesAt(arm, << row, prow >>) =
        NodeTriple(TermNode(tm.subject, row), TermNode(pred, row), TermNode(parent.subject, prow))
  BY DEF NodesAt
<1> QED
  BY <1>1, <1>2, <1>3 DEF ReadAt, Read

LEMMA ReferencingAgree ==
  ASSUME TablesAnswer, IsDatabase(db), NEW mp, Translatable(mp),
         NEW tm, tm.subject.kind # "absent", Speaks(tm.subject), NEW row \in RowSet(db, tm.table),
         SubjectNode(tm, row) # Nothing, NEW pom, NEW q, NEW j, Speaks(pom.preds[q]),
         pom.objs[j].rom, ObjectSpeaks(mp, pom.objs[j]), NEW t
  PROVE  QuadsSay(PairQuads(mp, db, tm, row, pom, q, j), t) <=>
           \E arm \in PairArms(mp, tm, pom.preds[q], pom.objs[j]) : ArmSays(arm, db, row, t)
<1> DEFINE om == pom.objs[j]
           parent == mp[om.parent]
           pred == pom.preds[q]
           said(prow) == NodeTriple(TermNode(tm.subject, row), TermNode(pred, row), TermNode(parent.subject, prow))
           arm == [Arm(tm, pred, parent.subject) EXCEPT !.parent = parent.table, !.joins = om.joins]
           Found(prow) == Joins(om.joins, row, prow) /\ NotNull(parent.subject, prow) /\ t = said(prow)
<1>1. om.parent \in DOMAIN mp \ {0} /\ om.joins # << >>
  BY DEF ObjectSpeaks
<1>2. NotNull(tm.subject, row)
  BY NodeSpeaks DEF SubjectNode
<1>3. QuadsSay(PairQuads(mp, db, tm, row, pom, q, j), t) <=>
        /\ NotNull(pred, row)
        /\ NodesSay(ObjectNodes(mp, db, om, row), TermNode(tm.subject, row), TermNode(pred, row), t)
  BY PairTexts
<1>4. \A o : o \in ObjectNodes(mp, db, om, row) <=>
               \E prow \in RowSet(db, parent.table) : Joins(om.joins, row, prow) /\ o = NodeOf(parent.subject, prow)
  <2>1. ObjectNodes(mp, db, om, row) = Referenced(mp, db, om, row)
    BY <1>1, ReferencedObjects
  <2> QED
    BY <2>1 DEF Referenced
<1>5. PairArms(mp, tm, pred, om) = IF HasTerms(parent) THEN {arm} ELSE {}
  BY <1>1 DEF PairArms, ReferencingArms
<1>6. /\ parent.table # NoTable /\ (HasTerms(parent) <=> parent.subject.kind # "none")
      /\ HasTerms(parent) => Speaks(parent.subject)
  BY <1>1, ParentFacts
<1>7. CASE ~HasTerms(parent)
  <2>1. \A prow : NodeOf(parent.subject, prow) = Nothing
    BY <1>6, <1>7 DEF NodeOf, YieldsNothing
  <2>2. ~NodesSay(ObjectNodes(mp, db, om, row), TermNode(tm.subject, row), TermNode(pred, row), t)
    BY <1>4, <2>1 DEF NodesSay
  <2> QED
    BY <1>3, <1>5, <1>7, <2>2
<1>8. CASE HasTerms(parent)
  <2>1. \A prow : (NodeOf(parent.subject, prow) = Nothing <=> ~NotNull(parent.subject, prow))
                  /\ (NotNull(parent.subject, prow) => NodeOf(parent.subject, prow) = TermNode(parent.subject, prow))
    BY <1>6, <1>8, NodeSpeaks
  <2>2. NodesSay(ObjectNodes(mp, db, om, row), TermNode(tm.subject, row), TermNode(pred, row), t)
          <=> \E prow \in RowSet(db, parent.table) : Found(prow)
    BY <1>4, <2>1 DEF NodesSay
  <2>a. /\ parent.table # NoTable
        /\ arm.table = tm.table /\ arm.parent = parent.table /\ arm.joins = om.joins
        /\ arm["s"] = tm.subject /\ arm["p"] = pred /\ arm["o"] = parent.subject
    BY <1>6 DEF Arm
  <2>3. /\ \A pair : pair \in ReadAt(arm, db, row) <=>
             \E prow \in RowSet(db, parent.table) :
               /\ pair = << row, prow >> /\ Joins(om.joins, row, prow)
               /\ NotNull(tm.subject, row) /\ NotNull(pred, row) /\ NotNull(parent.subject, prow)
        /\ \A prow : NodesAt(arm, << row, prow >>) = said(prow)
    <3> HIDE DEF parent, pred, arm, om
    <3> QED
      BY <2>a, ReadOfPair
  <2> HIDE DEF arm, said, om, parent, pred
  <2>4. ArmSays(arm, db, row, t)
          <=> NotNull(pred, row) /\ \E prow \in RowSet(db, parent.table) : Found(prow)
    <3>1. ASSUME NEW pair \in ReadAt(arm, db, row), t = NodesAt(arm, pair)
          PROVE  NotNull(pred, row) /\ \E prow \in RowSet(db, parent.table) : Found(prow)
      BY <2>3, <3>1
    <3>2. ASSUME NotNull(pred, row), NEW prow \in RowSet(db, parent.table), Found(prow)
          PROVE  \E pair \in ReadAt(arm, db, row) : t = NodesAt(arm, pair)
      <4>1. << row, prow >> \in ReadAt(arm, db, row)
        BY <1>2, <2>3, <3>2
      <4> QED
        BY <2>3, <3>2, <4>1
    <3> QED
      BY <3>1, <3>2 DEF ArmSays
  <2> QED
    BY <1>3, <1>5, <1>8, <2>2, <2>4 DEF om, pred
<1> QED
  BY <1>7, <1>8

LEMMA PairsAgree ==
  ASSUME TablesAnswer, IsDatabase(db), NEW mp, Translatable(mp),
         NEW tm, tm.subject.kind # "absent", Speaks(tm.subject), NEW row \in RowSet(db, tm.table),
         SubjectNode(tm, row) # Nothing, NEW pom, PomSpeaks(mp, pom), NEW t
  PROVE  QuadsSay(PomQuads(mp, db, tm, row, pom), t) <=> \E arm \in PomArms(mp, tm, pom) : ArmSays(arm, db, row, t)
<1>1. ASSUME NEW q \in DOMAIN pom.preds, NEW j \in DOMAIN pom.objs
      PROVE  QuadsSay(PairQuads(mp, db, tm, row, pom, q, j), t) <=>
               \E arm \in PairArms(mp, tm, pom.preds[q], pom.objs[j]) : ArmSays(arm, db, row, t)
  <2>1. Speaks(pom.preds[q]) /\ ObjectSpeaks(mp, pom.objs[j])
    BY DEF PomSpeaks
  <2>2. CASE pom.objs[j].rom
    BY <2>1, <2>2, ReferencingAgree
  <2>3. CASE ~pom.objs[j].rom
    <3>1. Speaks(pom.objs[j].map)
      BY <2>1, <2>3 DEF ObjectSpeaks
    <3> QED
      BY <2>1, <2>3, <3>1, RegularAgree
  <2> QED
    BY <2>2, <2>3
<1>2. QuadsSay(PomQuads(mp, db, tm, row, pom), t) <=>
        \E q \in DOMAIN pom.preds : \E j \in DOMAIN pom.objs : QuadsSay(PairQuads(mp, db, tm, row, pom, q, j), t)
  BY DEF QuadsSay, PomQuads
<1>3. \A arm : arm \in PomArms(mp, tm, pom) <=>
        \E q \in DOMAIN pom.preds : \E j \in DOMAIN pom.objs : arm \in PairArms(mp, tm, pom.preds[q], pom.objs[j])
  BY DEF PomArms
<1> QED
  BY <1>1, <1>2, <1>3

-----------------------------------------------------------------------------
(* All arms of a triples map read its rows and have its subject.           *)
LEMMA PairArmsOf ==
  ASSUME NEW mp, NEW tm, NEW pred, NEW om, NEW arm \in PairArms(mp, tm, pred, om)
  PROVE  arm.table = tm.table /\ arm["s"] = tm.subject
<1>1. CASE om.rom
  <2>1. PICK k \in {om.parent} \ {0} :
          arm = [Arm(tm, pred, mp[k].subject) EXCEPT !.parent = mp[k].table, !.joins = om.joins]
    BY <1>1 DEF PairArms, ReferencingArms
  <2> QED
    BY <2>1 DEF Arm
<1>2. CASE ~om.rom
  BY <1>2, ArmFacts DEF PairArms
<1> QED
  BY <1>1, <1>2

LEMMA MapArmsOf ==
  ASSUME NEW mp, NEW tm, NEW arm \in MapArms(mp, tm)
  PROVE  HasTerms(tm) /\ arm.table = tm.table /\ arm["s"] = tm.subject
<1>1. HasTerms(tm) /\ arm \in ClassArms(tm) \cup UNION { PomArms(mp, tm, tm.poms[i]) : i \in DOMAIN tm.poms }
  BY DEF MapArms
<1>2. CASE arm \in ClassArms(tm)
  BY <1>1, <1>2, ArmFacts DEF ClassArms
<1>3. CASE \E i \in DOMAIN tm.poms : arm \in PomArms(mp, tm, tm.poms[i])
  BY <1>1, <1>3, PairArmsOf DEF PomArms
<1> QED
  BY <1>1, <1>2, <1>3

(* A row says what the arms of its triples map read of it.                 *)
LEMMA RowsAgree ==
  ASSUME TablesAnswer, IsDatabase(db), NEW mp, Translatable(mp), NEW m \in DOMAIN mp,
         NEW row \in RowSet(db, mp[m].table), NEW t
  PROVE  QuadsSay(RowQuads(mp, db, mp[m], row), t) <=> \E arm \in MapArms(mp, mp[m]) : ArmSays(arm, db, row, t)
<1> DEFINE tm == mp[m]
<1>1. TriplesMapValid(tm) /\ (tm.subject.kind # "none" => Speaks(tm.subject))
  BY DEF Translatable
<1>2. tm.subject.kind # "absent" /\ tm.table # NoTable
  BY <1>1 DEF TriplesMapValid
<1>3. SubjectNode(tm, row) = NodeOf(tm.subject, row)
  BY <1>2 DEF SubjectNode
<1>4. CASE SubjectNode(tm, row) = Nothing
  <2>1. ASSUME NEW arm \in MapArms(mp, tm), ArmSays(arm, db, row, t) PROVE FALSE
    <3>1. Speaks(tm.subject) /\ arm["s"] = tm.subject
      BY <1>1, MapArmsOf DEF HasTerms
    <3>2. ~NotNull(tm.subject, row)
      BY <1>3, <1>4, <3>1, NodeSpeaks
    <3>3. PICK pair \in ReadAt(arm, db, row) : TRUE
      BY <2>1 DEF ArmSays
    <3>4. pair[1] = row /\ NotNull(arm["s"], RowAt(pair, "s"))
      BY <3>3 DEF ReadAt, Read, Positions
    <3> QED
      BY <3>1, <3>2, <3>4 DEF RowAt
  <2> QED
    BY <1>4, <2>1 DEF RowQuads, QuadsSay
<1>5. CASE SubjectNode(tm, row) # Nothing
  <2>1. tm.subject.kind # "none"
    BY <1>3, <1>5 DEF NodeOf, YieldsNothing
  <2>2. Speaks(tm.subject) /\ HasTerms(tm)
    BY <1>1, <1>2, <2>1 DEF HasTerms
  <2>3. QuadsSay(ClassQuads(tm, row), t) <=> \E arm \in ClassArms(tm) : ArmSays(arm, db, row, t)
    BY <1>2, <1>5, <2>2, ClassesAgree
  <2>4. ASSUME NEW i \in DOMAIN tm.poms
        PROVE  QuadsSay(PomQuads(mp, db, tm, row, tm.poms[i]), t) <=>
                 \E arm \in PomArms(mp, tm, tm.poms[i]) : ArmSays(arm, db, row, t)
    <3>1. PomSpeaks(mp, tm.poms[i])
      BY DEF Translatable
    <3> HIDE DEF tm
    <3>2. row \in RowSet(db, tm.table)
      BY DEF tm
    <3> QED
      BY <1>2, <1>5, <2>2, <3>1, <3>2, PairsAgree
  <2> HIDE DEF tm
  <2>5. QuadsSay(RowQuads(mp, db, tm, row), t) <=>
          QuadsSay(ClassQuads(tm, row), t) \/ \E i \in DOMAIN tm.poms : QuadsSay(PomQuads(mp, db, tm, row, tm.poms[i]), t)
    BY <1>5 DEF RowQuads, QuadsSay
  <2>6. \A arm : arm \in MapArms(mp, tm) <=>
          arm \in ClassArms(tm) \/ \E i \in DOMAIN tm.poms : arm \in PomArms(mp, tm, tm.poms[i])
    BY <2>2 DEF MapArms
  <2> QED
    BY <2>3, <2>4, <2>5, <2>6 DEF tm
<1> QED
  BY <1>4, <1>5

(* The conversion writes what the arms of all triples maps read.           *)
AllArms(mp) == UNION { MapArms(mp, mp[i]) : i \in DOMAIN mp }

LEMMA TriplesAreRead ==
  ASSUME TablesAnswer, IsDatabase(db), Translatable(mapping), NEW t
  PROVE  t \in Triples <=> \E arm \in AllArms(mapping) : \E pair \in Read(arm, db) : t = NodesAt(arm, pair)
<1>1. t \in Triples <=>
        \E m \in DOMAIN mapping : \E row \in RowSet(db, mapping[m].table) :
          \E arm \in MapArms(mapping, mapping[m]) : ArmSays(arm, db, row, t)
  BY TriplesByRows, RowsAgree
<1>2. ASSUME NEW m \in DOMAIN mapping, NEW arm \in MapArms(mapping, mapping[m]), NEW pair
      PROVE  pair \in Read(arm, db) <=> \E row \in RowSet(db, mapping[m].table) : pair \in ReadAt(arm, db, row)
  <2>1. arm.table = mapping[m].table
    BY MapArmsOf
  <2>2. pair \in Paired(arm, db) => pair[1] \in RowSet(db, arm.table)
    BY DEF Paired
  <2> QED
    BY <2>1, <2>2 DEF ReadAt, Read
<1>3. \A arm : arm \in AllArms(mapping) <=> \E m \in DOMAIN mapping : arm \in MapArms(mapping, mapping[m])
  BY DEF AllArms
<1>4. ASSUME t \in Triples PROVE \E arm \in AllArms(mapping) : \E pair \in Read(arm, db) : t = NodesAt(arm, pair)
  <2>m. PICK m \in DOMAIN mapping : \E row \in RowSet(db, mapping[m].table) :
          \E arm \in MapArms(mapping, mapping[m]) : ArmSays(arm, db, row, t)
    BY <1>1, <1>4
  <2>r. PICK row \in RowSet(db, mapping[m].table) : \E arm \in MapArms(mapping, mapping[m]) : ArmSays(arm, db, row, t)
    BY <2>m
  <2>1. PICK arm \in MapArms(mapping, mapping[m]) : ArmSays(arm, db, row, t)
    BY <2>r
  <2>2. PICK pair \in ReadAt(arm, db, row) : t = NodesAt(arm, pair)
    BY <2>1 DEF ArmSays
  <2>3. arm \in AllArms(mapping) /\ pair \in Read(arm, db)
    BY <1>2, <1>3
  <2> QED
    BY <2>2, <2>3
<1>5. ASSUME NEW arm \in AllArms(mapping), NEW pair \in Read(arm, db), t = NodesAt(arm, pair) PROVE t \in Triples
  <2>1. PICK m \in DOMAIN mapping : arm \in MapArms(mapping, mapping[m])
    BY <1>3
  <2>2. PICK row \in RowSet(db, mapping[m].table) : pair \in ReadAt(arm, db, row)
    BY <1>2, <2>1
  <2>3. ArmSays(arm, db, row, t)
    BY <1>5, <2>2 DEF ArmSays
  <2> QED
    BY <1>1, <2>1, <2>3
<1> QED
  BY <1>4, <1>5

LEMMA GraphIsRead ==
  ASSUME TablesAnswer, IsDatabase(db), Translatable(mapping), NEW u
  PROVE  u \in Graph <=> \E arm \in AllArms(mapping) : \E pair \in Read(arm, db) : u = TripleAt(arm, pair)
<1>1. u \in Graph <=> \E t \in Triples : u = Texts(t)
  BY DEF Graph
<1>2. ASSUME NEW t \in Triples, u = Texts(t)
      PROVE  \E arm \in AllArms(mapping) : \E pair \in Read(arm, db) : u = TripleAt(arm, pair)
  <2>1. \E arm \in AllArms(mapping) : \E pair \in Read(arm, db) : t = NodesAt(arm, pair)
    BY TriplesAreRead
  <2> QED
    BY <1>2, <2>1, TextsAt
<1>3. ASSUME NEW arm \in AllArms(mapping), NEW pair \in Read(arm, db), u = TripleAt(arm, pair)
      PROVE  \E t \in Triples : u = Texts(t)
  <2>1. NodesAt(arm, pair) \in Triples
    BY TriplesAreRead
  <2> QED
    BY <1>3, <2>1, TextsAt
<1> QED
  BY <1>1, <1>2, <1>3

-----------------------------------------------------------------------------
(* Where values are equal in SQL if their texts are, SQL and conversion    *)
(* pair the same rows.                                                     *)
LEMMA ConditionsAgree ==
  ASSUME IsDatabase(db), NEW table \in DOMAIN TableRows, NEW parent \in DOMAIN TableRows, NEW joins,
         EqualByText(joins, table, parent), NEW row \in RowSet(db, table), NEW prow \in RowSet(db, parent)
  PROVE  SqlJoins(joins, row, prow) <=> Joins(joins, row, prow)
<1>1. row \in TableRows[table] /\ prow \in TableRows[parent]
  BY DEF RowSet, IsDatabase
<1> QED
  BY <1>1 DEF EqualByText, SqlJoins, Joins

(* An arm over two tables is that of a referencing object map.             *)
LEMMA ArmsWithParents ==
  ASSUME NEW mp, Translatable(mp), JoinsByText(mp), NEW arm \in AllArms(mp), arm.parent # NoTable
  PROVE  /\ arm.table \in DOMAIN TableRows /\ arm.parent \in DOMAIN TableRows
         /\ EqualByText(arm.joins, arm.table, arm.parent)
<1>1. PICK m \in DOMAIN mp : arm \in MapArms(mp, mp[m])
  BY DEF AllArms
<1> DEFINE tm == mp[m]
<1>2. arm \notin ClassArms(tm)
  BY ArmFacts DEF ClassArms
<1>3. PICK i \in DOMAIN tm.poms : arm \in PomArms(mp, tm, tm.poms[i])
  BY <1>1, <1>2 DEF MapArms
<1> DEFINE pom == tm.poms[i]
<1>4. PICK q \in DOMAIN pom.preds : \E j \in DOMAIN pom.objs : arm \in PairArms(mp, tm, pom.preds[q], pom.objs[j])
  BY <1>3 DEF PomArms
<1>5. PICK j \in DOMAIN pom.objs : arm \in PairArms(mp, tm, pom.preds[q], pom.objs[j])
  BY <1>4
<1> DEFINE om == pom.objs[j]
<1>6. PomSpeaks(mp, pom) /\ PomJoinsByText(mp, tm, pom) /\ tm.table \in DOMAIN TableRows
  BY DEF Translatable, JoinsByText
<1> HIDE DEF tm, pom
<1>7. om.rom
  BY <1>5, ArmFacts DEF PairArms
<1>8. om.parent \in DOMAIN mp \ {0}
  BY <1>6, <1>7 DEF PomSpeaks, ObjectSpeaks
<1>9. arm = [Arm(tm, pom.preds[q], mp[om.parent].subject) EXCEPT !.parent = mp[om.parent].table, !.joins = om.joins]
  BY <1>5, <1>7 DEF PairArms, ReferencingArms
<1>10. arm.table = tm.table /\ arm.parent = mp[om.parent].table /\ arm.joins = om.joins
  BY <1>9 DEF Arm
<1>11. mp[om.parent].table \in DOMAIN TableRows
  BY <1>8 DEF Translatable
<1> QED
  BY <1>6, <1>7, <1>10, <1>11 DEF PomJoinsByText

LEMMA JoinsAgree ==
  ASSUME IsDatabase(db), NEW mp, Translatable(mp), JoinsByText(mp), NEW arm \in AllArms(mp)
  PROVE  Joined(arm, db) = Paired(arm, db)
<1>1. CASE arm.parent = NoTable
  BY <1>1 DEF Joined, Paired
<1>2. CASE arm.parent # NoTable
  <2>1. \A row \in RowSet(db, arm.table), prow \in RowSet(db, arm.parent) :
          SqlJoins(arm.joins, row, prow) <=> Joins(arm.joins, row, prow)
    BY <1>2, ArmsWithParents, ConditionsAgree
  <2> QED
    BY <1>2, <2>1 DEF Joined, Paired
<1> QED
  BY <1>1, <1>2

LEMMA SelectedIsRead ==
  ASSUME IsDatabase(db), NEW mp, Translatable(mp), JoinsByText(mp), NEW arm \in AllArms(mp),
         NEW pattern, NEW pair \in Selected(arm, pattern, db)
  PROVE  pair \in Read(arm, db)
BY JoinsAgree DEF Selected, Read

-----------------------------------------------------------------------------
(* The rows of the SQL, without their tags.                                *)
LEMMA UntaggedRow ==
  ASSUME NEW solution, NEW tags, solution = [v \in DOMAIN solution |-> solution[v]]
  PROVE  TextsOf(WithTags(solution, tags)) = solution
BY DEF TextsOf, WithTags, Cell

ArmsSolve(someArms, pattern, d, x) ==
  \E arm \in someArms : \E pair \in Selected(arm, pattern, d) : x = Solution(pattern, TripleAt(arm, pair))

Solves(someArms, pattern, d, x) == \E row \in Evaluated(someArms, pattern, d) : x = TextsOf(row)

LEMMA EvaluatedIsRead ==
  ASSUME NEW someArms, NEW pattern, NEW d, NEW x
  PROVE  Solves(someArms, pattern, d, x) <=> ArmsSolve(someArms, pattern, d, x)
<1>1. ASSUME NEW arm, NEW pair
      PROVE  TextsOf(WithTags(Solution(pattern, TripleAt(arm, pair)), Tags(arm, pattern))) = Solution(pattern, TripleAt(arm, pair))
  <2>1. ASSUME NEW t PROVE Solution(pattern, t) = [v \in DOMAIN Solution(pattern, t) |-> Solution(pattern, t)[v]]
    BY DEF Solution
  <2> QED
    BY <2>1, UntaggedRow
<1>2. \A row : row \in Evaluated(someArms, pattern, d) <=>
        \E arm \in someArms : \E pair \in Selected(arm, pattern, d) :
          row = WithTags(Solution(pattern, TripleAt(arm, pair)), Tags(arm, pattern))
  BY DEF Evaluated
<1>3. ASSUME NEW row \in Evaluated(someArms, pattern, d), x = TextsOf(row)
      PROVE  \E arm \in someArms : \E pair \in Selected(arm, pattern, d) : x = Solution(pattern, TripleAt(arm, pair))
  BY <1>1, <1>2, <1>3
<1>4. ASSUME NEW arm \in someArms, NEW pair \in Selected(arm, pattern, d), x = Solution(pattern, TripleAt(arm, pair))
      PROVE  \E row \in Evaluated(someArms, pattern, d) : x = TextsOf(row)
  <2> DEFINE row == WithTags(Solution(pattern, TripleAt(arm, pair)), Tags(arm, pattern))
  <2>1. row \in Evaluated(someArms, pattern, d)
    BY <1>2
  <2>2. TextsOf(row) = x
    BY <1>1, <1>4
  <2> QED
    BY <2>1, <2>2
<1> QED
  BY <1>3, <1>4 DEF Solves, ArmsSolve

(* What is selected from the arms that are kept is what matches.           *)
LEMMA SelectedIsMatching ==
  ASSUME TablesAnswer, IsDatabase(db), Translatable(mapping), JoinsByText(mapping),
         NEW pattern, IsPattern(pattern), NEW u
  PROVE  (\E arm \in PatternArms(mapping, pattern) : \E pair \in Selected(arm, pattern, db) : u = TripleAt(arm, pair))
           <=> u \in Graph /\ Matches(pattern, u)
<1>1. \A arm : arm \in PatternArms(mapping, pattern) <=>
        arm \in AllArms(mapping) /\ \A pos \in Positions : Keeps(arm[pos], pattern[pos])
  BY DEF PatternArms, AllArms
<1>2. \A arm \in AllArms(mapping) : Joined(arm, db) = Paired(arm, db) /\ Selected(arm, pattern, db) \subseteq Read(arm, db)
  BY JoinsAgree, SelectedIsRead
<1>3. ASSUME NEW arm \in PatternArms(mapping, pattern), NEW pair \in Selected(arm, pattern, db), u = TripleAt(arm, pair)
      PROVE  u \in Graph /\ Matches(pattern, u)
  <2>1. pair \in Read(arm, db) /\ arm \in AllArms(mapping)
    BY <1>1, <1>2
  <2>2. Matches(pattern, u)
    BY <1>1, <1>2, <1>3, <2>1, SelectedMatches
  <2> QED
    BY <1>3, <2>1, <2>2, GraphIsRead
<1>4. ASSUME u \in Graph, Matches(pattern, u)
      PROVE  \E arm \in PatternArms(mapping, pattern) : \E pair \in Selected(arm, pattern, db) : u = TripleAt(arm, pair)
  <2>m. PICK arm \in AllArms(mapping) : \E pair \in Read(arm, db) : u = TripleAt(arm, pair)
    BY <1>4, GraphIsRead
  <2>1. PICK pair \in Read(arm, db) : u = TripleAt(arm, pair)
    BY <2>m
  <2>2. (\A pos \in Positions : Keeps(arm[pos], pattern[pos])) /\ pair \in Selected(arm, pattern, db)
    BY <1>2, <1>4, <2>1, SelectedMatches
  <2> QED
    BY <1>1, <2>1, <2>2
<1> QED
  BY <1>3, <1>4

LEMMA RowsAreSolutions ==
  ASSUME TablesAnswer, IsDatabase(db), Translatable(mapping), JoinsByText(mapping), NEW pattern, IsPattern(pattern)
  PROVE  { TextsOf(row) : row \in Evaluated(PatternArms(mapping, pattern), pattern, db) }
           = { Solution(pattern, t) : t \in { u \in Graph : Matches(pattern, u) } }
<1> DEFINE kept == PatternArms(mapping, pattern)
<1>1. ASSUME NEW x
      PROVE  ArmsSolve(kept, pattern, db, x) <=> \E t \in Graph : Matches(pattern, t) /\ x = Solution(pattern, t)
  <2> HIDE DEF kept
  <2>1. \A u : (\E arm \in kept : \E pair \in Selected(arm, pattern, db) : u = TripleAt(arm, pair))
                 <=> u \in Graph /\ Matches(pattern, u)
    BY SelectedIsMatching DEF kept
  <2> QED
    BY <2>1 DEF ArmsSolve
<1> HIDE DEF kept
<1>2. \A x : x \in { TextsOf(row) : row \in Evaluated(kept, pattern, db) }
               <=> x \in { Solution(pattern, t) : t \in { u \in Graph : Matches(pattern, u) } }
  <2> SUFFICES ASSUME NEW x
               PROVE  x \in { TextsOf(row) : row \in Evaluated(kept, pattern, db) }
                        <=> x \in { Solution(pattern, t) : t \in { u \in Graph : Matches(pattern, u) } }
    OBVIOUS
  <2>1. x \in { Solution(pattern, t) : t \in { u \in Graph : Matches(pattern, u) } }
          <=> \E t \in Graph : Matches(pattern, t) /\ x = Solution(pattern, t)
    OBVIOUS
  <2>2. x \in { TextsOf(row) : row \in Evaluated(kept, pattern, db) } <=> Solves(kept, pattern, db, x)
    BY DEF Solves
  <2> QED
    BY <1>1, <2>1, <2>2, EvaluatedIsRead
<1> QED
  BY <1>2 DEF kept

-----------------------------------------------------------------------------
(* The terms.  What a row of an arm shows at a position: its text and its  *)
(* tag.                                                                    *)
ShownAt(arm, pair, pos) == Cell(TripleAt(arm, pair)[pos], EncodeTag(AnnotationAt(arm, pos)))

(* A term arm speaks for every row whose columns it needs.                 *)
LEMMA TermIsAnswered ==
  ASSUME NEW termArms, NEW d, NEW table, table # NoTable, NEW tm, [table |-> table, term |-> tm] \in termArms,
         NEW row \in RowSet(d, table), NotNull(tm, row)
  PROVE  Cell(Expansion(tm, row), EncodeTag(Annotate(tm, table))) \in EvaluatedTerms(termArms, d)
<1> DEFINE arm == [table |-> table, term |-> tm]
<1>1. arm.table = table /\ arm.term = tm /\ arm \in termArms
  OBVIOUS
<1> HIDE DEF arm
<1>2. Expansion(tm, row) \in { Expansion(arm.term, r) : r \in { x \in RowSet(d, arm.table) : NotNull(arm.term, x) } }
  BY <1>1
<1>3. \E lex \in IF arm.table = NoTable
                   THEN {Expansion(arm.term, << >>)}
                   ELSE { Expansion(arm.term, r) : r \in { x \in RowSet(d, arm.table) : NotNull(arm.term, x) } } :
        Cell(Expansion(tm, row), EncodeTag(Annotate(tm, table))) = Cell(lex, EncodeTag(Annotate(arm.term, arm.table)))
  BY <1>1, <1>2
<1> QED
  BY <1>1, <1>3 DEF EvaluatedTerms

LEMMA ClassIsAnswered ==
  ASSUME NEW termArms, NEW d, NEW c, [table |-> NoTable, term |-> ConstantMap(c)] \in termArms, NEW table
  PROVE  Cell(<< c, << >> >>, EncodeTag(Annotate(ConstantMap(c), table))) \in EvaluatedTerms(termArms, d)
<1> DEFINE arm == [table |-> NoTable, term |-> ConstantMap(c)]
<1>1. arm.table = NoTable /\ arm.term = ConstantMap(c) /\ Expansion(arm.term, << >>) = << c, << >> >> /\ arm \in termArms
  BY ConstantMapFacts
<1>2. Annotate(ConstantMap(c), table) = Annotate(ConstantMap(c), NoTable)
  BY DEF Annotate, IsLiteral, ConstantMap
<1> HIDE DEF arm
<1> QED
  BY <1>1, <1>2 DEF EvaluatedTerms

(* The term arms of a triples map with terms.                              *)
LEMMA TermArmsOf ==
  ASSUME NEW mp, NEW m \in DOMAIN mp, HasTerms(mp[m]), mp[m].classes # << >> \/ mp[m].poms # << >>
  PROVE  /\ [table |-> mp[m].table, term |-> mp[m].subject] \in TermArms(mp)
         /\ \A i \in DOMAIN mp[m].poms : \A j \in DOMAIN mp[m].poms[i].objs :
              ~mp[m].poms[i].objs[j].rom => [table |-> mp[m].table, term |-> mp[m].poms[i].objs[j].map] \in TermArms(mp)
         /\ \A c \in DOMAIN mp[m].classes : [table |-> NoTable, term |-> ConstantMap(mp[m].classes[c])] \in TermArms(mp)
<1> DEFINE tm == mp[m]
<1>1. MapTermArms(tm) \subseteq TermArms(mp)
  BY DEF TermArms
<1> HIDE DEF tm
<1>2. [table |-> tm.table, term |-> tm.subject] \in MapTermArms(tm)
  BY DEF MapTermArms
<1>3. ASSUME NEW i \in DOMAIN tm.poms, NEW j \in DOMAIN tm.poms[i].objs, ~tm.poms[i].objs[j].rom
      PROVE  [table |-> tm.table, term |-> tm.poms[i].objs[j].map] \in MapTermArms(tm)
  <2>1. tm.poms[i].objs[j].map \in RegularObjects(tm.poms[i])
    BY <1>3 DEF RegularObjects
  <2> QED
    BY <2>1 DEF MapTermArms
<1>4. \A c \in DOMAIN tm.classes : [table |-> NoTable, term |-> ConstantMap(tm.classes[c])] \in MapTermArms(tm)
  BY DEF MapTermArms
<1> QED
  BY <1>1, <1>2, <1>3, <1>4 DEF tm

(* Where the object of an arm is answered: as a class, as an object, or as *)
(* the subject of the parent.                                              *)
ObjectIsClass(arm, termArms) ==
  \E c : arm["o"] = ConstantMap(c) /\ [table |-> NoTable, term |-> ConstantMap(c)] \in termArms

ObjectIsTerm(arm, termArms) ==
  LET table == IF arm.parent = NoTable THEN arm.table ELSE arm.parent
  IN  table # NoTable /\ [table |-> table, term |-> arm["o"]] \in termArms

LEMMA PairArmsAreAnswered ==
  ASSUME NEW mp, ParentsAreNodes(mp), NEW m \in DOMAIN mp, Translatable(mp), HasTerms(mp[m]),
         NEW i \in DOMAIN mp[m].poms, NEW j \in DOMAIN mp[m].poms[i].objs, NEW pred,
         NEW arm \in PairArms(mp, mp[m], pred, mp[m].poms[i].objs[j])
  PROVE  ObjectIsTerm(arm, TermArms(mp))
<1> DEFINE om == mp[m].poms[i].objs[j]
<1>0. mp[m].table # NoTable /\ mp[m].poms # << >>
  BY DEF HasTerms
<1>1. CASE om.rom
  <2>1. PICK k \in {om.parent} \ {0} :
          HasTerms(mp[k]) /\ arm = [Arm(mp[m], pred, mp[k].subject) EXCEPT !.parent = mp[k].table, !.joins = om.joins]
    BY <1>1 DEF PairArms, ReferencingArms
  <2>2. k \in DOMAIN mp
    <3>1. ObjectSpeaks(mp, om)
      BY DEF Translatable, PomSpeaks
    <3> QED
      BY <1>1, <2>1, <3>1 DEF ObjectSpeaks
  <2>3. mp[k].classes # << >> \/ mp[k].poms # << >>
    BY <1>1, <2>1 DEF ParentsAreNodes
  <2>4. arm.parent = mp[k].table /\ arm["o"] = mp[k].subject /\ mp[k].table # NoTable
    BY <2>1 DEF Arm, HasTerms
  <2>5. [table |-> mp[k].table, term |-> mp[k].subject] \in TermArms(mp)
    BY <2>1, <2>2, <2>3, TermArmsOf
  <2> QED
    BY <2>4, <2>5 DEF ObjectIsTerm
<1>2. CASE ~om.rom
  <2>1. arm.parent = NoTable /\ arm.table = mp[m].table /\ arm["o"] = om.map
    BY <1>2, ArmFacts, SMTT(30) DEF PairArms
  <2>2. [table |-> mp[m].table, term |-> om.map] \in TermArms(mp)
    BY <1>0, <1>2, TermArmsOf
  <2> QED
    BY <1>0, <2>1, <2>2 DEF ObjectIsTerm
<1> QED
  BY <1>1, <1>2

LEMMA ArmsAreAnswered ==
  ASSUME NEW mp, Translatable(mp), ParentsAreNodes(mp), NEW arm \in AllArms(mp)
  PROVE  /\ arm.table # NoTable /\ [table |-> arm.table, term |-> arm["s"]] \in TermArms(mp)
         /\ ObjectIsClass(arm, TermArms(mp)) \/ ObjectIsTerm(arm, TermArms(mp))
<1>1. PICK m \in DOMAIN mp : arm \in MapArms(mp, mp[m])
  BY DEF AllArms
<1>2. HasTerms(mp[m]) /\ arm.table = mp[m].table /\ arm["s"] = mp[m].subject
  BY <1>1, MapArmsOf
<1>3. CASE arm \in ClassArms(mp[m])
  <2>1. PICK c \in DOMAIN mp[m].classes : arm = Arm(mp[m], ConstantMap(RdfType), ConstantMap(mp[m].classes[c]))
    BY <1>3 DEF ClassArms
  <2>2. mp[m].classes # << >> /\ arm["o"] = ConstantMap(mp[m].classes[c])
    BY <2>1, ArmFacts
  <2>3. /\ [table |-> mp[m].table, term |-> mp[m].subject] \in TermArms(mp)
        /\ [table |-> NoTable, term |-> ConstantMap(mp[m].classes[c])] \in TermArms(mp)
    BY <1>2, <2>2, TermArmsOf
  <2> QED
    BY <1>2, <2>2, <2>3 DEF HasTerms, ObjectIsClass
<1>4. CASE \E i \in DOMAIN mp[m].poms : arm \in PomArms(mp, mp[m], mp[m].poms[i])
  <2>1. PICK i \in DOMAIN mp[m].poms : arm \in PomArms(mp, mp[m], mp[m].poms[i])
    BY <1>4
  <2>2. PICK q \in DOMAIN mp[m].poms[i].preds, j \in DOMAIN mp[m].poms[i].objs :
          arm \in PairArms(mp, mp[m], mp[m].poms[i].preds[q], mp[m].poms[i].objs[j])
    BY <2>1 DEF PomArms
  <2>3. ObjectIsTerm(arm, TermArms(mp))
    BY <1>2, <2>2, PairArmsAreAnswered
  <2>4. mp[m].poms # << >>
    BY <2>1
  <2>5. [table |-> mp[m].table, term |-> mp[m].subject] \in TermArms(mp)
    BY <1>2, <2>4, TermArmsOf
  <2> QED
    BY <1>2, <2>3, <2>5 DEF HasTerms
<1> QED
  BY <1>1, <1>2, <1>3, <1>4 DEF MapArms

(* The subject and the object of a triple are answered.                    *)
LEMMA CellsAreAnswered ==
  ASSUME Translatable(mapping), ParentsAreNodes(mapping), NEW arm \in AllArms(mapping), NEW pair \in Read(arm, db),
         NEW pos \in {"s", "o"}
  PROVE  ShownAt(arm, pair, pos) \in EvaluatedTerms(TermArms(mapping), db)
<1> DEFINE cells == EvaluatedTerms(TermArms(mapping), db)
<1>1. /\ TripleAt(arm, pair)["s"] = Expansion(arm["s"], pair[1]) /\ NotNull(arm["s"], pair[1])
      /\ TripleAt(arm, pair)["o"] = Expansion(arm["o"], pair[2]) /\ NotNull(arm["o"], pair[2])
  BY DEF TripleAt, RowAt, Read, Positions
<1>2. pair[1] \in RowSet(db, arm.table) /\ pair[2] \in RowSet(db, TableAt(arm, "o"))
  BY DEF Read, Paired, TableAt
<1>3. /\ arm.table # NoTable /\ [table |-> arm.table, term |-> arm["s"]] \in TermArms(mapping)
      /\ ObjectIsClass(arm, TermArms(mapping)) \/ ObjectIsTerm(arm, TermArms(mapping))
  BY ArmsAreAnswered
<1>4. CASE pos = "s"
  <2>1. Cell(Expansion(arm["s"], pair[1]), EncodeTag(Annotate(arm["s"], arm.table))) \in cells
    BY <1>1, <1>2, <1>3, TermIsAnswered
  <2> QED
    BY <1>1, <1>4, <2>1 DEF ShownAt, AnnotationAt, TableAt
<1>5. CASE pos = "o" /\ ObjectIsClass(arm, TermArms(mapping))
  <2>1. PICK c : arm["o"] = ConstantMap(c) /\ [table |-> NoTable, term |-> ConstantMap(c)] \in TermArms(mapping)
    BY <1>5 DEF ObjectIsClass
  <2>2. TripleAt(arm, pair)["o"] = << c, << >> >>
    BY <1>1, <2>1, ConstantMapFacts
  <2>3. Cell(<< c, << >> >>, EncodeTag(Annotate(ConstantMap(c), TableAt(arm, "o")))) \in cells
    BY <2>1, ClassIsAnswered
  <2> QED
    BY <1>5, <2>1, <2>2, <2>3 DEF ShownAt, AnnotationAt
<1>6. CASE pos = "o" /\ ObjectIsTerm(arm, TermArms(mapping))
  <2>1. TableAt(arm, "o") # NoTable /\ [table |-> TableAt(arm, "o"), term |-> arm["o"]] \in TermArms(mapping)
    BY <1>6 DEF ObjectIsTerm, TableAt
  <2>2. Cell(Expansion(arm["o"], pair[2]), EncodeTag(Annotate(arm["o"], TableAt(arm, "o")))) \in cells
    BY <1>1, <1>2, <2>1, TermIsAnswered
  <2> QED
    BY <1>1, <1>6, <2>2 DEF ShownAt, AnnotationAt
<1> QED
  BY <1>3, <1>4, <1>5, <1>6

LEMMA TriplesAreAnswered ==
  ASSUME TablesAnswer, IsDatabase(db), Translatable(mapping), ParentsAreNodes(mapping), NEW t \in Graph
  PROVE  {t.s, t.o} \subseteq { cell.lex : cell \in EvaluatedTerms(TermArms(mapping), db) }
<1>a. PICK arm \in AllArms(mapping) : \E pair \in Read(arm, db) : t = TripleAt(arm, pair)
  BY GraphIsRead
<1>1. PICK pair \in Read(arm, db) : t = TripleAt(arm, pair)
  BY <1>a
<1>2. \A pos \in {"s", "o"} : /\ ShownAt(arm, pair, pos) \in EvaluatedTerms(TermArms(mapping), db)
                              /\ ShownAt(arm, pair, pos).lex = t[pos]
  BY <1>1, CellsAreAnswered DEF ShownAt, Cell
<1> QED
  BY <1>2

-----------------------------------------------------------------------------
(* The arms of a mapping are finitely many.                                *)
LEMMA SequenceIsFinite == ASSUME NEW s, IsSequence(s) PROVE IsFiniteSet(DOMAIN s)
<1>1. DOMAIN s = 1 .. Len(s) /\ Len(s) \in Nat
  BY DEF IsSequence
<1> QED
  BY <1>1, FS_Interval

LEMMA ValuesAreFinite ==
  ASSUME NEW f, IsFiniteSet(DOMAIN f)
  PROVE  IsFiniteSet({ f[i] : i \in DOMAIN f })
<1> DEFINE T == { f[i] : i \in DOMAIN f }
           g == [i \in DOMAIN f |-> f[i]]
<1>1. g \in Surjection(DOMAIN f, T)
  BY DEF Surjection
<1> HIDE DEF g, T
<1>2. IsFiniteSet(T)
  BY <1>1, FS_Surjection
<1> QED
  BY <1>2 DEF T

LEMMA UnionIsFinite ==
  ASSUME NEW f, IsFiniteSet(DOMAIN f), \A i \in DOMAIN f : IsFiniteSet(f[i])
  PROVE  IsFiniteSet(UNION { f[i] : i \in DOMAIN f })
<1> DEFINE T == { f[i] : i \in DOMAIN f }
<1>1. IsFiniteSet(T) /\ \A x \in T : IsFiniteSet(x)
  BY ValuesAreFinite
<1> HIDE DEF T
<1>2. IsFiniteSet(UNION T)
  BY <1>1, FS_UNION
<1> QED
  BY <1>2 DEF T

LEMMA PairArmsAreFinite == ASSUME NEW mp, NEW tm, NEW pred, NEW om PROVE IsFiniteSet(PairArms(mp, tm, pred, om))
<1>1. CASE om.rom
  <2> DEFINE f == [i \in { k \in {om.parent} \ {0} : om.joins # << >> /\ HasTerms(mp[k]) } |->
                     [Arm(tm, pred, mp[i].subject) EXCEPT !.parent = mp[i].table, !.joins = om.joins]]
  <2>1. IsFiniteSet(DOMAIN f)
    <3>1. IsFiniteSet({om.parent}) /\ DOMAIN f \in SUBSET {om.parent}
      BY FS_Singleton
    <3> QED
      BY <3>1, FS_Subset
  <2>2. PairArms(mp, tm, pred, om) = { f[i] : i \in DOMAIN f }
    BY <1>1 DEF PairArms, ReferencingArms
  <2> HIDE DEF f
  <2> QED
    BY <2>1, <2>2, ValuesAreFinite
<1>2. CASE ~om.rom
  BY <1>2, FS_Singleton DEF PairArms
<1> QED
  BY <1>1, <1>2

LEMMA PomArmsAreFinite ==
  ASSUME NEW mp, NEW tm, NEW pom, PomWellFormed(mp, pom)
  PROVE  IsFiniteSet(PomArms(mp, tm, pom))
<1> DEFINE D == (DOMAIN pom.preds) \X (DOMAIN pom.objs)
           f == [k \in D |-> PairArms(mp, tm, pom.preds[k[1]], pom.objs[k[2]])]
<1>1. IsFiniteSet(D)
  BY SequenceIsFinite, FS_Product DEF PomWellFormed
<1>2. \A x : x \in PomArms(mp, tm, pom) <=> x \in UNION { f[i] : i \in DOMAIN f }
  <2>1. \A x : x \in PomArms(mp, tm, pom) <=>
          \E q \in DOMAIN pom.preds : \E j \in DOMAIN pom.objs : x \in PairArms(mp, tm, pom.preds[q], pom.objs[j])
    BY DEF PomArms
  <2>2. ASSUME NEW x PROVE x \in UNION { f[i] : i \in DOMAIN f } <=>
          \E k \in D : x \in PairArms(mp, tm, pom.preds[k[1]], pom.objs[k[2]])
    OBVIOUS
  <2>3. ASSUME NEW q \in DOMAIN pom.preds, NEW j \in DOMAIN pom.objs
        PROVE  << q, j >> \in D /\ << q, j >>[1] = q /\ << q, j >>[2] = j
    OBVIOUS
  <2>4. \A k \in D : k[1] \in DOMAIN pom.preds /\ k[2] \in DOMAIN pom.objs
    OBVIOUS
  <2> HIDE DEF D, f
  <2>5. ASSUME NEW x, NEW q \in DOMAIN pom.preds, NEW j \in DOMAIN pom.objs, x \in PairArms(mp, tm, pom.preds[q], pom.objs[j])
        PROVE  \E k \in D : x \in PairArms(mp, tm, pom.preds[k[1]], pom.objs[k[2]])
    BY <2>3, <2>5, ZenonT(30)
  <2>6. ASSUME NEW x, NEW k \in D, x \in PairArms(mp, tm, pom.preds[k[1]], pom.objs[k[2]])
        PROVE  \E q \in DOMAIN pom.preds : \E j \in DOMAIN pom.objs : x \in PairArms(mp, tm, pom.preds[q], pom.objs[j])
    BY <2>4, <2>6
  <2>7. ASSUME NEW x
        PROVE  (\E q \in DOMAIN pom.preds : \E j \in DOMAIN pom.objs : x \in PairArms(mp, tm, pom.preds[q], pom.objs[j]))
                 <=> \E k \in D : x \in PairArms(mp, tm, pom.preds[k[1]], pom.objs[k[2]])
    BY <2>5, <2>6
  <2> QED
    BY <2>1, <2>2, <2>7
<1>3. IsFiniteSet(UNION { f[i] : i \in DOMAIN f })
  BY <1>1, PairArmsAreFinite, UnionIsFinite
<1> QED
  BY <1>2, <1>3

LEMMA MapArmsAreFinite ==
  ASSUME NEW mp, NEW tm, MapWellFormed(mp, tm)
  PROVE  IsFiniteSet(MapArms(mp, tm))
<1> DEFINE classArm == [i \in DOMAIN tm.classes |-> Arm(tm, ConstantMap(RdfType), ConstantMap(tm.classes[i]))]
           pomArms  == [i \in DOMAIN tm.poms |-> PomArms(mp, tm, tm.poms[i])]
<1>1. IsFiniteSet(DOMAIN tm.classes) /\ IsFiniteSet(DOMAIN tm.poms)
  BY SequenceIsFinite DEF MapWellFormed
<1>2. IsFiniteSet(ClassArms(tm))
  <2>1. ClassArms(tm) = { classArm[i] : i \in DOMAIN classArm }
    BY DEF ClassArms
  <2> QED
    BY <1>1, <2>1, ValuesAreFinite
<1>3. IsFiniteSet(UNION { PomArms(mp, tm, tm.poms[i]) : i \in DOMAIN tm.poms })
  <2>1. UNION { PomArms(mp, tm, tm.poms[i]) : i \in DOMAIN tm.poms } = UNION { pomArms[i] : i \in DOMAIN pomArms }
    OBVIOUS
  <2>2. \A i \in DOMAIN pomArms : IsFiniteSet(pomArms[i])
    BY PomArmsAreFinite DEF MapWellFormed
  <2>3. IsFiniteSet(DOMAIN pomArms)
    BY <1>1
  <2> HIDE DEF pomArms
  <2> QED
    BY <2>1, <2>2, <2>3, UnionIsFinite
<1> QED
  BY <1>2, <1>3, FS_Union, FS_EmptySet DEF MapArms

LEMMA MapTermArmsAreFinite ==
  ASSUME NEW mp, NEW tm, MapWellFormed(mp, tm)
  PROVE  IsFiniteSet(MapTermArms(tm))
<1> DEFINE pomObjects == [i \in DOMAIN tm.poms |-> RegularObjects(tm.poms[i])]
           terms        == {tm.subject} \cup UNION { RegularObjects(tm.poms[i]) : i \in DOMAIN tm.poms }
           termArm      == [x \in terms |-> [table |-> tm.table, term |-> x]]
           classArm     == [i \in DOMAIN tm.classes |-> [table |-> NoTable, term |-> ConstantMap(tm.classes[i])]]
<1>1. IsFiniteSet(DOMAIN tm.classes) /\ IsFiniteSet(DOMAIN tm.poms)
  BY SequenceIsFinite DEF MapWellFormed
<1>2. ASSUME NEW i \in DOMAIN tm.poms PROVE IsFiniteSet(RegularObjects(tm.poms[i]))
  <2> DEFINE pom == tm.poms[i]
             object == [j \in { k \in DOMAIN pom.objs : ~pom.objs[k].rom } |-> pom.objs[j].map]
  <2>1. IsFiniteSet(DOMAIN pom.objs)
    BY SequenceIsFinite DEF MapWellFormed, PomWellFormed
  <2>2. IsFiniteSet(DOMAIN object)
    <3>1. DOMAIN object \in SUBSET DOMAIN pom.objs
      OBVIOUS
    <3> QED
      BY <2>1, <3>1, FS_Subset
  <2>3. RegularObjects(pom) = { object[j] : j \in DOMAIN object }
    BY DEF RegularObjects
  <2> HIDE DEF object
  <2> QED
    BY <2>2, <2>3, ValuesAreFinite
<1>3. IsFiniteSet(terms)
  <2>1. UNION { RegularObjects(tm.poms[i]) : i \in DOMAIN tm.poms } = UNION { pomObjects[i] : i \in DOMAIN pomObjects }
    OBVIOUS
  <2>2. IsFiniteSet(DOMAIN pomObjects) /\ \A i \in DOMAIN pomObjects : IsFiniteSet(pomObjects[i])
    BY <1>1, <1>2
  <2> HIDE DEF pomObjects
  <2>3. IsFiniteSet(UNION { RegularObjects(tm.poms[i]) : i \in DOMAIN tm.poms })
    BY <2>1, <2>2, UnionIsFinite
  <2> QED
    BY <2>3, FS_Singleton, FS_Union
<1>4. MapTermArms(tm) = { termArm[x] : x \in DOMAIN termArm } \cup { classArm[i] : i \in DOMAIN classArm }
  BY DEF MapTermArms
<1>5. IsFiniteSet(DOMAIN termArm) /\ IsFiniteSet(DOMAIN classArm)
  BY <1>1, <1>3
<1> HIDE DEF termArm, classArm
<1> QED
  BY <1>4, <1>5, ValuesAreFinite, FS_Union

LEMMA ArmsAreFinite ==
  ASSUME NEW mp, Declared(mp)
  PROVE  /\ \A q : IsFiniteSet(PatternArms(mp, q))
         /\ IsFiniteSet(TermArms(mp))
<1> DEFINE mapArms  == [i \in DOMAIN mp |-> MapArms(mp, mp[i])]
           D        == { k \in DOMAIN mp : HasTerms(mp[k]) /\ (mp[k].classes # << >> \/ mp[k].poms # << >>) }
           termArms == [i \in D |-> MapTermArms(mp[i])]
<1>1. IsFiniteSet(DOMAIN mp)
  BY SequenceIsFinite DEF Declared
<1>2. \A i \in DOMAIN mp : IsFiniteSet(MapArms(mp, mp[i])) /\ IsFiniteSet(MapTermArms(mp[i]))
  BY MapArmsAreFinite, MapTermArmsAreFinite DEF Declared
<1>3. IsFiniteSet(AllArms(mp))
  <2>1. AllArms(mp) = UNION { mapArms[i] : i \in DOMAIN mapArms }
    BY DEF AllArms
  <2>2. IsFiniteSet(DOMAIN mapArms) /\ \A i \in DOMAIN mapArms : IsFiniteSet(mapArms[i])
    BY <1>1, <1>2
  <2> HIDE DEF mapArms
  <2> QED
    BY <2>1, <2>2, UnionIsFinite
<1>4. ASSUME NEW q PROVE IsFiniteSet(PatternArms(mp, q))
  <2>1. PatternArms(mp, q) \in SUBSET AllArms(mp)
    BY DEF PatternArms, AllArms
  <2> QED
    BY <1>3, <2>1, FS_Subset
<1>5. IsFiniteSet(TermArms(mp))
  <2>1. TermArms(mp) = UNION { termArms[i] : i \in DOMAIN termArms }
    BY DEF TermArms
  <2>2. IsFiniteSet(D)
    <3>1. D \in SUBSET DOMAIN mp
      OBVIOUS
    <3> QED
      BY <1>1, <3>1, FS_Subset
  <2>3. IsFiniteSet(DOMAIN termArms) /\ \A i \in DOMAIN termArms : IsFiniteSet(termArms[i])
    BY <1>2, <2>2
  <2> HIDE DEF termArms
  <2> QED
    BY <2>1, <2>3, UnionIsFinite
<1> QED
  BY <1>4, <1>5

-----------------------------------------------------------------------------
(* What is declared of a term map is true of the nodes it gives.           *)
Kinds == {"iri", "literal", "blank"}

LEMMA AbsentTag == NoTag \notin TagTexts /\ LangString \in TagTexts
BY NoTagAssumption DEF TagTexts

(* A column whose annotation tells all, with the tag made from it.         *)
Tells(a) == a \in Annotations /\ IsFullyDetermined(a)

LEMMA PlainTells ==
  ASSUME NEW kind \in Kinds
  PROVE  Tells(Known(kind, NoTag, NoTag))
BY KnownFields, AbsentTag DEF Tells, Annotations, Shape, IsFullyDetermined, Kinds, Text

LEMMA LanguageTells ==
  ASSUME NEW lang \in TagTexts
  PROVE  Tells(Known("literal", LangString, lang))
BY KnownFields, AbsentTag DEF Tells, Annotations, Shape, IsFullyDetermined, Text

LEMMA DatatypeTells ==
  ASSUME NEW dt \in TagTexts \ {LangString}
  PROVE  Tells(Known("literal", dt, NoTag))
BY KnownFields, AbsentTag DEF Tells, Annotations, Shape, IsFullyDetermined, Text

LEMMA TagTells ==
  ASSUME NEW a, Tells(a), NEW lex, NEW node, node.lex = lex, Describes(a, TermOf(node))
  PROVE  /\ EncodeTag(a) \in TagSet /\ Covers(a, EncodeTag(a))
         /\ TrueOf(Cell(lex, EncodeTag(a)), node)
BY RoundTrip, OwnTag DEF Tells, TrueOf, Cell

LEMMA ResourceDescribed ==
  ASSUME NEW tm, tm.type \in Kinds, ~IsLiteral(tm), NEW table, NEW row
  PROVE  /\ Annotate(tm, table) = Known(tm.type, NoTag, NoTag)
         /\ Tells(Annotate(tm, table))
         /\ Describes(Annotate(tm, table), TermOf(TermNode(tm, row)))
         /\ Describes(Annotate(tm, table), TermOf(WrittenObject(tm, row)))
<1>1. Annotate(tm, table) = Known(tm.type, NoTag, NoTag)
  BY DEF Annotate
<1>2. tm.type # "literal" /\ tm.type \in {"unknown", "iri", "blank", "literal"} /\ NoTag \in Text
  BY DEF IsLiteral, Kinds, Text
<1>3. /\ TermOf(TermNode(tm, row)) = [kind |-> tm.type, dt |-> NoTag, lang |-> NoTag]
      /\ TermOf(WrittenObject(tm, row)) = [kind |-> tm.type, dt |-> NoTag, lang |-> NoTag]
  BY <1>2 DEF TermOf, TermNode, WrittenObject
<1>4. Describes(Known(tm.type, NoTag, NoTag), [kind |-> tm.type, dt |-> NoTag, lang |-> NoTag])
  BY <1>2, KnownFields DEF Describes
<1> QED
  BY <1>1, <1>3, <1>4, PlainTells

(* The natural datatype of a column, where the catalog knows one, is that  *)
(* of its values.                                                          *)
Shown(tm, table, row) ==
  NaturalOf(tm, table) # NoTag =>
    /\ NaturalOf(tm, table) \in TagTexts \ {LangString}
    /\ tm.kind = "column" /\ row[tm.cols[1]].nat = NaturalOf(tm, table)

LEMMA NaturalIsShown ==
  ASSUME CatalogIsShown, NEW tm, DeclaresObject(tm), NEW table \in DOMAIN TableRows,
         NEW row \in TableRows[table], NotNull(tm, row)
  PROVE  Shown(tm, table, row)
<1> SUFFICES ASSUME NaturalOf(tm, table) # NoTag PROVE Shown(tm, table, row)
  BY DEF Shown
<1>1. tm.kind = "column" /\ << table, tm.cols[1] >> \in DOMAIN Natural /\ NaturalOf(tm, table) = Natural[<< table, tm.cols[1] >>]
  BY DEF NaturalOf
<1>2. row[tm.cols[1]] # NULL
  BY <1>1 DEF DeclaresObject, NotNull
<1> DEFINE k == << table, tm.cols[1] >>
<1>3. k[1] = table /\ k[2] = tm.cols[1] /\ k \in DOMAIN Natural
  BY <1>1
<1>4. Natural[k] \in TagTexts \ {LangString} /\ (row[k[2]] # NULL => row[k[2]].nat = Natural[k])
  BY <1>3 DEF CatalogIsShown
<1> QED
  BY <1>1, <1>2, <1>3, <1>4 DEF Shown

LEMMA LiteralAnnotation ==
  ASSUME NEW tm, DeclaresObject(tm), IsLiteral(tm), NEW table
  PROVE  LET dt == IF tm.dt # NoTag THEN tm.dt ELSE NaturalOf(tm, table)
         IN  /\ tm.lang # NoTag => Annotate(tm, table) = Known("literal", LangString, tm.lang) /\ tm.lang \in TagTexts
             /\ tm.lang = NoTag => Annotate(tm, table) = Known("literal", dt, NoTag)
<1>1. CASE tm.lang # NoTag
  BY <1>1 DEF Annotate, DeclaresObject
<1>2. CASE tm.lang = NoTag
  BY <1>2 DEF Annotate
<1> QED
  BY <1>1, <1>2

LEMMA ObjectTells ==
  ASSUME CatalogIsShown, NEW tm, tm.type \in Kinds, DeclaresObject(tm), NEW table
  PROVE  Tells(Annotate(tm, table))
<1>1. CASE ~IsLiteral(tm)
  BY <1>1, ResourceDescribed
<1>2. CASE IsLiteral(tm) /\ tm.lang # NoTag
  BY <1>2, LiteralAnnotation, LanguageTells
<1>3. CASE IsLiteral(tm) /\ tm.lang = NoTag
  <2> DEFINE dt == IF tm.dt # NoTag THEN tm.dt ELSE NaturalOf(tm, table)
  <2>1. Annotate(tm, table) = Known("literal", dt, NoTag)
    BY <1>3, LiteralAnnotation
  <2>2. NaturalOf(tm, table) # NoTag => NaturalOf(tm, table) \in TagTexts \ {LangString}
    BY DEF NaturalOf, CatalogIsShown
  <2>3. dt # NoTag => dt \in TagTexts \ {LangString}
    BY <1>3, <2>2 DEF DeclaresObject
  <2> HIDE DEF dt
  <2> QED
    BY <2>1, <2>3, DatatypeTells, PlainTells DEF Kinds
<1> QED
  BY <1>1, <1>2, <1>3

LEMMA LiteralDescribed ==
  ASSUME NEW tm, DeclaresObject(tm), IsLiteral(tm), NEW table, NEW row, Shown(tm, table, row)
  PROVE  Describes(Annotate(tm, table), TermOf(WrittenObject(tm, row)))
<1> DEFINE node == WrittenObject(tm, row)
<1>1. tm.type = "literal" /\ node.type = "literal" /\ node.tag = WrittenTag(tm, row)
  BY DEF DeclaresObject, WrittenObject
<1> HIDE DEF node
<1>2. CASE tm.lang # NoTag
  <2>1. Annotate(tm, table) = Known("literal", LangString, tm.lang)
    BY <1>2, LiteralAnnotation
  <2>2. TermOf(node) = [kind |-> "literal", dt |-> LangString, lang |-> tm.lang]
    BY <1>1, <1>2 DEF TermOf, WrittenTag
  <2>3. Describes(Known("literal", LangString, tm.lang), [kind |-> "literal", dt |-> LangString, lang |-> tm.lang])
    BY <1>2 DEF Describes, Known
  <2> QED
    BY <2>1, <2>2, <2>3 DEF node
<1>3. CASE tm.lang = NoTag
  <2> DEFINE dt == IF tm.dt # NoTag THEN tm.dt ELSE NaturalOf(tm, table)
  <2>1. Annotate(tm, table) = Known("literal", dt, NoTag)
    BY <1>3, LiteralAnnotation
  <2>2. dt # NoTag => DatatypeOf(tm, row) = dt
    BY <1>3 DEF Shown, DatatypeOf
  <2>3. WrittenTag(tm, row) = << "^^", DatatypeOf(tm, row) >>
    BY <1>1, <1>3 DEF WrittenTag
  <2>4. /\ TermOf(node).kind = "literal" /\ TermOf(node).lang = NoTag
        /\ dt # NoTag => TermOf(node).dt = dt
    <3>1. TermOf(node) = [kind |-> "literal", lang |-> NoTag,
            dt |-> IF DatatypeOf(tm, row) = NoTag THEN "xsd:string" ELSE DatatypeOf(tm, row)]
      BY <1>1, <2>3 DEF TermOf
    <3> HIDE DEF dt
    <3> QED
      BY <2>2, <3>1
  <2> HIDE DEF dt
  <2>5. Describes(Known("literal", dt, NoTag), TermOf(node))
    BY <2>4 DEF Describes, Known
  <2> QED
    BY <2>1, <2>5 DEF node
<1> QED
  BY <1>2, <1>3

LEMMA ObjectDescribed ==
  ASSUME NEW tm, tm.type \in Kinds, DeclaresObject(tm), NEW table, NEW row, Shown(tm, table, row)
  PROVE  Describes(Annotate(tm, table), TermOf(WrittenObject(tm, row)))
BY ResourceDescribed, LiteralDescribed

-----------------------------------------------------------------------------
(* What the term maps of an arm declare.                                   *)
Resource(tm) == tm.type \in Kinds /\ ~IsLiteral(tm)

Announced(arm) ==
  /\ arm.table \in DOMAIN TableRows
  /\ Resource(arm["s"]) /\ Resource(arm["p"])
  /\ IF arm.parent = NoTable THEN arm["o"].type \in Kinds /\ DeclaresObject(arm["o"]) ELSE Resource(arm["o"])

LEMMA ConstantMapDeclares ==
  ASSUME NEW text
  PROVE  /\ Resource(ConstantMap(text)) /\ DeclaresObject(ConstantMap(text))
         /\ ConstantMap(text).type = "iri"
BY AbsentTag DEF Resource, DeclaresObject, ConstantMap, IsLiteral, Kinds

LEMMA SubjectsDeclare ==
  ASSUME NEW mp, Translatable(mp), Declared(mp), NEW m \in DOMAIN mp, HasTerms(mp[m])
  PROVE  Resource(mp[m].subject) /\ mp[m].table \in DOMAIN TableRows
BY DEF Translatable, Declared, HasTerms, Speaks, Resource, Kinds

LEMMA PairArmsDeclare ==
  ASSUME NEW mp, Translatable(mp), Declared(mp), NEW m \in DOMAIN mp, HasTerms(mp[m]),
         NEW i \in DOMAIN mp[m].poms, NEW q \in DOMAIN mp[m].poms[i].preds, NEW j \in DOMAIN mp[m].poms[i].objs,
         NEW arm \in PairArms(mp, mp[m], mp[m].poms[i].preds[q], mp[m].poms[i].objs[j])
  PROVE  Announced(arm)
<1> DEFINE pred == mp[m].poms[i].preds[q]
           om   == mp[m].poms[i].objs[j]
<1>1. Resource(pred) /\ ObjectSpeaks(mp, om) /\ (~om.rom => DeclaresObject(om.map))
  BY DEF Translatable, Declared, PomSpeaks, PomDeclares, Speaks, Resource, Kinds
<1>2. Resource(mp[m].subject) /\ mp[m].table \in DOMAIN TableRows
  BY SubjectsDeclare
<1>3. CASE om.rom
  <2>1. PICK k \in {om.parent} \ {0} :
          HasTerms(mp[k]) /\ arm = [Arm(mp[m], pred, mp[k].subject) EXCEPT !.parent = mp[k].table, !.joins = om.joins]
    BY <1>3 DEF PairArms, ReferencingArms
  <2>2. k \in DOMAIN mp
    BY <1>1, <1>3, <2>1 DEF ObjectSpeaks
  <2>3. Resource(mp[k].subject) /\ mp[k].table # NoTable
    BY <2>1, <2>2, SubjectsDeclare DEF HasTerms
  <2>4. /\ arm.table = mp[m].table /\ arm.parent = mp[k].table
        /\ arm["s"] = mp[m].subject /\ arm["p"] = pred /\ arm["o"] = mp[k].subject
    BY <2>1 DEF Arm
  <2> QED
    BY <1>1, <1>2, <2>3, <2>4 DEF Announced
<1>4. CASE ~om.rom
  <2>1. arm = Arm(mp[m], pred, om.map)
    BY <1>4 DEF PairArms
  <2>2. om.map.type \in Kinds /\ DeclaresObject(om.map)
    BY <1>1, <1>4 DEF ObjectSpeaks, Speaks, Kinds
  <2>3. /\ arm.table = mp[m].table /\ arm.parent = NoTable
        /\ arm["s"] = mp[m].subject /\ arm["p"] = pred /\ arm["o"] = om.map
    BY <2>1 DEF Arm
  <2> QED
    BY <1>1, <1>2, <2>2, <2>3 DEF Announced
<1> QED
  BY <1>3, <1>4

LEMMA ArmsDeclare ==
  ASSUME NEW mp, Translatable(mp), Declared(mp), NEW arm \in AllArms(mp)
  PROVE  Announced(arm)
<1>1. PICK m \in DOMAIN mp : arm \in MapArms(mp, mp[m])
  BY DEF AllArms
<1>2. HasTerms(mp[m])
  BY <1>1 DEF MapArms
<1>3. CASE arm \in ClassArms(mp[m])
  <2>1. PICK c \in DOMAIN mp[m].classes : arm = Arm(mp[m], ConstantMap(RdfType), ConstantMap(mp[m].classes[c]))
    BY <1>3 DEF ClassArms
  <2>2. /\ arm.table = mp[m].table /\ arm.parent = NoTable
        /\ arm["s"] = mp[m].subject /\ arm["p"] = ConstantMap(RdfType) /\ arm["o"] = ConstantMap(mp[m].classes[c])
    BY <2>1, ArmFacts
  <2>3. Resource(mp[m].subject) /\ mp[m].table \in DOMAIN TableRows
    BY <1>2, SubjectsDeclare
  <2> QED
    BY <2>2, <2>3, ConstantMapDeclares DEF Announced, Kinds
<1>4. CASE \E i \in DOMAIN mp[m].poms : arm \in PomArms(mp, mp[m], mp[m].poms[i])
  BY <1>2, <1>4, PairArmsDeclare DEF PomArms
<1> QED
  BY <1>1, <1>2, <1>3, <1>4 DEF MapArms

(* What a row shows of a term of an arm is true of the term that the       *)
(* conversion writes.                                                      *)
LEMMA AnnotationTells ==
  ASSUME CatalogIsShown, NEW arm, Announced(arm), NEW pos \in Positions
  PROVE  Tells(AnnotationAt(arm, pos))
<1>1. CASE Resource(arm[pos])
  BY <1>1, ResourceDescribed DEF AnnotationAt, Resource
<1>2. CASE ~Resource(arm[pos])
  <2>1. arm[pos].type \in Kinds /\ DeclaresObject(arm[pos])
    BY <1>2 DEF Announced, Positions
  <2> QED
    BY <2>1, ObjectTells DEF AnnotationAt
<1> QED
  BY <1>1, <1>2

LEMMA CellsAreTrue ==
  ASSUME CatalogIsShown, IsDatabase(db), NEW arm, Announced(arm), NEW pair \in Read(arm, db), NEW pos \in Positions
  PROVE  /\ EncodeTag(AnnotationAt(arm, pos)) \in TagSet
         /\ Covers(AnnotationAt(arm, pos), EncodeTag(AnnotationAt(arm, pos)))
         /\ TrueOf(ShownAt(arm, pair, pos), NodesAt(arm, pair)[pos])
<1> DEFINE a == AnnotationAt(arm, pos)
           node == NodesAt(arm, pair)[pos]
<1>1. node.lex = TripleAt(arm, pair)[pos]
  BY TextsAt DEF Texts
<1>2. Describes(a, TermOf(node))
  <2>1. CASE pos = "s" \/ pos = "p"
    <3>1. node = TermNode(arm[pos], pair[1]) /\ Resource(arm[pos])
      BY <2>1 DEF NodesAt, NodeTriple, Announced
    <3> QED
      BY <3>1, ResourceDescribed DEF AnnotationAt, Resource
  <2>2. CASE pos = "o" /\ arm.parent # NoTable
    <3>1. node = TermNode(arm[pos], pair[2]) /\ Resource(arm[pos])
      BY <2>2 DEF NodesAt, NodeTriple, Announced
    <3> QED
      BY <3>1, ResourceDescribed DEF AnnotationAt, Resource
  <2>3. CASE pos = "o" /\ arm.parent = NoTable
    <3>1. node = WrittenObject(arm[pos], pair[2]) /\ arm[pos].type \in Kinds /\ DeclaresObject(arm[pos])
      BY <2>3 DEF NodesAt, NodeTriple, Announced
    <3>2. pair[2] \in RowSet(db, arm.table) /\ NotNull(arm[pos], pair[2])
      BY <2>3 DEF Read, Paired, RowAt
    <3>3. arm.table \in DOMAIN TableRows /\ pair[2] \in TableRows[arm.table]
      BY <3>2 DEF Announced, IsDatabase, RowSet
    <3>4. Shown(arm[pos], arm.table, pair[2])
      BY <3>1, <3>2, <3>3, NaturalIsShown
    <3>5. a = Annotate(arm[pos], arm.table)
      BY <2>3 DEF AnnotationAt, TableAt
    <3> QED
      BY <3>1, <3>4, <3>5, ObjectDescribed
  <2> QED
    BY <2>1, <2>2, <2>3 DEF Positions
<1> HIDE DEF a, node
<1> QED
  BY <1>1, <1>2, AnnotationTells, TagTells DEF a, node, ShownAt

-----------------------------------------------------------------------------
(* A variable of a pattern has a first position.                           *)
First(pattern, v) == FirstOf(PositionsOf(pattern, v))

LEMMA FirstPosition ==
  ASSUME NEW pattern, IsPattern(pattern), NEW v \in Names(pattern)
  PROVE  First(pattern, v) \in Positions /\ pattern[First(pattern, v)] = Variable(v)
<1>1. \E pos \in Positions : pattern[pos] = Variable(v)
  BY DEF IsPattern, Names
<1> QED
  BY <1>1 DEF First, FirstOf, PositionsOf, Positions

(* The row of an arm shows each variable as its first position does.       *)
LEMMA RowShows ==
  ASSUME NEW pattern, IsPattern(pattern), NEW arm, NEW pair,
         SelfJoinGuard(pattern, TripleAt(arm, pair)), NEW v \in Names(pattern)
  PROVE  WithTags(Solution(pattern, TripleAt(arm, pair)), Tags(arm, pattern))[v] = ShownAt(arm, pair, First(pattern, v))
<1> DEFINE t == TripleAt(arm, pair)
           pos == CHOOSE i \in Positions : pattern[i] = Variable(v)
<1>1. First(pattern, v) \in Positions /\ pattern[First(pattern, v)] = Variable(v)
  BY FirstPosition
<1>2. pos \in Positions /\ pattern[pos] = Variable(v)
  BY <1>1
<1>3. Variable(v).is = "variable"
  BY DEF Variable
<1>4. t[pos] = t[First(pattern, v)]
  <2> HIDE DEF t, pos
  <2> QED
    BY <1>1, <1>2, <1>3 DEF SelfJoinGuard, t
<1>5. v \in DOMAIN Solution(pattern, t) /\ Solution(pattern, t)[v] = t[pos]
  BY DEF Solution
<1>6. Tags(arm, pattern)[v] = EncodeTag(AnnotationAt(arm, First(pattern, v)))
  BY DEF Tags, First
<1> HIDE DEF t, pos
<1> QED
  BY <1>4, <1>5, <1>6 DEF WithTags, ShownAt, t

RowOf(arm, pair, pattern) == WithTags(Solution(pattern, TripleAt(arm, pair)), Tags(arm, pattern))

LEMMA RowIsTrue ==
  ASSUME CatalogIsShown, IsDatabase(db), IsPattern(query), NEW arm, Announced(arm),
         NEW pair \in Selected(arm, query, db), pair \in Read(arm, db)
  PROVE  RowTells(RowOf(arm, pair, query), NodesAt(arm, pair))
<1>1. pair \in Read(arm, db) /\ SelfJoinGuard(query, TripleAt(arm, pair))
  BY DEF Selected, Read
<1>2. ASSUME NEW v \in Names(query)
      PROVE  TrueOf(RowOf(arm, pair, query)[v], NodesAt(arm, pair)[First(query, v)])
  <2>1. First(query, v) \in Positions
    BY FirstPosition
  <2>2. RowOf(arm, pair, query)[v] = ShownAt(arm, pair, First(query, v))
    BY <1>1, RowShows DEF RowOf
  <2> QED
    BY <1>1, <2>1, <2>2, CellsAreTrue
<1> QED
  BY <1>2 DEF RowTells, First

LEMMA EvaluatedRows ==
  ASSUME NEW someArms, NEW pattern, NEW d, NEW row
  PROVE  row \in Evaluated(someArms, pattern, d) <=>
           \E arm \in someArms : \E pair \in Selected(arm, pattern, d) : row = RowOf(arm, pair, pattern)
BY DEF Evaluated, RowOf

(* Every row tells of a triple that is written, and every triple that      *)
(* matches is told of.                                                     *)
LEMMA PatternTagsAreTrue ==
  ASSUME TablesAnswer, CatalogIsShown, IsDatabase(db), Translatable(mapping), JoinsByText(mapping),
         Declared(mapping), IsPattern(query), query # AllTerms, answers = Evaluated(PatternArms(mapping, query), query, db)
  PROVE  TagsAreTrue
<1>1. \A arm : arm \in PatternArms(mapping, query) <=>
        arm \in AllArms(mapping) /\ \A pos \in Positions : Keeps(arm[pos], query[pos])
  BY DEF PatternArms, AllArms
<1>2. ASSUME NEW row \in answers PROVE \E t \in Matching : RowTells(row, t)
  <2>a. PICK arm \in PatternArms(mapping, query) : \E pair \in Selected(arm, query, db) : row = RowOf(arm, pair, query)
    BY EvaluatedRows
  <2>1. PICK pair \in Selected(arm, query, db) : row = RowOf(arm, pair, query)
    BY <2>a
  <2>2. arm \in AllArms(mapping) /\ pair \in Read(arm, db) /\ \A pos \in Positions : Keeps(arm[pos], query[pos])
    BY <1>1, <2>1, SelectedIsRead
  <2>j. Joined(arm, db) = Paired(arm, db)
    BY <2>2, JoinsAgree
  <2>3. NodesAt(arm, pair) \in Triples
    BY <2>2, TriplesAreRead
  <2>4. Matches(query, Texts(NodesAt(arm, pair)))
    BY <2>1, <2>2, <2>j, SelectedMatches, TextsAt
  <2>5. RowTells(row, NodesAt(arm, pair))
    BY <2>1, <2>2, RowIsTrue, ArmsDeclare
  <2> QED
    BY <2>3, <2>4, <2>5 DEF Matching
<1>3. ASSUME NEW t \in Matching PROVE \E row \in answers : RowTells(row, t)
  <2>a. PICK arm \in AllArms(mapping) : \E pair \in Read(arm, db) : t = NodesAt(arm, pair)
    BY TriplesAreRead DEF Matching
  <2>1. PICK pair \in Read(arm, db) : t = NodesAt(arm, pair)
    BY <2>a
  <2>2. Matches(query, TripleAt(arm, pair))
    BY <2>1, TextsAt DEF Matching
  <2>3. (\A pos \in Positions : Keeps(arm[pos], query[pos])) /\ pair \in Selected(arm, query, db)
    BY <2>1, <2>2, JoinsAgree, SelectedMatches
  <2>4. RowOf(arm, pair, query) \in answers
    BY <1>1, <2>3, EvaluatedRows
  <2>5. RowTells(RowOf(arm, pair, query), t)
    BY <2>1, <2>3, RowIsTrue, ArmsDeclare
  <2> QED
    BY <2>4, <2>5
<1> QED
  BY <1>2, <1>3 DEF TagsAreTrue

(* Every subject and every object that is written has a cell that tells    *)
(* the truth about it.                                                     *)
LEMMA TermTagsAreTrue ==
  ASSUME TablesAnswer, CatalogIsShown, IsDatabase(db), Translatable(mapping), ParentsAreNodes(mapping), Declared(mapping),
         query = AllTerms, answers = EvaluatedTerms(TermArms(mapping), db)
  PROVE  TagsAreTrue
<1> SUFFICES ASSUME NEW t \in Triples, NEW pos \in {"s", "o"} PROVE \E cell \in answers : TrueOf(cell, t[pos])
  BY DEF TagsAreTrue
<1>a. PICK arm \in AllArms(mapping) : \E pair \in Read(arm, db) : t = NodesAt(arm, pair)
  BY TriplesAreRead
<1>1. PICK pair \in Read(arm, db) : t = NodesAt(arm, pair)
  BY <1>a
<1>2. TrueOf(ShownAt(arm, pair, pos), t[pos])
  BY <1>1, ArmsDeclare, CellsAreTrue DEF Positions
<1>3. ShownAt(arm, pair, pos) \in answers
  BY <1>1, CellsAreAnswered
<1> QED
  BY <1>2, <1>3

-----------------------------------------------------------------------------
(* The annotation of a column covers the tags of all its rows.             *)
LEMMA PositionsAreFinite == ASSUME NEW P \in SUBSET Positions PROVE IsFiniteSet(P)
<1>1. Positions = ({"s"} \cup {"p"}) \cup {"o"}
  BY DEF Positions
<1>2. IsFiniteSet(Positions)
  BY <1>1, FS_Singleton, FS_Union
<1> QED
  BY <1>2, FS_Subset

LEMMA MetByPositions ==
  ASSUME CatalogIsShown, NEW pattern, IsPattern(pattern), NEW arm, Announced(arm), NEW v \in Names(pattern)
  PROVE  /\ ArmAnnotation(arm, pattern, v) \in Annotations
         /\ \A tag \in TagSet : Covers(AnnotationAt(arm, First(pattern, v)), tag) => Covers(ArmAnnotation(arm, pattern, v), tag)
<1> DEFINE f == [pos \in PositionsOf(pattern, v) |-> AnnotationAt(arm, pos)]
           S == { f[pos] : pos \in DOMAIN f }
<1>1. DOMAIN f \in SUBSET Positions /\ \A pos \in DOMAIN f : f[pos] \in Annotations
  BY AnnotationTells DEF PositionsOf, Tells
<1>2. First(pattern, v) \in DOMAIN f /\ f[First(pattern, v)] = AnnotationAt(arm, First(pattern, v))
  BY FirstPosition DEF PositionsOf
<1>3. ArmAnnotation(arm, pattern, v) = MeetColumns(S)
  BY DEF ArmAnnotation
<1> HIDE DEF f
<1>4. S \in SUBSET Annotations /\ IsFiniteSet(S) /\ f[First(pattern, v)] \in S
  BY <1>1, <1>2, PositionsAreFinite, ValuesAreFinite
<1> HIDE DEF S
<1> QED
  BY <1>2, <1>3, <1>4, MeetColumnsCovers

LEMMA MetByArms ==
  ASSUME CatalogIsShown, NEW pattern, IsPattern(pattern), NEW someArms, IsFiniteSet(someArms),
         \A arm \in someArms : Announced(arm), NEW arm \in someArms, NEW v \in Names(pattern), NEW tag \in TagSet,
         Covers(AnnotationAt(arm, First(pattern, v)), tag)
  PROVE  Covers(PatternAnnotation(someArms, pattern, v), tag)
<1> DEFINE f == [x \in someArms |-> ArmAnnotation(x, pattern, v)]
           S == { f[x] : x \in DOMAIN f }
<1>1. DOMAIN f = someArms /\ f[arm] = ArmAnnotation(arm, pattern, v)
  OBVIOUS
<1>2. \A x \in DOMAIN f : f[x] \in Annotations
  BY MetByPositions
<1>3. PatternAnnotation(someArms, pattern, v) = MeetColumns(S)
  BY DEF PatternAnnotation
<1> HIDE DEF f
<1>4. S \in SUBSET Annotations /\ IsFiniteSet(S) /\ f[arm] \in S
  BY <1>1, <1>2, ValuesAreFinite
<1> HIDE DEF S
<1>5. Covers(f[arm], tag)
  BY <1>1, MetByPositions
<1> QED
  BY <1>3, <1>4, <1>5, MeetColumnsCovers

LEMMA PatternColumnsAreTrue ==
  ASSUME TablesAnswer, CatalogIsShown, IsDatabase(db), Translatable(mapping), JoinsByText(mapping),
         Declared(mapping), IsPattern(query), query # AllTerms, arms = PatternArms(mapping, query), answers = Evaluated(arms, query, db)
  PROVE  AnnotationsAreTrue
<1> SUFFICES ASSUME NEW v \in Names(query), NEW row \in answers PROVE Covers(PatternAnnotation(arms, query, v), row[v].tag)
  BY DEF AnnotationsAreTrue, Columns, Cells, Column
<1>a. PICK arm \in arms : \E pair \in Selected(arm, query, db) : row = RowOf(arm, pair, query)
  BY EvaluatedRows
<1>1. PICK pair \in Selected(arm, query, db) : row = RowOf(arm, pair, query)
  BY <1>a
<1>2. arms \subseteq AllArms(mapping) /\ IsFiniteSet(arms)
  BY ArmsAreFinite DEF PatternArms, AllArms
<1>3. \A x \in arms : Announced(x)
  BY <1>2, ArmsDeclare
<1>4. pair \in Read(arm, db) /\ SelfJoinGuard(query, TripleAt(arm, pair)) /\ First(query, v) \in Positions
  BY <1>2, FirstPosition, SelectedIsRead DEF Selected
<1>5. row[v] = ShownAt(arm, pair, First(query, v))
  BY <1>1, <1>4, RowShows DEF RowOf
<1>6. row[v].tag = EncodeTag(AnnotationAt(arm, First(query, v)))
  BY <1>5 DEF ShownAt, Cell
<1>7. row[v].tag \in TagSet /\ Covers(AnnotationAt(arm, First(query, v)), row[v].tag)
  BY <1>3, <1>4, <1>6, CellsAreTrue
<1> QED
  BY <1>2, <1>3, <1>7, MetByArms

(* The same for the terms of the graph.                                    *)
LEMMA TermArmsTell ==
  ASSUME CatalogIsShown, NEW mp, Translatable(mp), Declared(mp), NEW arm \in TermArms(mp)
  PROVE  Tells(Annotate(arm.term, arm.table))
<1>a. PICK m \in { k \in DOMAIN mp : HasTerms(mp[k]) /\ (mp[k].classes # << >> \/ mp[k].poms # << >>) } :
        arm \in MapTermArms(mp[m])
  BY DEF TermArms
<1>1. m \in DOMAIN mp /\ HasTerms(mp[m])
  OBVIOUS
<1>2. CASE \E i \in DOMAIN mp[m].classes : arm = [table |-> NoTable, term |-> ConstantMap(mp[m].classes[i])]
  BY <1>2, ConstantMapDeclares, ObjectTells DEF Kinds
<1>3. CASE arm = [table |-> mp[m].table, term |-> mp[m].subject]
  BY <1>1, <1>3, SubjectsDeclare, ResourceDescribed DEF Resource
<1>4. CASE \E i \in DOMAIN mp[m].poms : \E x \in RegularObjects(mp[m].poms[i]) : arm = [table |-> mp[m].table, term |-> x]
  <2>a. PICK i \in DOMAIN mp[m].poms : \E x \in RegularObjects(mp[m].poms[i]) : arm = [table |-> mp[m].table, term |-> x]
    BY <1>4
  <2>1. PICK x \in RegularObjects(mp[m].poms[i]) : arm = [table |-> mp[m].table, term |-> x]
    BY <2>a
  <2>2. PICK j \in DOMAIN mp[m].poms[i].objs : ~mp[m].poms[i].objs[j].rom /\ x = mp[m].poms[i].objs[j].map
    BY <2>1 DEF RegularObjects
  <2>3. PomSpeaks(mp, mp[m].poms[i]) /\ PomDeclares(mp[m].poms[i])
    BY <1>1 DEF Translatable, Declared
  <2>4. x.type \in Kinds /\ DeclaresObject(x)
    BY <2>2, <2>3 DEF PomSpeaks, PomDeclares, ObjectSpeaks, Speaks, Kinds
  <2> QED
    BY <2>1, <2>4, ObjectTells
<1> QED
  BY <1>a, <1>2, <1>3, <1>4 DEF MapTermArms

LEMMA TermColumnIsTrue ==
  ASSUME CatalogIsShown, Translatable(mapping), Declared(mapping),
         query = AllTerms, arms = TermArms(mapping), answers = EvaluatedTerms(arms, db)
  PROVE  AnnotationsAreTrue
<1> SUFFICES ASSUME NEW cell \in answers PROVE Covers(TermsAnnotation(arms), cell.tag)
  BY DEF AnnotationsAreTrue, Columns, Cells, Column
<1> DEFINE f == [x \in arms |-> Annotate(x.term, x.table)]
           S == { f[x] : x \in DOMAIN f }
<1>1. PICK arm \in arms : \E lex : cell = Cell(lex, EncodeTag(Annotate(arm.term, arm.table)))
  BY DEF EvaluatedTerms
<1>2. DOMAIN f = arms /\ f[arm] = Annotate(arm.term, arm.table) /\ TermsAnnotation(arms) = MeetColumns(S)
  BY DEF TermsAnnotation
<1>3. \A x \in DOMAIN f : Tells(f[x])
  BY TermArmsTell
<1> HIDE DEF f
<1>4. S \in SUBSET Annotations /\ IsFiniteSet(S) /\ f[arm] \in S
  BY <1>2, <1>3, ArmsAreFinite, ValuesAreFinite DEF Tells
<1> HIDE DEF S
<1>5. cell.tag = EncodeTag(f[arm])
  BY <1>1, <1>2 DEF Cell
<1>6. EncodeTag(f[arm]) \in TagSet /\ Covers(f[arm], EncodeTag(f[arm]))
  BY <1>2, <1>3, RoundTrip, OwnTag DEF Tells
<1> QED
  BY <1>2, <1>4, <1>5, <1>6, MeetColumnsCovers

-----------------------------------------------------------------------------
(* The answers are those of the arms made once, over the tables as they    *)
(* are now.                                                                *)
Arms(mp, q) == IF q = AllTerms THEN TermArms(mp) ELSE PatternArms(mp, q)

Answers(mp, q, d) == IF q = AllTerms THEN EvaluatedTerms(Arms(mp, q), d) ELSE Evaluated(Arms(mp, q), q, d)

IInv ==
  /\ mapping \in Mappings
  /\ query \in Patterns \cup {AllTerms}
  /\ IsDatabase(db)
  /\ phase # "query" => arms = Arms(mapping, query)
  /\ phase = "answered" => answers = Answers(mapping, query, db)

LEMMA InitIInv == Init => IInv
<1> SUFFICES ASSUME Init PROVE IInv
  OBVIOUS
<1>1. IsDatabase(db)
  BY DEF Init, IsDatabase
<1> QED
  BY <1>1 DEF Init, IInv

LEMMA StepIInv == ASSUME IInv, [Next]_vars PROVE IInv'
<1>1. CASE Translate
  BY <1>1 DEF Translate, IInv, IsDatabase, Arms
<1>2. CASE Insert
  <2>1. PICK t \in DOMAIN TableRows : \E row \in TableRows[t] : db' = [db EXCEPT ![t] = Append(@, row)]
    BY <1>2 DEF Insert
  <2>2. PICK row \in TableRows[t] : db' = [db EXCEPT ![t] = Append(@, row)]
    BY <2>1
  <2>3. IsDatabase(db')
    BY <2>2 DEF IInv, IsDatabase
  <2> QED
    BY <1>2, <2>3 DEF Insert, IInv, Arms
<1>3. CASE Execute
  <2>1. answers' = Answers(mapping, query, db) /\ UNCHANGED << mapping, db, query, arms >> /\ phase = "sql"
    BY <1>3 DEF Execute, IInv, Arms, Answers
  <2> QED
    BY <2>1 DEF IInv, IsDatabase, Arms, Answers, Evaluated, EvaluatedTerms
<1>4. CASE Clear
  <2>1. PICK t \in DOMAIN TableRows : db' = [db EXCEPT ![t] = << >>]
    BY <1>4 DEF Clear
  <2>2. IsDatabase(db')
    BY <2>1 DEF IInv, IsDatabase
  <2> QED
    BY <1>4, <2>2 DEF Clear, IInv, Arms
<1>5. CASE Refuse
  BY <1>5 DEF Refuse, IInv, IsDatabase, Arms
<1>6. CASE UNCHANGED vars
  BY <1>6 DEF vars, IInv, IsDatabase, Arms, Answers
<1> QED
  BY <1>1, <1>2, <1>3, <1>4, <1>5, <1>6 DEF Next

LEMMA Stable == Spec => []IInv
BY InitIInv, StepIInv, PTL DEF Spec

(* The SQL of a triple pattern, if it answers over whatever the tables     *)
(* hold, has the solutions that the pattern has in the graph which the     *)
(* conversion of the same tables writes: no arm is dropped that could      *)
(* match, none is kept whose conditions let in too much, and each row is   *)
(* joined to the parents that the conversion finds.  For all mappings that *)
(* the program accepts and that have no term map without a value and no    *)
(* reference without a join condition, where the columns of join           *)
(* conditions hold values that are equal in SQL exactly if their texts are;*)
(* MCTriplePatternOpen shows that it fails without that.                   *)
THEOREM AnswersAreOfTheGraph ==
  ASSUME TablesAnswer,
         \A mp \in Mappings : Translatable(mp) /\ JoinsByText(mp),
         \A pattern \in Patterns : IsPattern(pattern)
  PROVE  Spec => []AnswersMatchGraph
<1>1. IInv => AnswersMatchGraph
  <2> SUFFICES ASSUME IInv, phase = "answered", query # AllTerms
               PROVE  { TextsOf(row) : row \in answers } =
                        { Solution(query, t) : t \in { u \in Graph : Matches(query, u) } }
    BY DEF AnswersMatchGraph
  <2>1. answers = Evaluated(PatternArms(mapping, query), query, db)
    BY DEF IInv, Answers, Arms
  <2>2. IsDatabase(db) /\ Translatable(mapping) /\ JoinsByText(mapping) /\ IsPattern(query)
    BY DEF IInv
  <2> QED
    BY <2>1, <2>2, RowsAreSolutions
<1> QED
  BY <1>1, Stable, PTL

(* The terms that a path of length zero ranges over are, whatever the      *)
(* tables hold, every subject and object of the graph which the conversion *)
(* writes: nothing is lost by leaving the objects of a referencing object  *)
(* map to the parent.  For the mappings above whose parents make triples   *)
(* of their own.                                                           *)
THEOREM TermsAreOfTheGraph ==
  ASSUME TablesAnswer,
         \A mp \in Mappings : Translatable(mp) /\ ParentsAreNodes(mp)
  PROVE  Spec => []TermsCoverGraph
<1>1. IInv => TermsCoverGraph
  <2> SUFFICES ASSUME IInv, phase = "answered", query = AllTerms, NEW t \in Graph
               PROVE  {t.s, t.o} \subseteq { cell.lex : cell \in answers }
    BY DEF TermsCoverGraph
  <2>1. answers = EvaluatedTerms(TermArms(mapping), db)
    BY DEF IInv, Answers, Arms
  <2>2. IsDatabase(db) /\ Translatable(mapping) /\ ParentsAreNodes(mapping)
    BY DEF IInv
  <2> QED
    BY <2>1, <2>2, TriplesAreAnswered
<1> QED
  BY <1>1, Stable, PTL

(* Whatever the tables hold, the tag beside a text is true of the term     *)
(* that the conversion writes (its kind, its language, its datatype), every*)
(* term written is told of so, and what the translator settles from the    *)
(* annotation of a column, met from all arms and all positions of a        *)
(* variable, is what the tag of every row says.  For the mappings above,   *)
(* with join conditions on values that are equal in SQL exactly if their   *)
(* texts are, whose declarations can be said in a tag, and a catalog that  *)
(* agrees with the connection on natural datatypes.                        *)
THEOREM TermsAreAnnotated ==
  ASSUME TablesAnswer, CatalogIsShown,
         \A mp \in Mappings : Translatable(mp) /\ ParentsAreNodes(mp) /\ JoinsByText(mp) /\ Declared(mp),
         \A pattern \in Patterns : IsPattern(pattern)
  PROVE  Spec => []TermsAsAnnotated
<1>1. IInv => TermsAsAnnotated
  <2> SUFFICES ASSUME IInv, phase = "answered" PROVE TagsAreTrue /\ AnnotationsAreTrue
    BY DEF TermsAsAnnotated
  <2>1. arms = Arms(mapping, query) /\ answers = Answers(mapping, query, db)
    BY DEF IInv
  <2>2. IsDatabase(db) /\ Translatable(mapping) /\ ParentsAreNodes(mapping) /\ JoinsByText(mapping) /\ Declared(mapping)
    BY DEF IInv
  <2>3. CASE query = AllTerms
    BY <2>1, <2>2, <2>3, TermTagsAreTrue, TermColumnIsTrue DEF Arms, Answers
  <2>4. CASE query # AllTerms
    <3>1. IsPattern(query)
      BY <2>4 DEF IInv
    <3> QED
      BY <2>1, <2>2, <2>4, <3>1, PatternTagsAreTrue, PatternColumnsAreTrue DEF Arms, Answers
  <2> QED
    BY <2>3, <2>4
<1> QED
  BY <1>1, Stable, PTL
=============================================================================
