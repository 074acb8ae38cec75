--------------------------- MODULE MCTriplePattern ---------------------------
(***************************************************************************)
(* Patterns over the sample mappings, while the tables fill.               *)
(***************************************************************************)
EXTENDS TriplePattern, SampleMappings

(* A predicate taken from a column, so that an IRI to exclude is possible, *)
(* impossible or certain, a class beside it, and a link of a table to      *)
(* itself.                                                                 *)
Links ==
  << MapOf("EMP", EmpSubject, << "ex:Employee" >>, << >>,
       << PomOf(<< Template("pred/", << "REF" >>), Iri("ex:next") >>,
                << Referencing(1, RefIsId) >>, << >>),
          PomOf(<< Template("pred/", << "REF" >>) >>,
                << Regular(Template("emp/", << "REF" >>)) >>, << >>) >>),
     MapOf("DEPT", TermMap("column", "iri", "", << "ID" >>), << >>, << >>,
       << PomOf(<< Iri("ex:next") >>, << Regular(Literal("REF")), Regular(Iri("ex:Employee")) >>, << >>) >>) >>

(* One predicate with objects of every kind: tagged in two languages, the  *)
(* second of which also has a datatype, typed by the mapping, typed by the *)
(* catalog, untyped, and an IRI, a literal and a blank node of one text.   *)
InLanguage(tm, lang) == [tm EXCEPT !.lang = lang]
OfType(tm, dt)       == [tm EXCEPT !.dt = dt]

Terms ==
  << MapOf("EMP", EmpSubject, << "ex:Employee" >>, << >>,
       << PomOf(<< Iri("ex:name") >>,
                << Regular(InLanguage(Literal("REF"), "en")),
                   Regular(InLanguage(OfType(Literal("REF"), "xsd:date"), "fr")) >>, << >>),
          PomOf(<< Iri("ex:next") >>,
                << Regular(Template("emp/", << "REF" >>)),
                   Regular(TermMap("template", "literal", "emp/", << "REF" >>)),
                   Regular(TermMap("template", "blank", "emp/", << "ID" >>)) >>, << >>) >>),
     MapOf("DEPT", TermMap("template", "blank", "dept/", << "ID" >>), << >>, << >>,
       << PomOf(<< Iri("ex:dept") >>, << Regular(Literal("ID")), Regular(Literal("REF")) >>, << >>),
          PomOf(<< Template("pred/", << "ID" >>) >>,
                << Regular(OfType(Literal("ID"), "xsd:date")), Referencing(1, RefIsId) >>, << >>) >>) >>

MCMappings == {EmpDept, Links, Terms}

(* Numbers in a column that the catalog knows, and texts in the others.    *)
TwoInt == [lex |-> "2", nat |-> "xsd:integer"]

MCNatural == [c \in {<< "DEPT", "ID" >>} |-> "xsd:integer"]

MCTableRows ==
  [EMP |-> { Row2(Two, Two), Row2(One, Two), Row2(Two, NULL), Row2(NULL, One) },
   DEPT |-> { Row2(TwoInt, Two), Row2(NULL, Two), Row2(OneInt, NULL) }]

(* A text is converted to be compared with a number: '01' = 1.             *)
NumberOf == [text \in {"1", "2", "01"} |-> IF text = "2" THEN 2 ELSE 1]

IsText(a) == a.nat = NoTag

MCSqlEqual(a, b) ==
  IF IsText(a) /\ IsText(b) THEN a.lex = b.lex ELSE NumberOf[a.lex] = NumberOf[b.lex]

MCUnlike == { << << "EMP", "REF" >>, << "DEPT", "ID" >> >> }

(* For the open configuration: a text that is not the text of its number.  *)
ZeroOne == [lex |-> "01", nat |-> NoTag]

OpenTableRows == [MCTableRows EXCEPT !.EMP = @ \cup {Row2(Two, ZeroOne)}]

(* Nothing is left to the exceptions that TriplePatternProofs names, but   *)
(* the join of that text.                                                  *)
ASSUME SamplesAssumption ==
  /\ \A mp \in Mappings : Translatable(mp) /\ ParentsAreNodes(mp) /\ Declared(mp)
  /\ TableRows = MCTableRows => \A mp \in Mappings : JoinsByText(mp)
  /\ CatalogIsShown
  /\ \A pattern \in Patterns : IsPattern(pattern)

Lex(text)      == << text, << >> >>
Filled(text, v) == << text, << v >> >>

Subjects == { Variable("x"), Term(Filled("emp/", "2")) }
Predicates ==
  { Variable("x"), Variable("p"), Term(Lex("ex:next")), Term(Lex("ex:name")),
    Term(Lex("ex:dept")),
    NotIn({Lex(RdfType), Filled("pred/", "1")}), NotIn({Lex("ex:next"), Lex("ex:name")}) }
Objects ==
  { Variable("x"), Variable("y"), Term(Filled("emp/", "1")), Term(Filled("", "2")),
    Term(Lex("ex:Employee")) }

MCPatterns == [s : Subjects, p : Predicates, o : Objects]
=============================================================================
