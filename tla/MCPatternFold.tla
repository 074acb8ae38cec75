---------------------------- MODULE MCPatternFold ----------------------------
(***************************************************************************)
(* Two mappings and queries for each.  Under the first every term is the   *)
(* value of a column; its queries put each element of a group after,       *)
(* inside and before the others.  Under the second, terms come from        *)
(* templates, parents and constant columns and a predicate may have        *)
(* several candidates; its queries give each pass of the optimizer         *)
(* something to do and something to leave alone.                           *)
(***************************************************************************)
EXTENDS PatternFold

T(s, p, o)      == [el |-> "triple", s |-> s, p |-> p, o |-> o]
Of(s, p, term)  == [el |-> "object", s |-> s, p |-> p, term |-> term]
Group(g)        == [el |-> "group", pattern |-> g]
Optional(g)     == [el |-> "optional", pattern |-> g]
Union(branches) == [el |-> "union", branches |-> branches]
Minus(g)        == [el |-> "minus", pattern |-> g]
Where(e)        == [el |-> "filter", constraint |-> e]
BindAs(e, v)    == [el |-> "bind", expr |-> e, var |-> v]
ValuesOf(names, rows) == [el |-> "values", names |-> names, rows |-> rows]
Select(names, distinct, g) ==
  [el |-> "select", star |-> FALSE, names |-> names, distinct |-> distinct, pattern |-> g]
SelectStar(g)   == [el |-> "select", star |-> TRUE, names |-> {}, distinct |-> FALSE, pattern |-> g]

IsBound(v)  == [op |-> "bound", var |-> v]
Alike(v, w) == [op |-> "equal", left |-> v, right |-> w]
Isnt(e)     == [op |-> "not", arg |-> e]
Either(e, f) == [op |-> "or", arg |-> e, other |-> f]
Both(e, f)  == [op |-> "and", arg |-> e, other |-> f]
Is(v, value) == [op |-> "is", var |-> v, value |-> value]
Exists(g)   == [op |-> "exists", pattern |-> g]
Copy(v)     == [op |-> "var", var |-> v]
Cast(v)     == [op |-> "cast", var |-> v]

FromColumn(column)            == [op |-> "column", column |-> column]
FromTemplate(prefix, columns) == [op |-> "template", prefix |-> prefix, columns |-> columns]
Makes(table, subject, object, kind) ==
  [table |-> table, subject |-> subject, object |-> object, kind |-> kind, parent |-> NULL]

-----------------------------------------------------------------------------
(* Terms from columns: p is the table P, q the table Q.                    *)
Plainly(table) == << Makes(table, FromColumn("s"), FromColumn("o"), "iri") >>
Pairs          == [s : {"a", "b"}, o : {"a", "b", "c"}]

P   == T("x", "p", "y")
YZ  == T("y", "q", "z")
XZ  == T("x", "q", "z")
MayYZ == Optional(<< YZ >>)

JoinQueries ==
  { << P, YZ >>, << P, T("x", "q", "x") >>, << P, MayYZ, T("z", "p", "w") >>,
    << P, MayYZ, Group(<< T("x", "p", "w"), Optional(<< T("w", "q", "z") >>) >>) >>,
    << P, MayYZ, Optional(<< XZ >>) >>, << Optional(<< P >>), XZ >>,
    << P, Optional(<< YZ, Optional(<< T("z", "p", "w") >>) >>), Optional(<< T("x", "q", "w") >>) >>,
    << P, Optional(<< YZ, Where(Alike("y", "z")) >>) >> }

Unions ==
  { << Union(<< << P >>, << XZ >> >>), YZ >>,
    << P, Union(<< << YZ >>, << XZ >>, << T("y", "q", "w") >> >>) >>,
    << Union(<< << P, MayYZ >> >>), Optional(<< T("z", "p", "w") >>) >> }

Minuses ==
  { << P, Minus(<< XZ >>) >>, << P, Minus(<< T("z", "q", "w") >>) >>,
    << P, MayYZ, Minus(<< T("x", "p", "z") >>) >>,
    << P, Minus(<< T("x", "q", "w"), Optional(<< T("w", "p", "y") >>) >>), YZ >> }

Conditions ==
  { << P, MayYZ, Where(Isnt(IsBound("z"))) >>,
    << P, MayYZ, Where(Either(Alike("x", "z"), Isnt(Alike("y", "z")))) >>,
    << P, Where(Alike("x", "y")), MayYZ >>,
    << P, Where(IsBound("u")) >>, << P, Where(Isnt(Exists(<< YZ >>))) >>,
    << P, MayYZ, Where(Exists(<< T("x", "p", "z") >>)) >> }

Cells == << [x |-> "a", y |-> NULL], [x |-> "a", y |-> "b"], [x |-> "a", y |-> "b"] >>

Computed ==
  { << P, MayYZ, BindAs(Copy("z"), "w"), Optional(<< T("w", "p", "v") >>) >>,
    << P, BindAs(Copy("y"), "z"), T("z", "q", "w") >>,
    << ValuesOf({"x", "y"}, Cells), P >>, << XZ, ValuesOf({"x", "y"}, Cells) >>,
    << YZ, Select({"y"}, TRUE, << P >>) >>, << YZ, Select({"y"}, FALSE, << P >>) >>,
    << Select({"y"}, FALSE, << P >>) >>, << SelectStar(<< P, MayYZ >>), T("z", "p", "w") >> }

ColumnQueries == JoinQueries \cup Unions \cup Minuses \cup Conditions \cup Computed
               \cup { << P, BindAs(Cast("y"), "z"), T("z", "q", "w") >>,
                      << P, Minus(<< Optional(<< YZ >>) >>) >> }

-----------------------------------------------------------------------------
(* Employees E in departments D, their sports S, a view V that gives its   *)
(* flag one value, and a table W whose terms may look like those of E.     *)
Employee   == FromTemplate("e/", << "id" >>)
Department == FromTemplate("d/", << "id" >>)
TheirDept  == FromTemplate("d/", << "dept" >>)
Name       == FromColumn("name")

MCMapping ==
  [p     |-> Plainly("P"),
   q     |-> Plainly("Q"),
   name  |-> << Makes("E", Employee, Name, "literal"), Makes("D", Department, Name, "literal") >>,
   in    |-> << Makes("E", Employee, TheirDept, "iri") >>,
   about |-> << Makes("E", Employee, Name, "literal"), Makes("E", Employee, TheirDept, "iri") >>,
   sport |-> << [Makes("E", Employee, FromTemplate("s/", << "sport" >>), "iri")
                   EXCEPT !.parent = [table |-> "S", childColumn |-> "id", parentColumn |-> "emp"]] >>,
   code  |-> << Makes("E", Employee, FromTemplate("c", << "id", "dept" >>), "iri") >>,
   flag  |-> << Makes("V", FromTemplate("v/", << "id" >>), FromColumn("flag"), "literal") >>,
   label |-> << Makes("W", FromTemplate("e", << "id" >>), Name, "literal"), Makes("D", Department, Name, "literal") >>,
   badge |-> << Makes("W", Employee, Name, "literal") >>,
   n     |-> << >>]

Works(id, name, dept) == [id |-> id, name |-> name, dept |-> dept]
Named(id, name)       == [id |-> id, name |-> name]

MCRows ==
  [P |-> Pairs, Q |-> Pairs,
   E |-> { Works("1", "x", "1"), Works("1", "x", "2"), Works("2", "y", "1"),
           Works("2", "y", NULL), Works(NULL, "x", "1"), Works("1", NULL, "1") },
   D |-> { Named("1", "x"), Named("1", NULL), Named("2", "x") },
   S |-> { [emp |-> "1", sport |-> "a"], [emp |-> "1", sport |-> "b"], [emp |-> "2", sport |-> "a"] },
   V |-> { [id |-> "1", flag |-> "1"], [id |-> "2", flag |-> "1"] },
   W |-> { Named("/1", "x"), Named("1", "x") }]

MCKeys  == { [table |-> "E", columns |-> {"id"}], [table |-> "D", columns |-> {"id"}],
             [table |-> "P", columns |-> {"s", "o"}] }
MCFixed == { [table |-> "V", column |-> "flag", value |-> "1"] }

In    == T("e", "in", "d")
NameE == T("e", "name", "n")
NameD == T("d", "name", "m")
MayIn == Optional(<< In >>)

Candidacies ==
  { << NameE, In >>, << In, NameD >>, << In, NameD, NameE >>, << In, Optional(<< NameD >>) >>,
    << MayIn, NameD >>, << Optional(<< NameE >>), T("f", "about", "n") >>,
    << In, T("e", "label", "n") >>, << T("e", "label", "n"), NameE >>,
    << T("e", "label", "n"), T("e", "badge", "b") >>, << T("e", "about", "d"), NameD >>,
    << In, T("e", "about", "n") >>, << T("e", "about", "e") >>, << T("e", "sport", "a"), NameE >>,
    << In, T("e", "in", "c") >>, << T("e", "code", "c"), In >>, << In, T("c", "in", "d") >> }

BoundObjects ==
  { << Of("e", "in", "d/1"), NameE >>, << Of("e", "code", "c11") >>, << Of("e", "about", "x"), In >>,
    << Of("e", "sport", "s/a") >>, << NameE, Of("e", "name", "x") >>,
    << Of("v", "flag", "1") >>, << Of("v", "flag", "2") >>, << T("v", "flag", "f"), Of("v", "flag", "1") >> }

NoTriples == T("e", "n", "z")

Empties ==
  { << NameE, NoTriples >>, << NameE, Optional(<< NoTriples >>) >>, << NameE, Minus(<< NoTriples >>) >>,
    << Union(<< << In >>, << Of("e", "in", "x/1") >> >>), NameE >>, << NameE, Of("e", "in", "x/1") >>,
    << Union(<< << NoTriples >>, << In >> >>), T("d", "name", "m") >>,
    << Union(<< << In >>, << T("e", "n", "e") >> >>), T("c", "in", "d") >>,
    << Union(<< << In >>, << T("e", "code", "d") >>, << T("e", "n", "e") >> >>), T("c", "in", "d") >>,
    << NameE, Where(Isnt(Exists(<< NoTriples >>))) >>, << Optional(<< NoTriples >>), In >> }

Pushed ==
  { << In, NameD, Where(Both(Is("m", "x"), Is("e", "e/1"))) >>, << NameE, Where(Is("n", "x")) >>,
    << NameE, Minus(<< In >>), Where(Is("n", "x")) >>, << NameE, MayIn, Where(Is("d", "d/1")) >>,
    << NameE, MayIn, NameD, Where(Is("d", "d/1")) >>,
    << NameE, MayIn, NameD, Where(Both(Is("m", "x"), Either(Is("n", "x"), Isnt(IsBound("d"))))) >>,
    << In, BindAs(Copy("d"), "c"), Where(Is("c", "d/1")), T("c", "name", "m") >>,
    << NameE, BindAs(Copy("n"), "m"), Where(Is("m", "x")) >>,
    << NameE, Where(Both(Exists(<< In >>), Is("n", "x"))) >>,
    << Union(<< << In >>, << NameE >> >>), Where(Is("e", "e/1")) >>,
    << Union(<< << In >>, << NameE >> >>), Where(Isnt(IsBound("d"))) >> }

Counted ==
  { << Select({"d"}, FALSE, << In >>) >>, << Select({"d"}, TRUE, << In >>) >>,
    << Select({"n"}, FALSE, << NameE >>), T("d", "name", "n") >>, << T("e", "code", "c") >>,
    << T("e", "sport", "a") >>, << Union(<< << In >>, << In >> >>) >> }

TemplateQueries == Candidacies \cup BoundObjects \cup Empties \cup Pushed \cup Counted

MCQueries == ColumnQueries \cup TemplateQueries

-----------------------------------------------------------------------------
OptionalSelected == { << Select({"x", "z"}, FALSE, << P, MayYZ >>), T("z", "p", "w") >> }

MinusOfOptional == { << P, MayYZ, Minus(<< T("z", "p", "w") >>) >> }

DroppedArm == { << Union(<< << In >>, << NoTriples >> >>), Where(Isnt(IsBound("z"))) >> }

Sports == { << T("e", "sport", "a"), T("e", "sport", "b") >>,
            << T("e", "sport", "a"), T("e", "sport", "b"), T("e", "sport", "c") >> }

OpenQueries == OptionalSelected \cup MinusOfOptional \cup DroppedArm \cup Sports
=============================================================================
