--------------------------- MODULE SampleMappings ---------------------------
(***************************************************************************)
(* Mappings and rows from which the instances of the modules about R2RML   *)
(* are made.                                                               *)
(***************************************************************************)
EXTENDS R2RMLModel

(* String forms "1" and "2"; "1" also as a SQL integer, so that two values *)
(* with one string form have different natural datatypes.                  *)
One    == [lex |-> "1", nat |-> NoTag]
OneInt == [lex |-> "1", nat |-> "xsd:integer"]
Two    == [lex |-> "2", nat |-> NoTag]

Row2(id, ref) == [ID |-> id, REF |-> ref]

TermMap(kind, type, text, cols) ==
  [kind |-> kind, type |-> type, text |-> text, cols |-> cols, lang |-> NoTag, dt |-> NoTag]

Iri(text)             == TermMap("constant", "iri", text, << >>)
Template(text, cols)  == TermMap("template", "iri", text, cols)
Literal(col)          == TermMap("column", "literal", "", << col >>)
Absent                == TermMap("absent", "iri", "", << >>)
NoStrategy            == TermMap("none", "iri", "", << >>)

Regular(tm)           == [rom |-> FALSE, map |-> tm]
Referencing(p, joins) == [rom |-> TRUE, parent |-> p, joins |-> joins]

PomOf(preds, objs, graphs) == [preds |-> preds, objs |-> objs, graphs |-> graphs]
MapOf(table, subject, classes, graphs, poms) ==
  [table |-> table, subject |-> subject, classes |-> classes, graphs |-> graphs, poms |-> poms]

RefIsId == << << "REF", "ID" >> >>

EmpSubject  == Template("emp/", << "ID" >>)
DeptSubject == Template("dept/", << "ID" >>)

(* Two tables joined, as tests/sourceR2RML/example_emp_dept.ttl.           *)
EmpDept ==
  << MapOf("EMP", EmpSubject, << "ex:Employee" >>, << >>,
       << PomOf(<< Iri("ex:name") >>, << Regular(Literal("REF")) >>, << >>),
          PomOf(<< Iri("ex:dept") >>, << Referencing(2, RefIsId), Regular(Literal("ID")) >>, << >>) >>),
     MapOf("DEPT", DeptSubject, << >>, << >>,
       << PomOf(<< Iri("ex:id") >>, << Regular(Literal("ID")) >>, << >>) >>) >>

(* Graph maps on subject and predicate-object maps, some null, some the    *)
(* default graph; a predicate that is null for some rows; two predicates   *)
(* with two objects.                                                       *)
Graphs ==
  << MapOf("EMP", EmpSubject, << "ex:Employee" >>,
       << Template("graph/", << "REF" >>), Iri(DefaultGraph) >>,
       << PomOf(<< Template("pred/", << "REF" >>), Iri("ex:p") >>,
                << Regular(Literal("REF")), Regular(Literal("ID")) >>,
                << Iri("ex:g") >>),
          PomOf(<< Iri("ex:r") >>, << Regular([Literal("ID") EXCEPT !.lang = "en"]) >>,
                << Template("graph/", << "REF" >>) >>) >>) >>

(* An invalid triples map between valid ones, a referencing object map     *)
(* whose parent has no logical table, a subject map without a strategy,    *)
(* and a join without conditions on a parent with a column subject.        *)
Partial ==
  << MapOf(NoTable, DeptSubject, << "ex:T" >>, << >>, << >>),
     MapOf("EMP", NoStrategy, << "ex:T" >>, << >>, << >>),
     MapOf("EMP", EmpSubject, << >>, << >>,
       << PomOf(<< Iri("ex:a") >>, << Referencing(1, << >>), Referencing(4, << >>) >>, << >>),
          PomOf(<< Iri("ex:b") >>, << Referencing(5, RefIsId), Regular(Literal("ID")) >>, << >>) >>),
     MapOf("DEPT", TermMap("column", "iri", "", << "ID" >>), << "ex:T" >>, << Iri("ex:g") >>, << >>),
     MapOf("DEPT", Absent, << "ex:T" >>, << >>, << >>) >>

(* A triples map that joins with itself on a constant subject: no buffer.  *)
SelfConstant ==
  << MapOf("EMP", Iri("ex:all"), << >>, << >>,
       << PomOf(<< Iri("ex:next") >>, << Referencing(1, RefIsId), Regular(Literal("ID")) >>, << >>) >>) >>

(* tests/sourceR2RML/sparql2sql_path_cycle.ttl: the nodes of a graph, each *)
(* linked to the next one of the same table.                               *)
Cycle ==
  << MapOf("EMP", EmpSubject, << >>, << >>,
       << PomOf(<< Iri("ex:next") >>, << Referencing(1, RefIsId) >>, << >>) >>) >>
=============================================================================
