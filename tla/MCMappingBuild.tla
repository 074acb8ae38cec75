---------------------------- MODULE MCMappingBuild ----------------------------
(***************************************************************************)
(* Documents of about ten statements, read in every order and with a       *)
(* statement lost anywhere.                                                *)
(***************************************************************************)
EXTENDS MappingBuild

Uri(text)   == [is |-> "uri", text |-> text]
Blank(text) == [is |-> "blank", text |-> text]
Lit(text)   == [is |-> "literal", text |-> text]

Says(s, p, o) == [s |-> s, p |-> p, o |-> o]

(* A reference to a triples map that comes later, beside a constant object;*)
(* the two maps share a named logical table.                               *)
Forward ==
  { Says("ex:Emp", "logicalTable", Uri("ex:Table")),
    Says("ex:Table", "tableName", Lit("EMP")),
    Says("ex:Emp", "subjectMap", Blank("s")),
    Says("s", "template", Lit(<< "emp/", << "ID" >> >>)),
    Says("ex:Emp", "predicateObjectMap", Blank("p")),
    Says("p", "predicate", Uri("ex:boss")),
    Says("p", "object", Uri("ex:Nobody")),
    Says("p", "objectMap", Blank("o")),
    Says("o", "parentTriplesMap", Uri("ex:Person")),
    Says("o", "joinCondition", Blank("j")),
    Says("j", "child", Lit("REF")),
    Says("j", "parent", Lit("ID")),
    Says("ex:Person", "logicalTable", Uri("ex:Table")) }

(* Term types, tags and several values of one property.                    *)
Typed ==
  { Says("ex:Emp", "subjectMap", Blank("s")),
    Says("s", "column", Lit("ID")),
    Says("s", "termType", Uri("literal")),
    Says("s", "class", Uri("ex:A")),
    Says("s", "class", Uri("ex:B")),
    Says("s", "graph", Uri("ex:g")),
    Says("ex:Emp", "predicateObjectMap", Blank("p")),
    Says("p", "predicateMap", Blank("q")),
    Says("q", "template", Lit(<< "pred/", << "REF" >> >>)),
    Says("p", "objectMap", Blank("o")),
    Says("o", "column", Lit("REF")),
    Says("o", "termType", Uri("iri")) }

Tags ==
  { Says("ex:Emp", "predicateObjectMap", Blank("p")),
    Says("ex:Emp", "predicateObjectMap", Blank("r")),
    Says("p", "objectMap", Blank("o")),
    Says("o", "column", Lit("REF")),
    Says("o", "language", Lit("en")),
    Says("r", "objectMap", Blank("n")),
    Says("n", "template", Lit(<< "no. ", << "ID" >> >>)),
    Says("n", "termType", Uri("literal")),
    Says("n", "datatype", Uri("xsd:token")),
    Says("r", "objectMap", Blank("c")),
    Says("c", "constant", Lit("active")),
    Says("ex:Emp", "subject", Uri("ex:me")) }

(* Faults of every kind, beside parts that are right.                      *)
Faulty ==
  { Says("ex:Emp", "logicalTable", Blank("t")),
    Says("t", "notATable", Lit("EMP")),
    Says("ex:Emp", "subjectMap", Blank("s")),
    Says("s", "graphMap", Blank("g")),
    Says("g", "notAMap", Lit("x")),
    Says("ex:Emp", "predicateObjectMap", Blank("p")),
    Says("p", "objectMap", Blank("o")),
    Says("o", "notAMap", Lit("x")),
    Says("p", "objectMap", Blank("o2")),
    Says("o2", "parentTriplesMap", Uri("ex:Ghost")),
    Says("ex:Person", "logicalTable", Blank("v")),
    Says("v", "sqlQuery", Lit("SELECT 1")) }

MCDocuments == {Forward, Typed, Tags, Faulty}

ASSUME SamplesAssumption == \A d \in MCDocuments : Proper(d)

MCNames     == << "ex:Emp", "ex:Person", "ex:Table" >>
=============================================================================
