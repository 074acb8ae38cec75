----------------------------- MODULE R2RMLModel -----------------------------
(***************************************************************************)
(* The object model of an R2RML mapping (include/r2rml/*.h) and the RDF    *)
(* dataset that a mapping denotes over a database.                         *)
(*                                                                         *)
(* A SQL value is a record [lex, nat]: its string form and its natural     *)
(* datatype.  A row is a function from columns to values or NULL; a column *)
(* a row lacks reads as NULL (MapSQLRow::getValue).                        *)
(*                                                                         *)
(* A term map is a record                                                  *)
(*   [kind, type, text, cols, lang, dt]                                    *)
(* where kind is "constant", "column" or "template", text stands for the   *)
(* constant or for the literal segments of the template and cols are the   *)
(* columns substituted, in order.  A term map that has no value strategy   *)
(* has kind "none".  The lexical form of a term is the pair of the text    *)
(* and the substituted strings, so two rows give the same term exactly     *)
(* when they agree on the substituted strings.                             *)
(***************************************************************************)
EXTENDS Naturals, Sequences

CONSTANTS
  NULL,          (* the SQL NULL                                           *)
  NoTag,         (* no language tag and no datatype                        *)
  EmptyText,     (* the empty string as the text of a constant             *)
  DefaultGraph,  (* rr:defaultGraph as the text of a constant              *)
  RdfType,       (* rdf:type as the text of a constant                     *)
  NoTable,       (* a triples map that has no logical table                *)
  SqlError,      (* the outcome of a query that the database rejects       *)
  NoResult       (* the outcome of a query that yields a null result set   *)

(***************************************************************************)
(* RDF terms, the SerdNode that generateRDFTerm returns.                   *)
(***************************************************************************)
Nothing == [type |-> "nothing", lex |-> << NoTag, << >> >>, tag |-> NoTag]

ConstantIri(text) == [type |-> "iri", lex |-> << text, << >> >>, tag |-> NoTag]

(* The lexical form that a term map gives a row, once no column is NULL.   *)
Expansion(tm, row) ==
  << tm.text, [i \in DOMAIN tm.cols |-> row[tm.cols[i]].lex] >>

(* Whether a term map yields no term for a row: a NULL column, an empty    *)
(* constant (ConstantTermMap keeps the null node for it) or no strategy.   *)
YieldsNothing(tm, row) ==
  \/ tm.kind = "none"
  \/ tm.kind = "constant" /\ tm.text = EmptyText
  \/ \E i \in DOMAIN tm.cols : row[tm.cols[i]] = NULL

(* generateRDFTerm of the constant, column and template term maps.         *)
NodeOf(tm, row) ==
  IF YieldsNothing(tm, row)
    THEN Nothing
    ELSE [type |-> tm.type, lex |-> Expansion(tm, row), tag |-> NoTag]

(* computeDatatypeIRI: the static datatype first; only a column falls back *)
(* to the natural datatype of its value.                                   *)
DatatypeOf(tm, row) ==
  IF tm.dt # NoTag THEN tm.dt
  ELSE IF tm.kind = "column" THEN row[tm.cols[1]].nat
  ELSE NoTag

(* The object of a regular object map: language tag, else datatype, both   *)
(* on literals only.                                                       *)
ObjectNode(tm, row) ==
  LET node == NodeOf(tm, row)
  IN  IF node.type # "literal" THEN node
      ELSE [node EXCEPT !.tag = IF tm.lang # NoTag THEN << "@", tm.lang >>
                                ELSE << "^^", DatatypeOf(tm, row) >>]

-----------------------------------------------------------------------------
(* The graphs one triple belongs to (R2RML section 12, GraphMap.h): those  *)
(* that its subject map and its predicate-object map name, or the default  *)
(* graph when none is left.                                                *)
DefaultGraphNode == ConstantIri(DefaultGraph)

GraphsOf(graphMaps, row) ==
  LET named == { NodeOf(graphMaps[i], row) : i \in DOMAIN graphMaps }
               \ {Nothing, DefaultGraphNode}
  IN  IF named = {} THEN {DefaultGraphNode} ELSE named

-----------------------------------------------------------------------------
(***************************************************************************)
(* A triples map is a record [table, subject, classes, graphs, poms], a    *)
(* predicate-object map a record [preds, objs, graphs].  An object map is  *)
(* [rom |-> FALSE, map |-> tm] or, for a ReferencingObjectMap,             *)
(* [rom |-> TRUE, parent |-> i, joins |-> s] with i the index of the       *)
(* parent triples map, 0 when unresolved, and s a sequence of pairs of a   *)
(* child and a parent column.                                              *)
(***************************************************************************)
(* TermMap::isValid: a predicate or object map that is an empty constant   *)
(* is invalid; a subject or graph map wraps its term map and never asks it.*)
TermMapValid(tm) == tm.kind = "constant" => tm.text # EmptyText

ObjectMapValid(om) ==
  IF om.rom
    THEN /\ om.parent # 0
         /\ \A i \in DOMAIN om.joins : EmptyText \notin {om.joins[i][1], om.joins[i][2]}
    ELSE TermMapValid(om.map)

PomValid(pom) ==
  /\ pom.preds # << >>
  /\ pom.objs # << >>
  /\ \A i \in DOMAIN pom.preds : TermMapValid(pom.preds[i])
  /\ \A i \in DOMAIN pom.objs : ObjectMapValid(pom.objs[i])

(* TriplesMap::isValid.  A subject map that exists is valid; "absent" is   *)
(* the null subjectMap pointer.                                            *)
TriplesMapValid(tm) ==
  /\ tm.table # NoTable
  /\ tm.subject.kind # "absent"
  /\ \A i \in DOMAIN tm.poms : PomValid(tm.poms[i])

(* getJoinedRows compares the string forms; NULL joins with nothing.       *)
Joins(joins, child, parent) ==
  \A i \in DOMAIN joins :
    /\ child[joins[i][1]] # NULL
    /\ parent[joins[i][2]] # NULL
    /\ child[joins[i][1]].lex = parent[joins[i][2]].lex

(* The parent's subject, Nothing also when the parent has no subject map.  *)
SubjectNode(tm, row) ==
  IF tm.subject.kind = "absent" THEN Nothing ELSE NodeOf(tm.subject, row)

-----------------------------------------------------------------------------
(***************************************************************************)
(* What the parser builds: vectors of maps, and a parent that is a triples *)
(* map of the same mapping or is unresolved.                               *)
(***************************************************************************)
IsSequence(s) == s \in Seq({ s[i] : i \in DOMAIN s })

PomWellFormed(mp, pom) ==
  /\ IsSequence(pom.preds) /\ IsSequence(pom.objs) /\ IsSequence(pom.graphs)
  /\ \A o \in DOMAIN pom.objs :
       /\ pom.objs[o].rom \in BOOLEAN
       /\ pom.objs[o].rom => pom.objs[o].parent \in 0 .. Len(mp)

MapWellFormed(mp, tm) ==
  /\ IsSequence(tm.classes) /\ IsSequence(tm.graphs) /\ IsSequence(tm.poms)
  /\ \A p \in DOMAIN tm.poms : PomWellFormed(mp, tm.poms[p])

-----------------------------------------------------------------------------
(***************************************************************************)
(* The dataset that a mapping denotes: what R2RML section 11 says its      *)
(* triples maps generate, with no loop, cursor or buffer in it, and with   *)
(* join conditions on texts, as getJoinedRows has them.                    *)
(***************************************************************************)
Quads(s, p, o, graphs) == { [s |-> s, p |-> p, o |-> o, g |-> g] : g \in graphs }

ClassQuads(tm, row) ==
  UNION { Quads(SubjectNode(tm, row), ConstantIri(RdfType),
                ConstantIri(tm.classes[c]), GraphsOf(tm.graphs, row))
            : c \in DOMAIN tm.classes }

ParentRows(mapping, db, om) ==
  IF om.parent = 0 THEN << >>
  ELSE IF mapping[om.parent].table = NoTable THEN << >>
  ELSE IF db[mapping[om.parent].table] \in {SqlError, NoResult} THEN << >>
  ELSE db[mapping[om.parent].table]

(* The objects of one object map: a referencing object map has one for     *)
(* each parent row that satisfies its join conditions.                     *)
ObjectNodes(mapping, db, om, row) ==
  IF om.rom
    THEN LET parents == ParentRows(mapping, db, om)
         IN  { SubjectNode(mapping[om.parent], parents[k])
                 : k \in { i \in DOMAIN parents : Joins(om.joins, row, parents[i]) } }
    ELSE { ObjectNode(om.map, row) }

(* The quads of predicate map q and object map j of a predicate-object map.*)
PairQuads(mapping, db, tm, row, pom, q, j) ==
  IF NodeOf(pom.preds[q], row) = Nothing THEN {}
  ELSE UNION { Quads(SubjectNode(tm, row), NodeOf(pom.preds[q], row), o,
                     GraphsOf(tm.graphs \o pom.graphs, row))
                 : o \in ObjectNodes(mapping, db, pom.objs[j], row) \ {Nothing} }

PomQuads(mapping, db, tm, row, pom) ==
  UNION { UNION { PairQuads(mapping, db, tm, row, pom, q, j) : j \in DOMAIN pom.objs }
            : q \in DOMAIN pom.preds }

RowQuads(mapping, db, tm, row) ==
  IF SubjectNode(tm, row) = Nothing THEN {}
  ELSE ClassQuads(tm, row)
       \cup UNION { PomQuads(mapping, db, tm, row, tm.poms[i]) : i \in DOMAIN tm.poms }

(* The rows a triples map is run over: none for an invalid one.            *)
RowsOf(db, tm) ==
  IF ~TriplesMapValid(tm) THEN << >>
  ELSE IF db[tm.table] \in {SqlError, NoResult} THEN << >>
  ELSE db[tm.table]

MapQuads(mapping, db, m) ==
  UNION { RowQuads(mapping, db, mapping[m], RowsOf(db, mapping[m])[r])
            : r \in DOMAIN RowsOf(db, mapping[m]) }

Denotation(mapping, db) == UNION { MapQuads(mapping, db, m) : m \in DOMAIN mapping }
=============================================================================
