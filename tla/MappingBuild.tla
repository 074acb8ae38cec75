----------------------------- MODULE MappingBuild -----------------------------
(***************************************************************************)
(* R2RMLParser: from the statements of a Turtle document to a mapping.     *)
(*                                                                         *)
(* The reader delivers the statements one by one, in any order a document  *)
(* may have them; a syntax error loses one, is noted and reading goes on.  *)
(* The collected statements are then turned into one triples map for each  *)
(* named subject that looks like one, references to parents are resolved,  *)
(* and the errors are thrown or stored with the mapping.                   *)
(*                                                                         *)
(* A statement is a record [s, p, o] with o a record [is, text]; `is' is   *)
(* "uri", "blank" or "literal".  The text of a template is the pair of its *)
(* literal segments and its columns, as in R2RMLModel.                     *)
(***************************************************************************)
EXTENDS R2RMLModel, FiniteSets

CONSTANTS
  Documents,  (* the documents that may be read, sets of statements        *)
  Names,      (* named subjects in the order of the keys of a std::map     *)
  MaxLost     (* bound on the statements lost to syntax errors             *)

(* An object is a URI, a blank node or a literal; the key of a blank node  *)
(* begins with "_:" (objKey), which no URI does.                           *)
IsStatement(st) ==
  /\ st = [s |-> st.s, p |-> st.p, o |-> [is |-> st.o.is, text |-> st.o.text]]
  /\ st.o.is \in {"uri", "blank", "literal"}

ASSUME DocumentsAssumption ==
  /\ IsSequence(Names)
  /\ \A d \in Documents :
       /\ \A st \in d : IsStatement(st)
       /\ \A t, u \in d : t.o.is = "uri" /\ u.o.is = "blank" => t.o.text # u.o.text

VARIABLES
  document,   (* what the text says                                        *)
  unread,     (* statements that the reader has not come to                *)
  triples,    (* TripleStore: the objects of each subject and predicate    *)
  maps,       (* the triples maps built                                    *)
  refs,       (* parentRefs: where a parent is awaited, and its name       *)
  errors,     (* errors collected                                          *)
  next,       (* the next name to consider                                 *)
  phase

vars == << document, unread, triples, maps, refs, errors, next, phase >>

Error(what, about) == [what |-> what, about |-> about]

-----------------------------------------------------------------------------
(* Queries on the triple store.                                            *)
Objects(s, p) == IF << s, p >> \in DOMAIN triples THEN triples[<< s, p >>] ELSE << >>

(* The k-th of some places, and what a sequence has there, in their order. *)
Place(places, k) == CHOOSE i \in places : Cardinality({ j \in places : j <= i }) = k

Chosen(s, places) == [k \in 1 .. Cardinality(places) |-> s[Place(places, k)]]

Texts(s, p, kinds) ==
  LET objects == Objects(s, p)
      chosen  == Chosen(objects, { i \in DOMAIN objects : objects[i].is \in kinds })
  IN  [i \in DOMAIN chosen |-> chosen[i].text]

First(texts) == IF texts = << >> THEN EmptyText ELSE texts[1]

FirstLiteral(s, p) == First(Texts(s, p, {"literal"}))
FirstUri(s, p)     == First(Texts(s, p, {"uri"}))

(* Objects that are nodes described by statements of their own.            *)
Nodes(s, p) == Texts(s, p, {"uri", "blank"})

(* The first object, if it is a node.                                      *)
FirstNode(s, p) ==
  LET objects == Objects(s, p)
  IN  IF objects = << >> THEN EmptyText
      ELSE IF objects[1].is = "literal" THEN EmptyText ELSE objects[1].text

-----------------------------------------------------------------------------
(* Term maps.  Of several value strategies on a node the first one counts. *)
Strategy(node) ==
  IF FirstLiteral(node, "column") # EmptyText THEN "column"
  ELSE IF FirstLiteral(node, "template") # EmptyText THEN "template"
  ELSE IF Texts(node, "constant", {"uri"}) # << >> THEN "iri"
  ELSE IF Texts(node, "constant", {"literal"}) # << >> THEN "literal"
  ELSE IF FirstUri(node, "parentTriplesMap") # EmptyText THEN "reference"
  ELSE "unknown"

TermTypes == {"iri", "literal", "blank"}

ASSUME TextsAssumption == EmptyText \notin TermTypes

ExplicitType(node, default) ==
  LET type == FirstUri(node, "termType") IN IF type \in TermTypes THEN type ELSE default

Tag(text) == IF text = EmptyText THEN NoTag ELSE text

Value(kind, type, text, cols) ==
  [kind |-> kind, type |-> type, text |-> text, cols |-> cols, lang |-> NoTag, dt |-> NoTag]

Constant(type, text) == Value("constant", type, text, << >>)
ColumnValue(node)    == Value("column", ExplicitType(node, "iri"), "", << FirstLiteral(node, "column") >>)
TemplateValue(node)  ==
  Value("template", ExplicitType(node, "iri"),
        FirstLiteral(node, "template")[1], FirstLiteral(node, "template")[2])

(* The language and datatype of a column or a template.                    *)
Tagged(node, value) ==
  [value EXCEPT !.lang = Tag(FirstLiteral(node, "language")),
                !.dt = Tag(FirstUri(node, "datatype"))]

(* A reference where no object is expected generates no term.              *)
TermMapOf(node) ==
  CASE Strategy(node) = "column"   -> Tagged(node, ColumnValue(node))
    [] Strategy(node) = "template" -> Tagged(node, TemplateValue(node))
    [] Strategy(node) = "iri"      -> Constant("iri", Texts(node, "constant", {"uri"})[1])
    [] Strategy(node) = "literal"  -> Constant("literal", FirstLiteral(node, "constant"))
    [] OTHER                       -> Value("none", "iri", "", << >>)

Known(nodes)   == Chosen(nodes, { k \in DOMAIN nodes : Strategy(nodes[k]) # "unknown" })
Unknown(nodes) == { nodes[i] : i \in { k \in DOMAIN nodes : Strategy(nodes[k]) = "unknown" } }

MapsOf(nodes) == [i \in DOMAIN Known(nodes) |-> TermMapOf(Known(nodes)[i])]

(* The shortcuts rr:predicate, rr:object and rr:graph.                     *)
Shortcuts(s, p) ==
  LET uris == Texts(s, p, {"uri"}) IN [i \in DOMAIN uris |-> Constant("iri", uris[i])]

GraphMapsOf(node) == Shortcuts(node, "graph") \o MapsOf(Nodes(node, "graphMap"))

GraphErrors(node) == { Error("graph map", n) : n \in Unknown(Nodes(node, "graphMap")) }

(* A subject map tries the template first, and is never a literal.  The    *)
(* type of a constant is that of its node; a term type that its node has   *)
(* besides shows in annotations only (TermMapSql.cpp:81).                  *)
SubjectValue(node) ==
  IF FirstLiteral(node, "template") # EmptyText THEN TemplateValue(node)
  ELSE IF FirstLiteral(node, "column") # EmptyText THEN ColumnValue(node)
  ELSE IF FirstUri(node, "constant") # EmptyText THEN Constant("iri", FirstUri(node, "constant"))
  ELSE Value("none", "iri", "", << >>)

SubjectMapOf(node) ==
  LET value == SubjectValue(node)
  IN  [value EXCEPT !.type = IF @ = "literal" THEN "iri" ELSE @]

SubjectErrors(node) ==
  { Error("literal subject", n) :
      n \in { m \in {node} : /\ SubjectValue(m).kind # "none"
                             /\ ExplicitType(m, "iri") = "literal" } }
  \cup GraphErrors(node)

JoinsOf(node) ==
  LET conditions == Nodes(node, "joinCondition")
  IN  [i \in DOMAIN conditions |->
         << FirstLiteral(conditions[i], "child"), FirstLiteral(conditions[i], "parent") >>]

(* An object from a column is a literal unless its node has a term type.   *)
RegularMapOf(node) ==
  IF Strategy(node) = "column" /\ FirstUri(node, "termType") = EmptyText
    THEN [TermMapOf(node) EXCEPT !.type = "literal"] ELSE TermMapOf(node)

ObjectMapOf(node) ==
  IF Strategy(node) = "reference"
    THEN [rom |-> TRUE, parent |-> 0, joins |-> JoinsOf(node)]
    ELSE [rom |-> FALSE, map |-> RegularMapOf(node)]

ObjectShortcuts(node) ==
  LET constants == Shortcuts(node, "object")
  IN  [i \in DOMAIN constants |-> [rom |-> FALSE, map |-> constants[i]]]

PomOfNode(node) ==
  LET objectNodes == Known(Nodes(node, "objectMap"))
  IN  [preds  |-> Shortcuts(node, "predicate") \o MapsOf(Nodes(node, "predicateMap")),
       objs   |-> ObjectShortcuts(node) \o [i \in DOMAIN objectNodes |-> ObjectMapOf(objectNodes[i])],
       graphs |-> GraphMapsOf(node)]

PomErrorsOfGraphs(node) ==   \* variant: an unknown object map is dropped like a predicate map
  GraphErrors(node)

PomErrors(node) ==
  { Error("object map", n) : n \in Unknown(Nodes(node, "objectMap")) } \cup GraphErrors(node)

(* The references among the objects of a predicate-object map, with the    *)
(* place of each, and those that buildTermMap meets elsewhere.             *)
Reference(node, place) == [parent |-> FirstUri(node, "parentTriplesMap"), place |-> place]

PomRefsByNode(node, m, p) ==   \* variant: the shortcuts do not count
  LET objectNodes == Known(Nodes(node, "objectMap"))
  IN  { Reference(objectNodes[i], << m, p, i >>)
          : i \in { k \in DOMAIN objectNodes : Strategy(objectNodes[k]) = "reference" } }

PomRefs(node, m, p) ==
  LET objectNodes == Known(Nodes(node, "objectMap"))
      before      == Len(ObjectShortcuts(node))
  IN  { Reference(objectNodes[i], << m, p, before + i >>)
          : i \in { k \in DOMAIN objectNodes : Strategy(objectNodes[k]) = "reference" } }

StrayRefs(node, p) ==
  LET nodes == Nodes(node, p)
  IN  { Reference(nodes[i], << >>)
          : i \in { k \in DOMAIN nodes : Strategy(nodes[k]) = "reference" } }

-----------------------------------------------------------------------------
(* A logical table.  A view is known by its query.                         *)
TableOf(node) ==
  IF FirstLiteral(node, "tableName") # EmptyText THEN FirstLiteral(node, "tableName")
  ELSE IF FirstLiteral(node, "sqlQuery") # EmptyText THEN FirstLiteral(node, "sqlQuery")
  ELSE NoTable

IsTriplesMap(name) ==
  \E p \in {"logicalTable", "subjectMap", "predicateObjectMap", "subject"} :
    << name, p >> \in DOMAIN triples

TriplesMapOf(name) ==
  LET table   == FirstNode(name, "logicalTable")
      subject == FirstNode(name, "subjectMap")
      classes == Texts(subject, "class", {"uri"})
      poms    == Nodes(name, "predicateObjectMap")
  IN  [id      |-> name,
       table   |-> IF table = EmptyText THEN NoTable ELSE TableOf(table),
       subject |-> IF subject = EmptyText THEN Value("absent", "iri", "", << >>)
                   ELSE SubjectMapOf(subject),
       classes |-> IF subject = EmptyText THEN << >> ELSE classes,
       graphs  |-> IF subject = EmptyText THEN << >> ELSE GraphMapsOf(subject),
       poms    |-> [i \in DOMAIN poms |-> PomOfNode(poms[i])]]

MapErrors(name) ==
  LET table   == FirstNode(name, "logicalTable")
      subject == FirstNode(name, "subjectMap")
      poms    == Nodes(name, "predicateObjectMap")
  IN  { Error("logical table", t) : t \in { x \in {table} \ {EmptyText} : TableOf(x) = NoTable } }
      \cup (UNION { SubjectErrors(n) : n \in {subject} \ {EmptyText} })
      \cup (UNION { PomErrors(poms[i]) : i \in DOMAIN poms })

MapRefs(name, m) ==
  LET subject == FirstNode(name, "subjectMap")
      poms    == Nodes(name, "predicateObjectMap")
  IN  (UNION { PomRefs(poms[i], m, i) \cup StrayRefs(poms[i], "predicateMap")
                 \cup StrayRefs(poms[i], "graphMap") : i \in DOMAIN poms })
      \cup (UNION { StrayRefs(n, "graphMap") : n \in {subject} \ {EmptyText} })

-----------------------------------------------------------------------------
Init ==
  /\ document \in Documents
  /\ unread = document
  /\ triples = << >>
  /\ maps = << >> /\ refs = {} /\ errors = {}
  /\ next = 1
  /\ phase = "read"

(* TripleCollector::statement appends the object to those that its subject *)
(* and predicate have.                                                     *)
StatementOverwrites ==   \* variant: the last object of a property replaces the others
  /\ phase = "read"
  /\ \E st \in unread :
       LET key == << st.s, st.p >>
       IN  /\ triples' = [k \in DOMAIN triples \cup {key} |->
                            IF k = key THEN << st.o >> ELSE triples[k]]
           /\ unread' = unread \ {st}
  /\ UNCHANGED << document, maps, refs, errors, next, phase >>

Statement ==
  /\ phase = "read"
  /\ \E st \in unread :
       LET key == << st.s, st.p >>
       IN  /\ triples' = [k \in DOMAIN triples \cup {key} |->
                            IF k = key THEN Append(Objects(st.s, st.p), st.o) ELSE triples[k]]
           /\ unread' = unread \ {st}
  /\ UNCHANGED << document, maps, refs, errors, next, phase >>

(* cbError: the reader recovers after the statement it cannot read.        *)
SyntaxError ==
  /\ phase = "read"
  /\ Cardinality({ e \in errors : e.what = "syntax" }) < MaxLost
  /\ \E st \in unread :
       /\ unread' = unread \ {st}
       /\ errors' = errors \cup {Error("syntax", st)}
  /\ UNCHANGED << document, triples, maps, refs, next, phase >>

EndOfText ==
  /\ phase = "read" /\ unread = {}
  /\ phase' = "build"
  /\ UNCHANGED << document, unread, triples, maps, refs, errors, next >>

(* One turn of the loop over the subjects, in the order of their keys.     *)
BuildTriplesMap ==
  /\ phase = "build" /\ next <= Len(Names)
  /\ LET name == Names[next]
     IN  IF IsTriplesMap(name)
           THEN /\ maps' = Append(maps, TriplesMapOf(name))
                /\ refs' = refs \cup MapRefs(name, Len(maps) + 1)
                /\ errors' = errors \cup MapErrors(name)
           ELSE UNCHANGED << maps, refs, errors >>
  /\ next' = next + 1
  /\ UNCHANGED << document, unread, triples, phase >>

FirstOf(places) == IF places = {} THEN 0 ELSE CHOOSE i \in places : \A j \in places : i <= j

Position(name) == FirstOf({ i \in DOMAIN maps : maps[i].id = name })

Awaited(place) == CHOOSE r \in refs : r.place = place

ObjectResolved(om, place) ==
  IF om.rom
    THEN [om EXCEPT !.parent = Position(Awaited(place).parent)]
    ELSE om

PomResolved(pom, m, p) ==
  [pom EXCEPT !.objs = [o \in DOMAIN @ |-> ObjectResolved(@[o], << m, p, o >>)]]

MapResolved(tm, m) ==
  [tm EXCEPT !.poms = [p \in DOMAIN @ |-> PomResolved(@[p], m, p)]]

(* The references are resolved when every triples map is there.            *)
ResolveParents ==
  /\ phase = "build" /\ next > Len(Names)
  /\ maps' = [m \in DOMAIN maps |-> MapResolved(maps[m], m)]
  /\ errors' = errors \cup { Error("parent", r.parent) : r \in { q \in refs : Position(q.parent) = 0 } }
  /\ phase' = "report"
  /\ UNCHANGED << document, unread, triples, refs, next >>

(* Strict parsing throws what lenient parsing stores in the mapping.       *)
Report ==
  /\ phase = "report"
  /\ \E strict \in BOOLEAN :
       phase' = IF strict /\ errors # {} THEN "thrown" ELSE "returned"
  /\ UNCHANGED << document, unread, triples, maps, refs, errors, next >>

Next == Statement \/ SyntaxError \/ EndOfText \/ BuildTriplesMap \/ ResolveParents \/ Report

Spec == Init /\ [][Next]_vars

-----------------------------------------------------------------------------
(***************************************************************************)
(* What a document says, without order: Said are the texts that its        *)
(* statements give a node.                                                 *)
(***************************************************************************)
SaidIn(d, s, p, kinds) ==
  { st.o.text : st \in { t \in d : t.s = s /\ t.p = p /\ t.o.is \in kinds } }

Said(s, p, kinds) == SaidIn(document, s, p, kinds)

Elements(s) == { s[i] : i \in DOMAIN s }

Agrees(tag, texts) == IF texts = {} THEN tag = NoTag ELSE tag \in texts

(* A term map is of the kind, the type and the tags that its node says.    *)
SaidOf(tm, node, default) ==
  LET types == Said(node, "termType", {"uri"})
      typed == IF types = {} THEN tm.type = default ELSE tm.type \in types
  IN  \/ tm.kind = "column" /\ typed /\ tm.cols[1] \in Said(node, "column", {"literal"})
      \/ tm.kind = "template" /\ typed /\ << tm.text, tm.cols >> \in Said(node, "template", {"literal"})
      \/ tm.kind = "constant" /\ tm.type = "iri" /\ tm.text \in Said(node, "constant", {"uri"})
      \/ tm.kind = "constant" /\ tm.type = "literal" /\ tm.text \in Said(node, "constant", {"literal"})

TagsSaidOf(tm, node) ==
  tm.kind # "constant" => /\ Agrees(tm.lang, Said(node, "language", {"literal"}))
                          /\ Agrees(tm.dt, Said(node, "datatype", {"uri"}))

Described(node) ==
  \E p \in {"column", "template", "constant", "parentTriplesMap"} :
    Said(node, p, {"uri", "literal"}) # {}

DescribedBy(s, p) == { n \in Said(s, p, {"uri", "blank"}) : Described(n) }

IsTermMapOf(tm, node) == SaidOf(tm, node, "iri") /\ TagsSaidOf(tm, node)

(* The parent is the triples map of that name, wherever in the document it *)
(* is described, or there is none of that name.                            *)
IsReferenceOf(om, node) ==
  /\ \E name \in Said(node, "parentTriplesMap", {"uri"}) :
       IF om.parent = 0 THEN \A m \in DOMAIN maps : maps[m].id # name
       ELSE maps[om.parent].id = name
  /\ Len(om.joins) = Cardinality(Said(node, "joinCondition", {"uri", "blank"}))
  /\ \A c \in Said(node, "joinCondition", {"uri", "blank"}) :
       Said(c, "child", {"literal"}) \X Said(c, "parent", {"literal"}) \cap Elements(om.joins) # {}

IsObjectOf(om, node) ==
  IF om.rom THEN IsReferenceOf(om, node)
  ELSE /\ SaidOf(om.map, node, IF om.map.kind = "column" THEN "literal" ELSE "iri")
       /\ TagsSaidOf(om.map, node)

(* The list holds one element for every shortcut and every described node. *)
Lists(list, s, shortcut, p, IsShortcut(_, _), IsOf(_, _)) ==
  LET uris  == Said(s, shortcut, {"uri"})
      nodes == DescribedBy(s, p)
  IN  /\ Len(list) = Cardinality(uris) + Cardinality(nodes)
      /\ \A u \in uris : \E i \in DOMAIN list : IsShortcut(list[i], u)
      /\ \A n \in nodes : \E i \in DOMAIN list : IsOf(list[i], n)

IsIri(tm, uri) == tm = Constant("iri", uri)
IsObjectIri(om, uri) == ~om.rom /\ IsIri(om.map, uri)

IsPomOf(pom, node) ==
  /\ Lists(pom.preds, node, "predicate", "predicateMap", IsIri, IsTermMapOf)
  /\ Lists(pom.objs, node, "object", "objectMap", IsObjectIri, IsObjectOf)
  /\ Lists(pom.graphs, node, "graph", "graphMap", IsIri, IsTermMapOf)

IsSubjectOf(tm, node) ==
  /\ IF Described(node)
       THEN SaidOf(IF Said(node, "termType", {"uri"}) = {"literal"}
                     THEN [tm.subject EXCEPT !.type = "literal"] ELSE tm.subject, node, "iri")
       ELSE tm.subject.kind = "none"
  /\ Elements(tm.classes) = Said(node, "class", {"uri"})
  /\ Lists(tm.graphs, node, "graph", "graphMap", IsIri, IsTermMapOf)

IsMapOf(tm) ==
  LET tables   == Said(tm.id, "logicalTable", {"uri", "blank"})
      sources  == UNION { Said(t, p, {"literal"}) : t \in tables, p \in {"tableName", "sqlQuery"} }
      subjects == Said(tm.id, "subjectMap", {"uri", "blank"})
      poms     == Said(tm.id, "predicateObjectMap", {"uri", "blank"})
  IN  /\ IF sources = {} THEN tm.table = NoTable ELSE tm.table \in sources
      /\ IF subjects = {} THEN tm.subject.kind = "absent" ELSE \E n \in subjects : IsSubjectOf(tm, n)
      /\ Len(tm.poms) = Cardinality(poms)
      /\ \A n \in poms : \E i \in DOMAIN tm.poms : IsPomOf(tm.poms[i], n)

NamedMaps ==
  { name \in Elements(Names) :
      \E p \in {"logicalTable", "subjectMap", "predicateObjectMap", "subject"} :
        Said(name, p, {"uri", "blank", "literal"}) # {} }

-----------------------------------------------------------------------------
(* The documents that say one thing, and the same in any order.  Texts are *)
(* of the kind that R2RML gives a property and are not empty, but for a    *)
(* constant literal.                                                       *)
TextProper(st) ==
  /\ st.p \in {"column", "template"} => st.o.is # "uri"
  /\ st.p = "template" /\ st.o.is = "literal" => st.o.text = << st.o.text[1], st.o.text[2] >>
  /\ st.p = "parentTriplesMap" => st.o.is # "literal"
  /\ st.p \in {"logicalTable", "subjectMap"} => st.o.is # "literal"
  /\ st.p = "termType" => st.o.text \in TermTypes
  /\ st.o.text = EmptyText => st.p = "constant" /\ st.o.is = "literal"

(* A join condition names both its columns.                                *)
JoinProper(d, st) ==
  st.p = "joinCondition" /\ st.o.is # "literal" =>
    /\ SaidIn(d, st.o.text, "child", {"literal"}) # {}
    /\ SaidIn(d, st.o.text, "parent", {"literal"}) # {}

(* A constant subject is a URI and is not called a literal.                *)
SubjectProper(d, st) ==
  st.p = "subjectMap" =>
    \A u \in d : u.s = st.o.text /\ u.p = "constant" =>
      u.o.is = "uri" /\ "literal" \notin SaidIn(d, u.s, "termType", {"uri"})

(* Only objects are references to a parent.                                *)
ReferenceProper(d, st) ==
  st.p \in {"predicateMap", "graphMap", "subjectMap"} /\ st.o.is # "literal" =>
    SaidIn(d, st.o.text, "parentTriplesMap", {"uri"}) = {}

Proper(d) ==
  /\ \A st \in d : TextProper(st) /\ JoinProper(d, st) /\ SubjectProper(d, st) /\ ReferenceProper(d, st)
  /\ \A t, u \in d : t.s = u.s /\ t.p = u.p /\ t.p \in {"logicalTable", "termType"} => t = u

-----------------------------------------------------------------------------
(* All that the parser builds is a mapping as the executor takes it, also  *)
(* before the references in it are resolved, and each reference awaits its *)
(* parent at a referencing object map.                                     *)
TypeOK ==
  /\ unread \subseteq document
  /\ \A m \in DOMAIN maps : MapWellFormed(maps, maps[m])
  /\ \A r \in refs : r.place # << >> =>
       LET objs == maps[r.place[1]].poms[r.place[2]].objs
       IN  r.place[3] \in DOMAIN objs /\ objs[r.place[3]].rom
  /\ next \in 1 .. Len(Names) + 1
  /\ phase \in {"read", "build", "report", "returned", "thrown"}

(* A mapping that is returned is the one the document describes, in which  *)
(* order its statements came and whether a parent is described before or   *)
(* after its reference, and without the faulty parts; unless a statement   *)
(* was lost, and then the errors say so.                                   *)
ReturnsWhatIsWritten ==
  phase = "returned" =>
    \/ \E e \in errors : e.what = "syntax"
    \/ /\ { maps[m].id : m \in DOMAIN maps } = NamedMaps
       /\ \A m \in DOMAIN maps : IsMapOf(maps[m])

(* Whatever is missing in the mapping, also because a statement was lost,  *)
(* has an error about its node: a referencing object map without a parent, *)
(* a triples map whose logical table is of no kind, an object map that is  *)
(* of none.                                                                *)
ParentGapsReported ==
  \A r \in { q \in refs : q.place # << >> } :
    maps[r.place[1]].poms[r.place[2]].objs[r.place[3]].parent = 0
      => Error("parent", r.parent) \in errors

TableGapReported(tm) ==
  LET node == FirstNode(tm.id, "logicalTable")
  IN  tm.table = NoTable => node = EmptyText \/ Error("logical table", node) \in errors

ObjectGapsReported(tm) ==
  LET pomNodes == Nodes(tm.id, "predicateObjectMap")
  IN  \A i \in DOMAIN tm.poms :
        LET said   == Elements(Nodes(pomNodes[i], "objectMap"))
            faulty == { n \in said : Error("object map", n) \in errors }
        IN  Len(tm.poms[i].objs) + Cardinality(faulty)
              = Cardinality(said) + Len(Texts(pomNodes[i], "object", {"uri"}))

GapsAreReported ==
  /\ phase \in {"report", "returned"} => ParentGapsReported
  /\ \A m \in DOMAIN maps : TableGapReported(maps[m]) /\ ObjectGapsReported(maps[m])
=============================================================================
