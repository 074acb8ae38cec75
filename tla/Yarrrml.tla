-------------------------------- MODULE Yarrrml --------------------------------
(***************************************************************************)
(* YARRRMLParser: a YAML document is translated into the statements of an  *)
(* R2RML document, which the builder of R2RMLParser takes as if they had   *)
(* been read from Turtle (MappingBuild, an instance of which ends here).   *)
(*                                                                         *)
(* A YAML node is a record with a field y:                                 *)
(*   "scalar"  toks, the tokens of the text; iri and lang, whether it ends *)
(*             in ~iri or, where a tag stands, in ~lang, which no token has *)
(*   "seq"     of, a sequence of nodes                                     *)
(*   "map"     of, a function from keys to nodes                           *)
(*   "null"    present and empty          "undefined"  not present         *)
(* A token is a record [is, lit, col]: a "column" reference has its column *)
(* in col; a "text" has the parts before and after its first colon in lit, *)
(* and the column that a template reader takes its braces for in col.      *)
(***************************************************************************)
EXTENDS R2RMLModel, FiniteSets, SequencesExt

CONSTANTS
  Documents,    (* what may be read: a root and the order of its mappings  *)
  YamlNodes,    (* the mappings of documents, and all that is in them      *)
  BuiltIn,      (* the prefixes that need no declaration                   *)
  SortedNames,  (* names of mappings in the order of a std::map            *)
  NodeName(_)   (* the n-th blank node, which no URI is equal to           *)

VARIABLES
  yaml,     (* the document, a record [root, order]                        *)
  turn,     (* the mapping that is translated, as a place in the document  *)
  step,     (* what of it comes next                                       *)
  entry,    (* the next entry of its predicates and objects                *)
  out,      (* what the translation of it has come to                      *)
  triples, maps, refs, errors, next, phase   (* of the builder             *)

Build == INSTANCE MappingBuild WITH
  document <- {}, unread <- {}, Documents <- {}, Names <- SortedNames, MaxLost <- 0

mine == << yaml, turn, step, entry, out >>
vars == << mine, triples, maps, refs, errors, next, phase >>

-----------------------------------------------------------------------------
(* Access to nodes.                                                        *)
Undefined == [y |-> "undefined"]

Child(node, key) ==
  IF node.y = "map" THEN IF key \in DOMAIN node.of THEN node.of[key] ELSE Undefined
  ELSE Undefined

Present(node) == node.y # "undefined"

FirstOf(node, keys) ==
  LET there == SelectSeq(keys, LAMBDA k : Present(Child(node, k)))
  IN  IF there = << >> THEN Undefined ELSE Child(node, there[1])

FlattenList(node) ==
  IF node.y = "undefined" THEN << >> ELSE IF node.y = "seq" THEN node.of ELSE << node >>

IsScalar(node) == node.y = "scalar"

MappingsOf(root) == FirstOf(root, << "mappings", "mapping" >>)

Children(node) ==
  IF node.y \in {"seq", "map"} THEN { node.of[k] : k \in DOMAIN node.of } ELSE {}

(* A list is a sequence, what is in a node is a node, and the mappings of  *)
(* a document come in an order that names each once.                       *)
ASSUME DocumentsAssumption ==
  /\ \A node \in YamlNodes : node.y = "seq" => IsSequence(node.of)
  /\ UNION { Children(node) : node \in YamlNodes } \subseteq YamlNodes
  /\ UNION { Children(MappingsOf(d.root)) : d \in Documents } \subseteq YamlNodes
  /\ \A d \in Documents :
       /\ IsSequence(d.order) /\ \A t, u \in DOMAIN d.order : d.order[t] = d.order[u] => t = u
       /\ MappingsOf(d.root).y = "map" =>
            { d.order[t] : t \in DOMAIN d.order } = DOMAIN MappingsOf(d.root).of

-----------------------------------------------------------------------------
(* Values.                                                                 *)
Joined(toks) ==
  FoldLeft(LAMBDA text, tok : IF text = << "", "" >> THEN tok.lit
                              ELSE << text[1], text[2] \o tok.lit[2] >>, << "", "" >>, toks)

Text(node) == Joined(node.toks)
Name(node) == Text(node)[2]

KnownPrefixes ==
  LET declared == Child(yaml.root, "prefixes")
  IN  IF declared.y # "map" THEN BuiltIn
      ELSE [p \in DOMAIN BuiltIn \cup DOMAIN declared.of |->
              IF p \in DOMAIN declared.of THEN declared.of[p] ELSE BuiltIn[p]]

LooksAbsoluteIri(text) == text[1] \in {"http", "urn"}
LooksCurie(text) == text[1] # "http" /\ text[1] \in DOMAIN KnownPrefixes

Expanded(text) == IF LooksCurie(text) THEN << KnownPrefixes[text[1]], text[2] >> ELSE text
ResolveIri(text) == IF LooksAbsoluteIri(text) THEN text ELSE Expanded(text)

(* The text of a template, as the pair of segments and columns that its    *)
(* readers find in it.  A brace is escaped by a backslash, which stops no  *)
(* reader from taking what it encloses for a column.                       *)
TemplateText(toks) ==
  << [i \in DOMAIN toks |->
        IF toks[i].col # "" THEN << "", "{}" >>
        ELSE IF i = 1 THEN Expanded(toks[i].lit) ELSE toks[i].lit],
     [i \in DOMAIN SelectSeq(toks, LAMBDA t : t.col # "") |->
        SelectSeq(toks, LAMBDA t : t.col # "")[i].col] >>

(* Where no suffix is expected it is text like any other.                  *)
Suffix == [is |-> "text", lit |-> << "", "~iri" >>, col |-> ""]

ClassifyValue(node, allowIriSuffix, literalsAllowed) ==
  LET toks   == IF node.iri /\ ~allowIriSuffix THEN Append(node.toks, Suffix) ELSE node.toks
      forced == node.iri /\ allowIriSuffix
      text   == Joined(toks)
      Spec(kind, content) == [kind |-> kind, text |-> content, forceIri |-> forced]
  IN  IF Len(toks) = 1 /\ toks[1].is = "column" THEN Spec("column", toks[1].col)
      ELSE IF \E i \in DOMAIN toks : toks[i].is = "column" THEN Spec("template", TemplateText(toks))
      ELSE IF ~literalsAllowed \/ forced \/ LooksAbsoluteIri(text) \/ LooksCurie(text)
        THEN Spec("iri", text)
      ELSE Spec("literal", text)

NoExtra == [dt |-> NoTag, lang |-> NoTag]

ExtraOf(node) ==
  IF node.lang THEN [NoExtra EXCEPT !.lang = Name(node)]
  ELSE [NoExtra EXCEPT !.dt = ResolveIri(Text(node))]

OverrideByEntry(extra, more) ==   \* variant: the tag of the entry wins over the object's own
  [tag \in {"dt", "lang"} |-> IF extra[tag] # NoTag THEN extra[tag] ELSE more[tag]]

Override(extra, more) ==
  [tag \in {"dt", "lang"} |-> IF more[tag] # NoTag THEN more[tag] ELSE extra[tag]]

-----------------------------------------------------------------------------
(* The translation of a mapping adds to what it has come to: the number of *)
(* the next blank node, statements, warnings, classes for the subject, and *)
(* the nodes of the logical table and of predicate-object maps.            *)
FreshNumbers(minted) ==   \* variant: every mapping counts its nodes from 0
  [minted |-> 0, says |-> << >>, warns |-> {}, classes |-> << >>, poms |-> << >>, table |-> ""]

Fresh(minted) ==
  [minted |-> minted, says |-> << >>, warns |-> {}, classes |-> << >>, poms |-> << >>, table |-> ""]

BlankNode(e) == NodeName(e.minted)

(* A loop over a list, said by how far it has come.                        *)
Loop(Step(_, _), start, list) ==
  LET upTo[k \in 0 .. Len(list)] == IF k = 0 THEN start ELSE Step(upTo[k - 1], list[k])
  IN  upTo[Len(list)]

Say(s, p, is, text) == [s |-> s, p |-> p, o |-> [is |-> is, text |-> text]]
SayIf(cond, say)    == IF cond THEN << say >> ELSE << >>

Emit(e, says) == [e EXCEPT !.says = @ \o says]
Mint(e, says) == [Emit(e, says) EXCEPT !.minted = @ + 1]
Warn(e, what) == [e EXCEPT !.warns = @ \cup {what}]
WarnIf(cond, e, what) == IF cond THEN Warn(e, what) ELSE e

(* emitValueSpecAsMap *)
EmitValue(e, spec, extra) ==
  LET node   == BlankNode(e)
      forced == SayIf(spec.forceIri, Say(node, "termType", "uri", "iri"))
      tags   == SayIf(extra.dt # NoTag, Say(node, "datatype", "uri", extra.dt))
                \o SayIf(extra.lang # NoTag, Say(node, "language", "literal", extra.lang))
  IN  Mint(e,
        IF spec.kind = "iri" THEN << Say(node, "constant", "uri", ResolveIri(spec.text)) >>
        ELSE IF spec.kind = "literal" THEN << Say(node, "constant", "literal", spec.text) >> \o tags
        ELSE << Say(node, spec.kind, "literal", spec.text) >> \o forced \o tags)

(* A parameter of a condition is a list of a name and a lone reference.    *)
ColumnRef(param) ==
  IF param.y # "seq" THEN ""
  ELSE IF Len(param.of) < 2 THEN ""
  ELSE IF ~IsScalar(param.of[2]) THEN ""
  ELSE LET spec == ClassifyValue(param.of[2], FALSE, TRUE)
       IN  IF spec.kind = "column" THEN spec.text ELSE ""

(* One condition of a reference whose node is given.                       *)
ConditionFault(c) ==
  LET fn     == Child(c, "function")
      params == Child(c, "parameters")
  IN  IF (IF IsScalar(fn) THEN Name(fn) ELSE "") # "equal" THEN "condition function"
      ELSE IF params.y # "seq" THEN "condition parameters"
      ELSE IF Len(params.of) < 2 THEN "condition parameters"
      ELSE IF "" \in {ColumnRef(params.of[1]), ColumnRef(params.of[2])} THEN "condition columns"
      ELSE "none"

EmitUsableCondition(e, c, node) ==   \* variant: a faulty condition is passed over in silence
  IF c.y # "map" THEN e
  ELSE IF ConditionFault(c) # "none" THEN e
  ELSE LET jc     == BlankNode(e)
           params == Child(c, "parameters").of
       IN  Mint(e, << Say(jc, "child", "literal", ColumnRef(params[1])),
                      Say(jc, "parent", "literal", ColumnRef(params[2])),
                      Say(node, "joinCondition", "blank", jc) >>)

EmitCondition(e, c, node) ==
  IF c.y # "map" THEN e
  ELSE IF ConditionFault(c) # "none" THEN Warn(e, ConditionFault(c))
  ELSE LET jc     == BlankNode(e)
           params == Child(c, "parameters").of
       IN  Mint(e, << Say(jc, "child", "literal", ColumnRef(params[1])),
                      Say(jc, "parent", "literal", ColumnRef(params[2])),
                      Say(node, "joinCondition", "blank", jc) >>)

Conditions(obj) == FlattenList(FirstOf(obj, << "condition", "conditions" >>))

EmitReference(e, obj) ==
  LET node == BlankNode(e)
  IN  Loop(LAMBDA done, c : EmitCondition(done, c, node),
           Mint(e, << Say(node, "parentTriplesMap", "uri", Name(Child(obj, "mapping"))) >>),
           Conditions(obj))

(* emitObjectNode.  The node of an object is the first one it mints.       *)
ValueOf(obj) == FirstOf(obj, << "value", "v" >>)

ObjectKind(obj) ==
  CASE IsScalar(obj) -> "value"
    [] obj.y = "seq" -> IF obj.of = << >> THEN "malformed value array"
                        ELSE IF IsScalar(obj.of[1]) THEN "pair" ELSE "malformed value array"
    [] IsScalar(Child(obj, "mapping")) -> "reference"
    [] IsScalar(ValueOf(obj)) -> "map"
    [] OTHER -> "unrecognised object"

IsObject(obj) == ObjectKind(obj) \in {"value", "pair", "map", "reference"}

(* The scalar of an object and the tags that it has besides the entry's.   *)
ScalarOf(obj) ==
  IF ObjectKind(obj) = "pair" THEN obj.of[1]
  ELSE IF ObjectKind(obj) = "map" THEN ValueOf(obj) ELSE obj

TagsOf(obj) ==
  IF ObjectKind(obj) = "pair"
    THEN IF Len(obj.of) < 2 THEN NoExtra
         ELSE IF IsScalar(obj.of[2]) THEN ExtraOf(obj.of[2]) ELSE NoExtra
  ELSE IF IsScalar(Child(obj, "datatype"))
    THEN [NoExtra EXCEPT !.dt = ResolveIri(Text(Child(obj, "datatype")))]
  ELSE IF IsScalar(Child(obj, "language"))
    THEN [NoExtra EXCEPT !.lang = Name(Child(obj, "language"))]
  ELSE NoExtra

EmitObject(e, obj, extra) ==
  IF ~IsObject(obj) THEN Warn(e, ObjectKind(obj))
  ELSE IF ObjectKind(obj) = "reference" THEN EmitReference(e, obj)
  ELSE EmitValue(e, ClassifyValue(ScalarOf(obj), TRUE, TRUE), Override(extra, TagsOf(obj)))

(* A predicate, `a' for one: a node is minted unless it is constant.       *)
IsA(pred) == pred.toks = << [is |-> "text", lit |-> << "", "a" >>, col |-> ""] >>
             /\ ~pred.iri /\ ~pred.lang

PredicateSpec(pred) ==
  IF IsA(pred) THEN [kind |-> "iri", text |-> RdfType, forceIri |-> FALSE]
  ELSE LET spec == ClassifyValue(pred, FALSE, FALSE)
       IN  IF spec.kind = "iri" THEN [spec EXCEPT !.text = ResolveIri(@)] ELSE spec

FoldsIntoClass(pred, obj, extra) ==
  IsA(pred) /\ extra = NoExtra /\ IsScalar(obj) /\ ClassifyValue(obj, FALSE, FALSE).kind = "iri"

EmitPair(e, pred, predNode, obj, extra) ==
  LET spec == PredicateSpec(pred)
      done == EmitObject(e, obj, extra)
      pom  == BlankNode(done)
      link == IF spec.kind = "iri" THEN Say(pom, "predicate", "uri", spec.text)
              ELSE Say(pom, "predicateMap", "blank", predNode)
  IN  IF FoldsIntoClass(pred, obj, extra)
        THEN [e EXCEPT !.classes = Append(@, ResolveIri(ClassifyValue(obj, FALSE, FALSE).text))]
      ELSE IF ~IsObject(obj) THEN done
      ELSE [Mint(done, << link, Say(pom, "objectMap", "blank", BlankNode(e)) >>)
              EXCEPT !.poms = Append(@, pom)]

EmitPredicate(e, pred, objs, extra) ==
  LET spec  == PredicateSpec(pred)
      node  == BlankNode(e)
      start == IF spec.kind = "iri" THEN e
               ELSE Mint(e, << Say(node, spec.kind, "literal", spec.text) >>)
  IN  Loop(LAMBDA done, obj : EmitPair(done, pred, node, obj, extra), start, objs)

(* An entry of the list of predicates and objects.                         *)
PredicatesOf(item) ==
  LET list == FlattenList(IF item.y = "seq" THEN item.of[1]
                          ELSE FirstOf(item, << "predicates", "predicate", "p" >>))
  IN  Build!Chosen(list, { i \in DOMAIN list : IsScalar(list[i]) })

ObjectsOf(item) ==
  FlattenList(IF item.y = "seq" THEN item.of[2] ELSE FirstOf(item, << "objects", "object", "o" >>))

ExtraOfEntry(item) ==
  IF item.y # "seq" THEN NoExtra
  ELSE IF Len(item.of) < 3 THEN NoExtra
  ELSE IF IsScalar(item.of[3]) THEN ExtraOf(item.of[3]) ELSE NoExtra

EntryFault(item) ==
  CASE item.y = "seq" -> IF Len(item.of) < 2 THEN "short entry" ELSE "none"
    [] item.y = "map" -> IF /\ Present(FirstOf(item, << "predicates", "predicate", "p" >>))
                            /\ Present(FirstOf(item, << "objects", "object", "o" >>))
                         THEN "none" ELSE "entry without keys"
    [] OTHER -> "unrecognised entry"

EmitEntry(e, item) ==
  IF EntryFault(item) # "none" THEN Warn(e, EntryFault(item))
  ELSE IF PredicatesOf(item) = << >> \/ ObjectsOf(item) = << >> THEN Warn(e, "empty entry")
  ELSE Loop(LAMBDA done, pred : EmitPredicate(done, pred, ObjectsOf(item), ExtraOfEntry(item)),
            e, PredicatesOf(item))

-----------------------------------------------------------------------------
(* The logical table and the subject map: the first of several counts.     *)
SourcesOf(m)  == FlattenList(FirstOf(m, << "sources", "source" >>))
SubjectsOf(m) == FlattenList(FirstOf(m, << "subjects", "subject", "s" >>))

(* A scalar names a source of the document.                                *)
SourceOf(m) ==
  IF SourcesOf(m) = << >> THEN Undefined
  ELSE LET src == SourcesOf(m)[1]
       IN  IF IsScalar(src) THEN Child(Child(yaml.root, "sources"), Name(src)) ELSE src

TableProperties == << << "query", "sqlQuery" >>, << "table", "tableName" >> >>

EmitLogicalTable(e, m) ==
  LET many == WarnIf(Len(SourcesOf(m)) > 1, e, "several sources")
      keys == SelectSeq(TableProperties, LAMBDA k : IsScalar(Child(SourceOf(m), k[1])))
      node == BlankNode(e)
  IN  IF keys = << >> THEN Warn(many, "no source")
      ELSE [Mint(many, << Say(node, keys[1][2], "literal", Name(Child(SourceOf(m), keys[1][1]))) >>)
              EXCEPT !.table = node]

HasSubject(m) == IF SubjectsOf(m) = << >> THEN FALSE ELSE IsScalar(SubjectsOf(m)[1])

SubjectMapNode(e, m) == IF HasSubject(m) \/ e.classes # << >> THEN BlankNode(e) ELSE ""

EmitSubjectMap(e, m) ==
  LET many  == WarnIf(Len(SubjectsOf(m)) > 1, e, "several subjects")
      seen  == WarnIf(SubjectsOf(m) # << >> /\ ~HasSubject(m), many, "no subject")
      node  == SubjectMapNode(e, m)
      spec  == ClassifyValue(SubjectsOf(m)[1], FALSE, FALSE)
      value == IF ~HasSubject(m) THEN << >>
               ELSE IF spec.kind = "iri" THEN << Say(node, "constant", "uri", ResolveIri(spec.text)) >>
               ELSE << Say(node, spec.kind, "literal", spec.text) >>
  IN  IF node = "" THEN seen
      ELSE Mint(seen, value \o [i \in DOMAIN e.classes |-> Say(node, "class", "uri", e.classes[i])])

KnownKeys == {"sources", "source", "subjects", "subject", "s",
              "po", "predicateobjects", "predicateObjects", "graphs", "graph"}

(* What a mapping says is linked to its name; a mapping that says nothing  *)
(* is only declared, which makes it no triples map.                        *)
LinkMapping(e, m, name, subjectMap) ==
  LET graphs == WarnIf(Present(FirstOf(m, << "graphs", "graph" >>)), e, "graphs")
      keys   == WarnIf(DOMAIN m.of \ KnownKeys # {}, graphs, "unsupported key")
      links  == SayIf(e.table # "", Say(name, "logicalTable", "blank", e.table))
                \o SayIf(subjectMap # "", Say(name, "subjectMap", "blank", subjectMap))
                \o [i \in DOMAIN e.poms |-> Say(name, "predicateObjectMap", "blank", e.poms[i])]
  IN  Emit(keys, IF links # << >> THEN links ELSE << Say(name, "type", "uri", "TriplesMap") >>)

-----------------------------------------------------------------------------
Init ==
  /\ yaml \in Documents
  /\ turn = 1 /\ step = "root" /\ entry = 1 /\ out = Fresh(0)
  /\ triples = << >> /\ maps = << >> /\ refs = {} /\ errors = {}
  /\ next = 1 /\ phase = "read"

builder == << maps, refs, next >>

Mappings == MappingsOf(yaml.root)
Mapping  == Mappings.of[yaml.order[turn]]
Entries  == FirstOf(Mapping, << "po", "predicateobjects", "predicateObjects" >>)

(* TripleCollector::statement, for each statement in turn.                 *)
Stored(ts, say) ==
  LET key == << say.s, say.p >>
  IN  [k \in DOMAIN ts \cup {key} |->
         IF k # key THEN ts[k]
         ELSE IF k \in DOMAIN ts THEN Append(ts[k], say.o) ELSE << say.o >>]

Collected(says) == Loop(Stored, triples, says)

(* What a part of the translation came to is handed to the collector.      *)
Deliver(e, about) ==
  /\ out' = [e EXCEPT !.says = << >>, !.warns = {}]
  /\ triples' = Collected(e.says)
  /\ errors' = errors \cup { [what |-> w, about |-> about] : w \in e.warns }

TopKeys == {"prefixes", "base", "sources", "source", "mappings", "mapping", "authors"}

(* The file cannot be read, or it is no YAML.                              *)
Unreadable ==
  /\ phase = "read" /\ step = "root"
  /\ phase' = "thrown"
  /\ UNCHANGED << mine, triples, errors, builder >>

ReadRoot ==
  /\ phase = "read" /\ step = "root"
  /\ IF Mappings.y # "map" THEN phase' = "thrown" /\ UNCHANGED << step, errors >>
     ELSE IF Mappings.of = << >> THEN phase' = "thrown" /\ UNCHANGED << step, errors >>
     ELSE /\ step' = "table"
          /\ errors' = { [what |-> "unsupported key", about |-> k] : k \in DOMAIN yaml.root.of \ TopKeys }
          /\ UNCHANGED phase
  /\ UNCHANGED << yaml, turn, entry, out, triples, builder >>

(* The steps of a mapping; one that is not a map is skipped.               *)
Translating(s) == phase = "read" /\ step = s /\ turn <= Len(yaml.order)

Skip ==
  /\ Translating("table") /\ Mapping.y # "map"
  /\ Deliver(Warn(out, "no mapping"), yaml.order[turn])
  /\ turn' = turn + 1
  /\ UNCHANGED << yaml, step, entry, phase, builder >>

LogicalTable ==
  /\ Translating("table") /\ Mapping.y = "map"
  /\ Deliver(EmitLogicalTable(out, Mapping), yaml.order[turn])
  /\ step' = "entries" /\ entry' = 1
  /\ UNCHANGED << yaml, turn, phase, builder >>

Entry ==
  /\ Translating("entries") /\ Entries.y = "seq"
  /\ entry <= Len(Entries.of)
  /\ Deliver(EmitEntry(out, Entries.of[entry]), yaml.order[turn])
  /\ entry' = entry + 1
  /\ UNCHANGED << yaml, turn, step, phase, builder >>

(* Entries that are no list are ignored.                                   *)
EntriesDone ==
  Translating("entries") /\ (Entries.y = "seq" => entry > Len(Entries.of))

SubjectAndLinks ==
  /\ EntriesDone
  /\ LET said == WarnIf(Entries.y \notin {"seq", "undefined"}, out, "entries are no list")
         name == yaml.order[turn]
         done == LinkMapping(EmitSubjectMap(said, Mapping), Mapping, name, SubjectMapNode(out, Mapping))
     IN  /\ triples' = Collected(done.says)
         /\ errors' = errors \cup { [what |-> w, about |-> name] : w \in done.warns }
         /\ out' = Fresh(done.minted)
  /\ turn' = turn + 1 /\ step' = "table"
  /\ UNCHANGED << yaml, entry, phase, builder >>

(* The collected statements go to the builder of R2RML.                    *)
ParseCollected ==
  /\ step # "root" /\ turn > Len(yaml.order) /\ Build!EndOfText
  /\ UNCHANGED mine

BuildMapping ==
  /\ Build!BuildTriplesMap \/ Build!ResolveParents \/ Build!Report
  /\ UNCHANGED mine

Next == Unreadable \/ ReadRoot \/ Skip \/ LogicalTable \/ Entry \/ SubjectAndLinks
          \/ ParseCollected \/ BuildMapping

Spec == Init /\ [][Next]_vars

-----------------------------------------------------------------------------
(***************************************************************************)
(* What a document means, said in the terms of the object model: the       *)
(* triples map that an R2RML author would write for each mapping.          *)
(***************************************************************************)
Named(name) == Mappings.of[name]
EntriesOf(m) ==
  LET node == FirstOf(m, << "po", "predicateobjects", "predicateObjects" >>)
  IN  IF node.y = "seq" THEN node.of ELSE << >>

GoodEntries(m) ==
  SelectSeq(EntriesOf(m), LAMBDA item :
    IF EntryFault(item) # "none" THEN FALSE
    ELSE PredicatesOf(item) # << >> /\ ObjectsOf(item) # << >>)

MeantTerm(spec, default, extra) ==
  CASE spec.kind = "iri"     -> Build!Constant("iri", ResolveIri(spec.text))
    [] spec.kind = "literal" -> Build!Constant("literal", spec.text)
    [] spec.kind = "column"  ->
         [kind |-> "column", type |-> IF spec.forceIri THEN "iri" ELSE default,
          text |-> "", cols |-> << spec.text >>, lang |-> extra.lang, dt |-> extra.dt]
    [] OTHER ->
         [kind |-> "template", type |-> "iri", text |-> spec.text[1], cols |-> spec.text[2],
          lang |-> extra.lang, dt |-> extra.dt]

MeantJoins(obj) ==
  LET usable == SelectSeq(Conditions(obj), LAMBDA c :
                  IF c.y = "map" THEN ConditionFault(c) = "none" ELSE FALSE)
      Column(c, i) == Child(c, "parameters").of[i].of[2].toks[1].col
  IN  [i \in DOMAIN usable |-> << Column(usable[i], 1), Column(usable[i], 2) >>]

MeantObject(obj, extra) ==
  IF ObjectKind(obj) = "reference"
    THEN [rom |-> TRUE, parent |-> Build!Position(Name(Child(obj, "mapping"))), joins |-> MeantJoins(obj)]
    ELSE LET own  == TagsOf(obj)
             tags == [dt   |-> IF own.dt = NoTag THEN extra.dt ELSE own.dt,
                      lang |-> IF own.lang = NoTag THEN extra.lang ELSE own.lang]
         IN  [rom |-> FALSE,
              map |-> MeantTerm(ClassifyValue(ScalarOf(obj), TRUE, TRUE), "literal", tags)]

IsClass(pred, obj, extra) ==
  /\ IsA(pred) /\ extra = NoExtra /\ IsScalar(obj)
  /\ \A i \in DOMAIN obj.toks : obj.toks[i].is # "column"

(* The pairs of an entry, each predicate with each object.                 *)
MeantPairs(item) ==
  FlattenSeq([p \in DOMAIN PredicatesOf(item) |->
    LET pred  == PredicatesOf(item)[p]
        extra == ExtraOfEntry(item)
        objs  == SelectSeq(ObjectsOf(item), LAMBDA o : IsObject(o) /\ ~IsClass(pred, o, extra))
        term  == IF IsA(pred) THEN Build!Constant("iri", RdfType)
                 ELSE MeantTerm(ClassifyValue(pred, FALSE, FALSE), "iri", NoExtra)
    IN  [o \in DOMAIN objs |->
           [preds |-> << term >>, objs |-> << MeantObject(objs[o], extra) >>, graphs |-> << >>]]])

MeantClasses(item) ==
  FlattenSeq([p \in DOMAIN PredicatesOf(item) |->
    LET classes == SelectSeq(ObjectsOf(item),
                             LAMBDA o : IsClass(PredicatesOf(item)[p], o, ExtraOfEntry(item)))
    IN  [o \in DOMAIN classes |-> ResolveIri(ClassifyValue(classes[o], FALSE, FALSE).text)]])

ForEntries(m, Meaning(_)) ==
  FlattenSeq([i \in DOMAIN GoodEntries(m) |-> Meaning(GoodEntries(m)[i])])

MeantSubject(m) ==
  IF HasSubject(m)
    THEN MeantTerm(ClassifyValue(SubjectsOf(m)[1], FALSE, FALSE), "iri", NoExtra)
  ELSE Build!Value(IF ForEntries(m, MeantClasses) = << >> THEN "absent" ELSE "none", "iri", "", << >>)

MeantTable(m) ==
  LET said == SelectSeq(TableProperties, LAMBDA k : IsScalar(Child(SourceOf(m), k[1])))
  IN  IF said = << >> THEN NoTable ELSE Name(Child(SourceOf(m), said[1][1]))

MeantMap(name) ==
  LET m == Named(name)
  IN  [id |-> name, table |-> MeantTable(m), subject |-> MeantSubject(m),
       classes |-> ForEntries(m, MeantClasses), graphs |-> << >>, poms |-> ForEntries(m, MeantPairs)]

(* A mapping that says anything at all of what is supported.               *)
Says(name) ==
  IF Named(name).y # "map" THEN FALSE
  ELSE LET meant == MeantMap(name)
       IN  meant.table # NoTable \/ meant.subject.kind # "absent" \/ meant.poms # << >>

-----------------------------------------------------------------------------
(* No node is minted twice for one document: each carries one value, one   *)
(* predicate, one side of a condition, even where several predicate-object *)
(* maps share the node of a predicate, so that nothing of one mapping is   *)
(* read as a part of another (BlankNodeMinter).                            *)
NodesApart ==
  \A key \in DOMAIN triples :
    key[2] \notin {"class", "predicateObjectMap", "joinCondition"} => Len(triples[key]) = 1

(* The mapping that is returned is the one that the document means, each   *)
(* part with its sources, types, tags and join columns, after it has gone  *)
(* through statements, blank nodes and the builder of R2RML mappings.      *)
TranslationIsFaithful ==
  phase = "returned" =>
    /\ { maps[i].id : i \in DOMAIN maps } = { n \in DOMAIN Mappings.of : Says(n) }
    /\ \A i \in DOMAIN maps : maps[i] = MeantMap(maps[i].id)

(* What is written of a mapping and cannot be found in what was built.     *)
Total(Number(_), s) == FoldLeft(LAMBDA n, x : n + Number(x), 0, s)

PredicatesWritten(item) ==
  FlattenList(IF item.y = "seq" THEN item.of[1] ELSE FirstOf(item, << "predicates", "predicate", "p" >>))

PairsWritten(item) ==
  IF EntryFault(item) # "none" THEN 1 ELSE Len(PredicatesWritten(item)) * Len(ObjectsOf(item))

ConditionsWritten(item) ==
  IF EntryFault(item) # "none" THEN 0
  ELSE Len(PredicatesWritten(item)) * Total(LAMBDA o : Len(Conditions(o)), ObjectsOf(item))

GraphsWritten(node) == Present(FirstOf(node, << "graphs", "graph" >>))

JoinsBuilt(pom) == Total(LAMBDA om : IF om.rom THEN Len(om.joins) ELSE 0, pom.objs)

Lost(name) ==
  LET m     == Named(name)
      found == SelectSeq(maps, LAMBDA tm : tm.id = name)
      poms  == IF found = << >> THEN << >> ELSE found[1].poms
      kept  == Len(poms) + (IF found = << >> THEN 0 ELSE Len(found[1].classes))
  IN  \/ m.y # "map"
      \/ kept < Total(PairsWritten, EntriesOf(m))
      \/ Total(JoinsBuilt, poms) < Total(ConditionsWritten, EntriesOf(m))
      \/ Len(SourcesOf(m)) > 1 \/ Len(SubjectsOf(m)) > 1
      \/ GraphsWritten(m) \/ \E i \in DOMAIN EntriesOf(m) : GraphsWritten(EntriesOf(m)[i])
      \/ DOMAIN m.of \ KnownKeys # {}

DanglingParents ==
  { Name(Child(o, "mapping")) : o \in
      UNION { UNION { { ObjectsOf(item)[i] : i \in { k \in DOMAIN ObjectsOf(item) :
                                                        ObjectKind(ObjectsOf(item)[k]) = "reference" } }
                      : item \in { GoodEntries(Named(n))[i] : i \in DOMAIN GoodEntries(Named(n)) } }
              : n \in { k \in DOMAIN Mappings.of : Named(k).y = "map" } } }
  \ { maps[i].id : i \in DOMAIN maps }

(* Whatever of a mapping is not supported or not understood leaves an      *)
(* error with its name, and a reference to a mapping that became no        *)
(* triples map one with the name of that, so that strict parsing returns   *)
(* nothing but whole translations and lenient parsing tells of the rest.   *)
LossesAreReported ==
  phase = "returned" =>
    /\ \A n \in DOMAIN Mappings.of : Lost(n) => \E e \in errors : e.about = n
    /\ \A n \in DanglingParents : Build!Error("parent", n) \in errors
    /\ DOMAIN yaml.root.of \subseteq TopKeys \cup { e.about : e \in errors }

(* An object for which the document gives a datatype or a language is a    *)
(* literal that has it (README: "`[value, datatype-or-language]` pairs are *)
(* supported").                                                            *)
TagsAreKept ==
  phase = "returned" =>
    \A n \in { k \in DOMAIN Mappings.of : Says(k) } :
      \A i \in DOMAIN GoodEntries(Named(n)) :
        LET item == GoodEntries(Named(n))[i]
        IN  \A o \in DOMAIN ObjectsOf(item) :
              LET tags == Override(ExtraOfEntry(item), TagsOf(ObjectsOf(item)[o]))
              IN  tags # NoExtra =>
                    \E m \in DOMAIN maps : \E p \in DOMAIN maps[m].poms :
                      LET om == maps[m].poms[p].objs[1]
                      IN  /\ ~om.rom /\ om.map.type = "literal"
                          /\ om.map.dt = tags.dt /\ om.map.lang = tags.lang

(* A template substitutes the columns that the document refers to, and no  *)
(* text in braces (escapeTemplateLiteral: "Escape braces ... so they       *)
(* cannot be mistaken for rr:template placeholders").                      *)
BracesAreText ==
  phase = "returned" =>
    \A m \in DOMAIN maps :
      LET subject == SubjectsOf(Named(maps[m].id))[1]
      IN  HasSubject(Named(maps[m].id)) =>
            \A i \in DOMAIN maps[m].subject.cols :
              \E t \in DOMAIN subject.toks :
                subject.toks[t].is = "column" /\ subject.toks[t].col = maps[m].subject.cols[i]

(* ~iri makes an IRI of an object and is no part of it (README: "`~iri`    *)
(* forces an IRI").                                                        *)
SuffixIsNoText ==
  phase = "returned" =>
    \A m \in DOMAIN maps : \A c \in DOMAIN maps[m].classes :
      \A i \in DOMAIN GoodEntries(Named(maps[m].id)) :
        LET objs == ObjectsOf(GoodEntries(Named(maps[m].id))[i])
        IN  \A o \in DOMAIN objs :
              IsScalar(objs[o]) => maps[m].classes[c] # ResolveIri(Text([objs[o] EXCEPT !.toks = Append(@, Suffix)]))
=============================================================================
