--------------------------- MODULE TriplePattern ---------------------------
(***************************************************************************)
(* A triple pattern as SQL over the tables of a mapping.                   *)
(*                                                                         *)
(* translateAtomicPattern expands a pattern to one arm for each rr:class   *)
(* and each pair of a predicate map and an object map, and drops the arms  *)
(* that can be seen not to match.  allTermsRelation does it for the terms  *)
(* of the graph.  Both read the mapping only: the SQL text is made once    *)
(* and answers over whatever the tables hold when it is run.               *)
(*                                                                         *)
(* An arm is a record [table, parent, joins, s, p, o]: the term maps of a  *)
(* triple over a row of `table', o over a row of `parent' joined to it     *)
(* unless parent is NoTable.  A pattern gives each of the positions s, p,  *)
(* o a variable, a term or, for a negated property set, IRIs to exclude.   *)
(* The SQL of a pattern compares the lexical forms of terms; a term here is*)
(* its lexical form.  Only the tables of a referencing object map are      *)
(* joined on their columns as they are, where the conversion compares the  *)
(* texts of the values.  What else the mapping says of a term is the       *)
(* annotation of its column, from which the tag is made that stands beside *)
(* the lexical form wherever a query asks for it (module TermInfo).        *)
(***************************************************************************)
EXTENDS TermInfo

CONSTANTS
  Mappings,   (* the mappings queried                                      *)
  TableRows,  (* the rows that may be stored, for each table               *)
  Patterns,   (* the triple patterns asked                                 *)
  AllTerms,   (* the request for every term of the graph                   *)
  Natural,    (* the natural datatype of columns the type catalog knows    *)
  SqlEqual(_, _),  (* a = b in SQL, for values of two columns, none NULL   *)
  Unlike,     (* pairs of columns whose types the database may refuse to   *)
              (* compare: at once, or at a value it cannot convert         *)
  MaxRows     (* bound on the rows of a table                              *)

VARIABLES mapping, db, query, arms, answers, phase

vars == << mapping, db, query, arms, answers, phase >>

Variable(name) == [is |-> "variable", name |-> name]
Term(lex)      == [is |-> "term", lex |-> lex]
NotIn(lexes)   == [is |-> "notIn", lexes |-> lexes]

Positions == {"s", "p", "o"}

RowSet(d, table) == { d[table][i] : i \in DOMAIN d[table] }

-----------------------------------------------------------------------------
(* What the inversion of a term map against a term gives: it can never     *)
(* produce the term, it always does, or it does under conditions.          *)
CouldProduce(tm, lex) == tm.kind = "column" \/ tm.text = lex[1]

AlwaysProduces(tm, lex) == tm.cols = << >> /\ << tm.text, << >> >> = lex

(* Whether an arm is kept for a position of the pattern.                   *)
KeepsUnlessPossible(tm, c) ==   \* variant: an exclusion by a template drops the arm
  \/ c.is = "variable"
  \/ c.is = "term" /\ CouldProduce(tm, c.lex)
  \/ c.is = "notIn" /\ \A lex \in c.lexes : ~CouldProduce(tm, lex)

Keeps(tm, c) ==
  \/ c.is = "variable"
  \/ c.is = "term" /\ CouldProduce(tm, c.lex)
  \/ c.is = "notIn" /\ \A lex \in c.lexes : ~AlwaysProduces(tm, lex)

(* The WHERE conditions of a kept arm.                                     *)
Holds(tm, row, c) ==
  \/ c.is = "variable"
  \/ c.is = "term" /\ Expansion(tm, row) = c.lex
  \/ c.is = "notIn" /\ \A lex \in c.lexes : CouldProduce(tm, lex) => Expansion(tm, row) # lex

-----------------------------------------------------------------------------
HasTerms(tm) == tm.table # NoTable /\ tm.subject.kind \notin {"absent", "none"}

Arm(tm, pred, obj) ==
  [table |-> tm.table, parent |-> NoTable, joins |-> << >>,
   s |-> tm.subject, p |-> pred, o |-> obj]

ConstantMap(text) ==
  [kind |-> "constant", type |-> "iri", text |-> text, cols |-> << >>,
   lang |-> NoTag, dt |-> NoTag]

ClassArms(tm) ==
  { Arm(tm, ConstantMap(RdfType), ConstantMap(tm.classes[i])) : i \in DOMAIN tm.classes }

(* A referencing object map joins the parent's table.  Without a join      *)
(* condition, or a parent that has subjects, it has no arm.                *)
ReferencingArms(mp, tm, pred, om) ==
  { [Arm(tm, pred, mp[i].subject) EXCEPT !.parent = mp[i].table, !.joins = om.joins]
      : i \in { k \in {om.parent} \ {0} : om.joins # << >> /\ HasTerms(mp[k]) } }

PairArms(mp, tm, pred, om) ==
  IF om.rom THEN ReferencingArms(mp, tm, pred, om) ELSE { Arm(tm, pred, om.map) }

PomArms(mp, tm, pom) ==
  UNION { PairArms(mp, tm, pom.preds[q], pom.objs[j])
            : q \in DOMAIN pom.preds, j \in DOMAIN pom.objs }

MapArms(mp, tm) ==
  IF HasTerms(tm)
    THEN ClassArms(tm) \cup UNION { PomArms(mp, tm, tm.poms[i]) : i \in DOMAIN tm.poms }
    ELSE {}

PatternArms(mp, pattern) ==
  { arm \in UNION { MapArms(mp, mp[i]) : i \in DOMAIN mp }
      : \A pos \in Positions : Keeps(arm[pos], pattern[pos]) }

(* allTermsRelation: the subjects, classes and objects of every triples    *)
(* map that has a class or a predicate-object map.  The objects of a       *)
(* referencing object map are left to the parent's own subjects.           *)
RegularObjects(pom) == { pom.objs[j].map : j \in { k \in DOMAIN pom.objs : ~pom.objs[k].rom } }

MapTermArmsNoObjects(tm) ==   \* variant: objects are not nodes
  {[table |-> tm.table, term |-> tm.subject]}

MapTermArms(tm) ==
  { [table |-> tm.table, term |-> x]
      : x \in {tm.subject} \cup UNION { RegularObjects(tm.poms[i]) : i \in DOMAIN tm.poms } }
  \cup
  { [table |-> NoTable, term |-> ConstantMap(tm.classes[i])] : i \in DOMAIN tm.classes }

TermArms(mp) ==
  UNION { MapTermArms(mp[i])
            : i \in { k \in DOMAIN mp : /\ HasTerms(mp[k])
                                        /\ mp[k].classes # << >> \/ mp[k].poms # << >> } }

-----------------------------------------------------------------------------
(* What a term map declares, whatever position it stands in: a language or *)
(* a datatype makes a literal of it, and only a column is typed by the     *)
(* catalog.                                                                *)
IsLiteral(tm) == tm.type = "literal" \/ tm.lang # NoTag \/ tm.dt # NoTag

NaturalOf(tm, table) ==
  IF tm.kind = "column" /\ << table, tm.cols[1] >> \in DOMAIN Natural
    THEN Natural[<< table, tm.cols[1] >>] ELSE NoTag

Annotate(tm, table) ==
  CASE ~IsLiteral(tm) -> Known(tm.type, NoTag, NoTag)
    [] IsLiteral(tm) /\ tm.lang # NoTag -> Known("literal", LangString, tm.lang)
    [] IsLiteral(tm) /\ tm.lang = NoTag /\ tm.dt # NoTag -> Known("literal", tm.dt, NoTag)
    [] OTHER -> Known("literal", NaturalOf(tm, table), NoTag)

TableAt(arm, pos) == IF pos = "o" /\ arm.parent # NoTable THEN arm.parent ELSE arm.table

AnnotationAt(arm, pos) == Annotate(arm[pos], TableAt(arm, pos))

PositionsOf(pattern, v) == { pos \in Positions : pattern[pos] = Variable(v) }

(* Two positions of one variable hold equal texts, but perhaps different   *)
(* terms: the column claims what both declare and shows the first one's    *)
(* tag.                                                                    *)
ArmAnnotation(arm, pattern, v) ==
  MeetColumns({ AnnotationAt(arm, pos) : pos \in PositionsOf(pattern, v) })

FirstOf(positions) ==
  IF "s" \in positions THEN "s" ELSE IF "p" \in positions THEN "p" ELSE "o"

(* The column of the union of the arms.                                    *)
PatternAnnotation(patternArms, pattern, v) ==
  MeetColumns({ ArmAnnotation(arm, pattern, v) : arm \in patternArms })

TermsAnnotation(termArms) ==
  MeetColumns({ Annotate(arm.term, arm.table) : arm \in termArms })

-----------------------------------------------------------------------------
(* The evaluation of an arm.                                               *)
NotNull(tm, row) == \A i \in DOMAIN tm.cols : row[tm.cols[i]] # NULL

(* The join conditions are equalities of columns, without casts.           *)
SqlJoins(joins, child, parent) ==
  \A i \in DOMAIN joins :
    /\ child[joins[i][1]] # NULL
    /\ parent[joins[i][2]] # NULL
    /\ SqlEqual(child[joins[i][1]], parent[joins[i][2]])

Refusable(arm) ==
  /\ arm.parent # NoTable
  /\ \E i \in DOMAIN arm.joins : << << arm.table, arm.joins[i][1] >>, << arm.parent, arm.joins[i][2] >> >> \in Unlike

(* FROM table, or FROM table JOIN parent ON the join conditions.           *)
Joined(arm, d) ==
  IF arm.parent = NoTable
    THEN { << row, row >> : row \in RowSet(d, arm.table) }
    ELSE { pair \in RowSet(d, arm.table) \X RowSet(d, arm.parent)
             : SqlJoins(arm.joins, pair[1], pair[2]) }

RowAt(pair, pos) == IF pos = "o" THEN pair[2] ELSE pair[1]

TripleAt(arm, pair) == [pos \in Positions |-> Expansion(arm[pos], RowAt(pair, pos))]

(* One variable at two positions: the expressions must be equal.           *)
SelfJoinGuard(pattern, triple) ==
  \A i, j \in Positions :
    pattern[i].is = "variable" /\ pattern[i] = pattern[j] => triple[i] = triple[j]

Selected(arm, pattern, d) ==
  { pair \in Joined(arm, d) :
      /\ \A pos \in Positions : NotNull(arm[pos], RowAt(pair, pos))
      /\ \A pos \in Positions : Holds(arm[pos], RowAt(pair, pos), pattern[pos])
      /\ SelfJoinGuard(pattern, TripleAt(arm, pair)) }

(* Each variable is projected once, from its first position.               *)
Names(pattern) == { pattern[pos].name : pos \in { i \in Positions : pattern[i].is = "variable" } }

Solution(pattern, triple) ==
  [v \in Names(pattern) |-> triple[CHOOSE pos \in Positions : pattern[pos] = Variable(v)]]

(* A row holds the text and the tag of each variable.                      *)
Cell(lex, tag) == [lex |-> lex, tag |-> tag]

Tags(arm, pattern) ==
  [v \in Names(pattern) |-> EncodeTag(AnnotationAt(arm, FirstOf(PositionsOf(pattern, v))))]

WithTags(solution, tags) == [v \in DOMAIN solution |-> Cell(solution[v], tags[v])]

(* SELECT DISTINCT from each arm, their UNION without duplicates.          *)
Evaluated(patternArms, pattern, d) ==
  UNION { { WithTags(Solution(pattern, TripleAt(arm, pair)), Tags(arm, pattern))
              : pair \in Selected(arm, pattern, d) }
            : arm \in patternArms }

(* A class is selected without a FROM.                                     *)
EvaluatedTerms(termArms, d) ==
  UNION { { Cell(lex, EncodeTag(Annotate(arm.term, arm.table)))
              : lex \in IF arm.table = NoTable
                          THEN {Expansion(arm.term, << >>)}
                          ELSE { Expansion(arm.term, row)
                                   : row \in { r \in RowSet(d, arm.table) : NotNull(arm.term, r) } } }
            : arm \in termArms }

-----------------------------------------------------------------------------
Init ==
  /\ mapping \in Mappings
  /\ db = [t \in DOMAIN TableRows |-> << >>]
  /\ query \in Patterns \cup {AllTerms}
  /\ arms = {} /\ answers = {}
  /\ phase = "query"

Translate ==
  /\ phase = "query"
  /\ arms' = IF query = AllTerms THEN TermArms(mapping) ELSE PatternArms(mapping, query)
  /\ phase' = "sql"
  /\ UNCHANGED << mapping, db, query, answers >>

(* The tables change under the translated query, by other statements.      *)
Insert ==
  /\ phase = "sql"
  /\ \E t \in DOMAIN TableRows : \E row \in TableRows[t] :
       /\ Len(db[t]) < MaxRows
       /\ db' = [db EXCEPT ![t] = Append(@, row)]
  /\ UNCHANGED << mapping, query, arms, answers, phase >>

Execute ==
  /\ phase = "sql"
  /\ answers' = IF query = AllTerms THEN EvaluatedTerms(arms, db) ELSE Evaluated(arms, query, db)
  /\ phase' = "answered"
  /\ UNCHANGED << mapping, db, query, arms >>

(* The database refuses a comparison, and the query has no answer.         *)
Refuse ==
  /\ phase = "sql" /\ query # AllTerms
  /\ \E arm \in arms : Refusable(arm)
  /\ phase' = "refused"
  /\ UNCHANGED << mapping, db, query, arms, answers >>

(* Rows are gone before the same statement is run again.                   *)
Clear ==
  /\ phase \in {"answered", "refused"}
  /\ \E t \in DOMAIN TableRows : db' = [db EXCEPT ![t] = << >>]
  /\ answers' = {}
  /\ phase' = "sql"
  /\ UNCHANGED << mapping, query, arms >>

Next == Translate \/ Insert \/ Execute \/ Refuse \/ Clear

Spec == Init /\ [][Next]_vars

-----------------------------------------------------------------------------
(* The graph that the mapping denotes over the tables as they are now:     *)
(* what processDatabase would write, without graphs.                       *)
Triples == { [s |-> q.s, p |-> q.p, o |-> q.o] : q \in Denotation(mapping, db) }

Texts(triple) == [pos \in Positions |-> triple[pos].lex]

Graph == { Texts(t) : t \in Triples }

MatchesTerm(c, lex) ==
  /\ c.is = "term" => lex = c.lex
  /\ c.is = "notIn" => lex \notin c.lexes

Matches(pattern, triple) ==
  /\ \A pos \in Positions : MatchesTerm(pattern[pos], triple[pos])
  /\ \A v \in Names(pattern) : \A i, j \in Positions :
       pattern[i] = Variable(v) /\ pattern[j] = Variable(v) => triple[i] = triple[j]

TextsOf(row) == [v \in DOMAIN row |-> row[v].lex]

(* The SQL for a triple pattern, if it answers over the tables, has the    *)
(* solutions that the pattern has in the graph which the conversion of the *)
(* same tables writes: translator and converter read the mapping the same  *)
(* way, an arm was left out at translation time only if it never matches,  *)
(* and a reference leads to the same parents.                              *)
AnswersMatchGraph ==
  phase = "answered" /\ query # AllTerms =>
    { TextsOf(row) : row \in answers } =
      { Solution(query, t) : t \in { u \in Graph : Matches(query, u) } }

(* The terms that a path of length zero ranges over include every subject  *)
(* and object of the graph.                                                *)
TermsCoverGraph ==
  phase = "answered" /\ query = AllTerms =>
    \A t \in Graph : {t.s, t.o} \subseteq { cell.lex : cell \in answers }

-----------------------------------------------------------------------------
(* The mappings and patterns of which this is said, beyond which the two   *)
(* programs may differ.  A term map has a value strategy and is no empty   *)
(* constant.                                                               *)
Speaks(tm) ==
  /\ tm.kind \in {"constant", "column", "template"}
  /\ tm.type \in {"iri", "literal", "blank"}
  /\ tm.kind = "constant" => tm.text # EmptyText

(* A referencing object map has a join condition; the translation leaves   *)
(* out one that has none, which the conversion pairs with every parent.    *)
ObjectSpeaks(mp, om) ==
  IF om.rom THEN om.parent \in DOMAIN mp \ {0} /\ om.joins # << >> ELSE Speaks(om.map)

PomSpeaks(mp, pom) ==
  /\ \A q \in DOMAIN pom.preds : Speaks(pom.preds[q])
  /\ \A j \in DOMAIN pom.objs : ObjectSpeaks(mp, pom.objs[j])

(* The program refuses a mapping that is not valid (main.cpp:292).  The    *)
(* tables are there.                                                       *)
Translatable(mp) ==
  \A m \in DOMAIN mp :
    /\ TriplesMapValid(mp[m])
    /\ mp[m].table \in DOMAIN TableRows
    /\ mp[m].subject.kind # "none" => Speaks(mp[m].subject)
    /\ \A p \in DOMAIN mp[m].poms : PomSpeaks(mp, mp[m].poms[p])

(* A parent makes triples of its own; allTermsRelation passes over one     *)
(* that has neither a class nor a predicate-object map.                    *)
ParentsAreNodes(mp) ==
  \A m \in DOMAIN mp : \A p \in DOMAIN mp[m].poms : \A j \in DOMAIN mp[m].poms[p].objs :
    mp[m].poms[p].objs[j].rom =>
      LET parent == mp[mp[m].poms[p].objs[j].parent]
      IN  parent.classes # << >> \/ parent.poms # << >>

(* The columns of join conditions hold values that are equal in SQL if     *)
(* their texts are, which is what getJoinedRows compares: those of one     *)
(* type in which a value has one text, or of types whose texts of equal    *)
(* values are the same.                                                    *)
EqualByText(joins, table, parent) ==
  \A i \in DOMAIN joins : \A row \in TableRows[table], prow \in TableRows[parent] :
    LET a == row[joins[i][1]]
        b == prow[joins[i][2]]
    IN  a # NULL /\ b # NULL => (SqlEqual(a, b) <=> a.lex = b.lex)

PomJoinsByText(mp, tm, pom) ==
  \A j \in DOMAIN pom.objs :
    pom.objs[j].rom => EqualByText(pom.objs[j].joins, tm.table, mp[pom.objs[j].parent].table)

JoinsByText(mp) == \A m \in DOMAIN mp : \A p \in DOMAIN mp[m].poms : PomJoinsByText(mp, mp[m], mp[m].poms[p])

(* What a term map declares can be said in a tag: only an object is a      *)
(* literal, one with a language or a datatype is written as one, and the   *)
(* datatype of language-tagged strings is not declared by itself.          *)
DeclaresObject(tm) ==
  /\ IsLiteral(tm) => tm.type = "literal"
  /\ tm.kind = "column" => 1 \in DOMAIN tm.cols
  /\ {tm.lang, tm.dt} \subseteq TagTexts \cup {NoTag}
  /\ tm.lang = NoTag => tm.dt # LangString

PomDeclares(pom) ==
  /\ \A q \in DOMAIN pom.preds : ~IsLiteral(pom.preds[q])
  /\ \A j \in DOMAIN pom.objs : ~pom.objs[j].rom => DeclaresObject(pom.objs[j].map)

Declared(mp) ==
  /\ IsSequence(mp)
  /\ \A m \in DOMAIN mp :
       /\ MapWellFormed(mp, mp[m])
       /\ HasTerms(mp[m]) => ~IsLiteral(mp[m].subject)
       /\ \A p \in DOMAIN mp[m].poms : PomDeclares(mp[m].poms[p])

(* The natural datatype that the catalog knows of a column is the one that *)
(* the connection gives its values.                                        *)
CatalogIsShown ==
  \A k \in DOMAIN Natural :
    /\ Natural[k] \in TagTexts \ {LangString}
    /\ k[1] \in DOMAIN TableRows =>
         \A row \in TableRows[k[1]] : row[k[2]] # NULL => row[k[2]].nat = Natural[k]

(* A position holds a variable, a term or terms to exclude.                *)
IsPattern(pattern) ==
  \A pos \in Positions :
    /\ pattern[pos].is \in {"variable", "term", "notIn"}
    /\ pattern[pos].is = "variable" => pattern[pos] = Variable(pattern[pos].name)

-----------------------------------------------------------------------------
(* The term that a node of the conversion stands for; a literal without    *)
(* datatype is an xsd:string (RDF 1.1).                                    *)
TermOf(node) ==
  CASE node.type # "literal" -> [kind |-> node.type, dt |-> NoTag, lang |-> NoTag]
    [] node.type = "literal" /\ node.tag[1] = "@" ->
         [kind |-> "literal", dt |-> LangString, lang |-> node.tag[2]]
    [] OTHER ->
         [kind |-> "literal", lang |-> NoTag,
          dt |-> IF node.tag[2] = NoTag THEN "xsd:string" ELSE node.tag[2]]

TrueOf(cell, node) == cell.lex = node.lex /\ Describes(DecodeTag(cell.tag), TermOf(node))

(* A cell tells the truth about a term that the conversion writes at the   *)
(* first position of its variable.                                         *)
RowTells(row, t) ==
  \A v \in Names(query) : TrueOf(row[v], t[FirstOf(PositionsOf(query, v))])

Matching == { t \in Triples : Matches(query, Texts(t)) }

TagsAreTrue ==
  IF query = AllTerms
    THEN \A t \in Triples : \A pos \in {"s", "o"} : \E cell \in answers : TrueOf(cell, t[pos])
    ELSE /\ \A row \in answers : \E t \in Matching : RowTells(row, t)
         /\ \A t \in Matching : \E row \in answers : RowTells(row, t)

Column(v) == IF query = AllTerms THEN TermsAnnotation(arms) ELSE PatternAnnotation(arms, query, v)

Cells(v) == IF query = AllTerms THEN answers ELSE { row[v] : row \in answers }

Columns == IF query = AllTerms THEN {AllTerms} ELSE Names(query)

AnnotationsAreTrue == \A v \in Columns : \A cell \in Cells(v) : Covers(Column(v), cell.tag)

(* What the translator settles from the annotation of a column, meeting    *)
(* all arms of a union and all positions of a variable, is what the tag of *)
(* every row says, and that tag is true of the term that the conversion    *)
(* writes: its kind, its language and its datatype where it gives one      *)
(* (TermInfo.h:19, RelNode.h:81).                                          *)
TermsAsAnnotated == phase = "answered" => TagsAreTrue /\ AnnotationsAreTrue

(* Whether two terms are compared as texts, numbers or times, or known to  *)
(* differ, does not depend on how much of it was settled when the SQL was  *)
(* made (TagSql.h:98 and the comment at ExpressionTranslator.cpp:104).     *)
ComparedAlike(v, t, w, u) ==
  SettledEquality(Column(v), Column(w)) \in {"open", TagEquality(t, u)}
    \/ TagEquality(t, u) = "guess"

EqualityIsOfTerms ==
  phase = "answered" =>
    \A v, w \in Columns : \A c \in Cells(v), d \in Cells(w) : ComparedAlike(v, c.tag, w, d.tag)

(* Where a row gives equal texts to two positions of one variable, either  *)
(* position's tag describes the row (RelNode.h:84).                        *)
EitherTagDescribes ==
  phase = "answered" /\ query # AllTerms =>
    \A arm \in arms : Selected(arm, query, db) # {} =>
      \A v \in Names(query) : \A i, j \in PositionsOf(query, v) :
        EncodeTag(AnnotationAt(arm, i)) = EncodeTag(AnnotationAt(arm, j))
=============================================================================
