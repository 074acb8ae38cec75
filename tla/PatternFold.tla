----------------------------- MODULE PatternFold -----------------------------
(***************************************************************************)
(* fold: a group graph pattern becomes a relational tree, one element at a *)
(* time, each applied to what the elements before it have built; the       *)
(* passes of the optimizer; and the SELECT over the finished tree.  The    *)
(* tree is built without the data and is later run over some database.     *)
(*                                                                         *)
(* A group is a sequence of records with a field `el', the kind of the     *)
(* element, and its parts; nested groups are sequences again.  A basic     *)
(* graph pattern of several triples is that many elements.  The aliases    *)
(* of tables are named by the place of the pattern in the query.           *)
(***************************************************************************)
EXTENDS Optimizer

CONSTANTS
  Mapping,    (* for each predicate the term maps that may make its triples *)
  Queries,
  TableRows,  (* for each table the rows it may have                        *)
  Keys,       (* what a catalog knows: records [table, columns]             *)
  MaxFacts,
  MaxCopies   (* of one row                                                 *)

VARIABLES query, options, tree, at, pass, database, answers, phase

vars == << query, options, tree, at, pass, database, answers, phase >>

-----------------------------------------------------------------------------
(* A triple pattern: a block for each candidate of the mapping.            *)
UnderAlias(map, alias) == IF map.op = "constant" THEN map ELSE map @@ [alias |-> alias]

ColumnsOf(e) ==
  CASE e.op = "column"   -> {e}
    [] e.op = "template" -> { OnColumn(e, i) : i \in DOMAIN e.columns }
    [] e.op = "constant" -> {}

(* What self-join elimination knows of a source: nothing, if the subject   *)
(* is a constant.                                                          *)
Source(c, alias, s) ==
  [table |-> c.table, alias |-> alias,
   parent |-> IF c.parent = NULL THEN NULL ELSE c.parent @@ [alias |-> Append(alias, 0)],
   subject |-> IF c.subject.op = "constant" THEN NULL ELSE s,
   signature |-> << c.subject, c.parent >>]

ObjectOf(c, alias) == UnderAlias(c.object, IF c.parent = NULL THEN alias ELSE Append(alias, 0))

(* The block of a candidate without a condition on its object.             *)
Candidate(c, alias, s) ==
  LET subject == UnderAlias(c.subject, alias)
      guarded == ColumnsOf(subject) \cup ColumnsOf(ObjectOf(c, alias))
  IN  Block(<< Source(c, alias, s) >>, { [op |-> "notNull", a |-> e] : e \in guarded },
            s :> Column(TRUE, "iri", subject))

WithObjectVar(block, object, kind, s, o) ==
  IF s = o
  THEN [block EXCEPT !.conds = @ \cup { Same(block.schema[s].expr, object) },
                     !.schema[s].kind = Meet({@, kind})]
  ELSE [block EXCEPT !.schema = @ @@ o :> Column(TRUE, kind, object)]

StartsWith(text, prefix) ==
  Len(prefix) <= Len(text) /\ SubSeq(text, 1, Len(prefix)) = prefix

(* invertTermMapAgainstBoundTerm: whether a term map may make the term and *)
(* the conditions under which it does.                                     *)
CanBe(map, term) ==
  CASE map.op = "column"   -> TRUE
    [] map.op = "template" -> StartsWith(term, map.prefix)
    [] map.op = "constant" -> map.value = term

Literal(e, value) == [op |-> "literal", a |-> e, value |-> value]

Inversion(e, term) ==
  CASE e.op = "column"   -> { Literal(e, term) }
    [] e.op = "template" -> IF Invertible(e)
                            THEN { Literal(OnColumn(e, 1), SubSeq(term, Len(e.prefix) + 1, Len(term))) }
                            ELSE { Literal(e, term) }
    [] e.op = "constant" -> {}

CandidateUnion(arms, names) ==
  CASE arms = << >>   -> EmptyWith([v \in names |-> Derived(TRUE, "unknown")])
    [] Len(arms) = 1  -> arms[1]
    [] OTHER -> [kind |-> "UnionByName", all |-> FALSE, arms |-> arms,
                 schema |-> Schema(names, names, Elements(arms))]

AtomicPattern(s, p, o, alias) ==
  LET Arm(i) == LET c == Mapping[p][i]
                    a == Append(alias, i)
                IN  WithObjectVar(Candidate(c, a, s), ObjectOf(c, a), c.kind, s, o)
  IN  CandidateUnion([i \in DOMAIN Mapping[p] |-> Arm(i)], {s, o})

(* The same with a term for the object.                                    *)
AtomicPatternOf(s, p, term, alias) ==
  LET live   == SelectSeq(Mapping[p], LAMBDA c : CanBe(c.object, term))
      Arm(i) == LET a == Append(alias, i)
                IN  [Candidate(live[i], a, s) EXCEPT !.conds = @ \cup Inversion(ObjectOf(live[i], a), term)]
  IN  CandidateUnion([i \in DOMAIN live |-> Arm(i)], {s})

-----------------------------------------------------------------------------
(* The keys of a join: the shared variables, with null-safety decided by   *)
(* the two sides.                                                          *)
BuildKeysInner(left, right) ==   \* variant: only the left side counts
  { [var |-> v, nullSafe |-> v \in OptionalVars(left),
     leftNonNull |-> v \in BoundVars(left), rightNonNull |-> v \in BoundVars(right)] :
      v \in AllVars(left) \cap AllVars(right) }

BuildKeys(left, right) ==
  { [var |-> v, nullSafe |-> v \in OptionalVars(left) \cup OptionalVars(right),
     leftNonNull |-> v \in BoundVars(left), rightNonNull |-> v \in BoundVars(right)] :
      v \in AllVars(left) \cap AllVars(right) }

Join(kind, left, right, bound) ==
  [kind |-> kind, left |-> left, right |-> right, keys |-> BuildKeys(left, right),
   schema |-> Schema(AllVars(left) \cup AllVars(right), bound, {left, right})]

InnerJoin(left, right) ==
  IF left.kind = "SingleRow" THEN right
  ELSE IF right.kind = "SingleRow" THEN left
  ELSE Join("Inner", left, right, BoundVars(left) \cup BoundVars(right))

(* A single row on the left is kept: OPTIONAL may come first in a group.   *)
LeftOuterJoin(left, right) ==
  IF right.kind = "SingleRow" THEN left
  ELSE Join("LeftOuter", left, right, BoundVars(left))

AntiJoin(left, right) ==
  IF AllVars(left) \cap AllVars(right) = {} THEN left
  ELSE [kind |-> "AntiJoin", left |-> left, right |-> right,
        keys |-> BuildKeys(left, right), schema |-> left.schema]

UnionAll(arms) ==
  CASE arms = << >> -> SingleRow
    [] Len(arms) = 1 -> arms[1]
    [] OTHER ->
       [kind |-> "UnionByName", all |-> TRUE, arms |-> arms,
        schema |-> LET all == UNION { AllVars(arms[i]) : i \in DOMAIN arms }
                   IN  Schema(all, { v \in all : \A i \in DOMAIN arms : v \in BoundVars(arms[i]) }, Elements(arms))]

Bind(child, expr, outVar) ==
  [kind |-> "Bind", child |-> child, expr |-> expr, outVar |-> outVar,
   schema |-> [v \in AllVars(child) \cup {outVar} |->
                 IF v = outVar THEN Derived(Reads(expr) \cap OptionalVars(child) = {}, "unknown") ELSE child.schema[v]]]

(* VALUES: a column is optional if one of its cells is UNDEF.              *)
InlineData(names, rows) ==
  LET row(i) == [v \in names |-> rows[i][v]]
  IN  [kind |-> "Values",
       rows |-> BagSum({ << i, Copies(row(i), 1) >> : i \in DOMAIN rows }),
       schema |-> Schema(names, { v \in names : \A i \in DOMAIN rows : rows[i][v] # NULL }, {})]

(* A sub-select: what SELECT * projects keeps its optionality, what is     *)
(* projected by name counts as bound.                                      *)
Subselect(child, select) ==
  LET names == IF select.star THEN AllVars(child) ELSE select.names
  IN  [kind |-> "Subselect", child |-> child, distinct |-> select.distinct,
       schema |-> Schema(names, IF select.star THEN BoundVars(child) ELSE names, {child})]

RECURSIVE Folded(_, _, _), Extended(_, _, _, _), Resolved(_, _, _)

(* A condition with the body of each EXISTS folded and optimized.          *)
Resolved(e, place, catalog) ==
  CASE e.op = "exists" ->
         [op |-> "exists",
          body |-> Optimized(Folded(e.pattern, Append(place, 0), catalog), [distinct |-> TRUE, catalog |-> catalog])]
    [] e.op = "not" -> [e EXCEPT !.arg = Resolved(@, Append(place, 1), catalog)]
    [] e.op \in {"or", "and"} -> [e EXCEPT !.arg = Resolved(@, Append(place, 1), catalog),
                                          !.other = Resolved(@, Append(place, 2), catalog)]
    [] OTHER -> e

(* One turn of the loop of fold: what an element makes of what there is.   *)
Extended(acc, e, place, catalog) ==
  LET Below(pattern) == Folded(pattern, place, catalog)
  IN  CASE e.el = "triple" -> InnerJoin(acc, AtomicPattern(e.s, e.p, e.o, place))
        [] e.el = "object" -> InnerJoin(acc, AtomicPatternOf(e.s, e.p, e.term, place))
        [] e.el = "group" -> InnerJoin(acc, Below(e.pattern))
        [] e.el = "optional" -> LeftOuterJoin(acc, Below(e.pattern))
        [] e.el = "union" ->
             InnerJoin(acc, UnionAll([i \in DOMAIN e.branches |-> Folded(e.branches[i], Append(place, i), catalog)]))
        [] e.el = "minus" -> AntiJoin(acc, Below(e.pattern))
        [] e.el = "filter" -> Filter(acc, Resolved(e.constraint, place, catalog))
        [] e.el = "bind" -> Bind(acc, e.expr, e.var)
        [] e.el = "values" -> InnerJoin(acc, InlineData(e.names, e.rows))
        [] e.el = "select" ->
             InnerJoin(acc, Subselect(Optimized(Below(e.pattern), [distinct |-> e.distinct, catalog |-> catalog]), e))

Folded(group, place, catalog) ==
  IF group = << >> THEN SingleRow
  ELSE Extended(Folded(SubSeq(group, 1, Len(group) - 1), place, catalog), group[Len(group)],
                Append(place, Len(group)), catalog)

-----------------------------------------------------------------------------
(* The groups of a query, those in the bodies of EXISTS included.          *)
RECURSIVE ExistsIn(_), Groups(_)
ExistsIn(e) ==
  CASE e.op = "exists" -> {e.pattern}
    [] e.op = "not" -> ExistsIn(e.arg)
    [] e.op \in {"or", "and"} -> ExistsIn(e.arg) \cup ExistsIn(e.other)
    [] OTHER -> {}

Inside(e) ==
  CASE e.el \in {"group", "optional", "minus", "select"} -> {e.pattern}
    [] e.el = "union" -> Elements(e.branches)
    [] e.el = "filter" -> ExistsIn(e.constraint)
    [] OTHER -> {}

Groups(group) == {group} \cup UNION { UNION { Groups(h) : h \in Inside(group[i]) } : i \in DOMAIN group }

CandidatesOf(e) == IF e.el \in {"triple", "object"} THEN Elements(Mapping[e.p]) ELSE {}

Candidates == UNION { UNION { CandidatesOf(h[i]) : i \in DOMAIN h } : h \in Groups(query) }

Tables == { c.table : c \in Candidates } \cup { c.parent.table : c \in { d \in Candidates : d.parent # NULL } }

Facts == UNION { { [table |-> t, row |-> r, copy |-> n] : r \in TableRows[t], n \in 1 .. MaxCopies } : t \in Tables }

RECURSIVE Databases(_)
Databases(n) ==
  IF n = 0 THEN {{}}
  ELSE LET smaller == Databases(n - 1)
           MayAdd(d) == { f \in Facts : f.copy = 1 \/ [f EXCEPT !.copy = @ - 1] \in d }
       IN  smaller \cup UNION { { d \cup {f} : f \in MayAdd(d) } : d \in smaller }

(* Rows agree on a key only if it holds NULL or they are the same row.     *)
Respects(d, key) ==
  \A f, g \in { h \in d : h.table = key.table } :
    (\A column \in key.columns : Equals(f.row[column], g.row[column])) => f = g

-----------------------------------------------------------------------------
Init ==
  /\ query \in Queries
  /\ options \in [distinct : BOOLEAN, catalog : {NULL, Keys}]
  /\ tree = SingleRow /\ at = 1 /\ pass = 1
  /\ database = {} /\ answers = EmptyBag
  /\ phase = "fold"

Fold ==
  /\ phase = "fold" /\ at <= Len(query)
  /\ tree' = Extended(tree, query[at], << at >>, options.catalog)
  /\ at' = at + 1
  /\ UNCHANGED << query, options, pass, database, answers, phase >>

(* One pass of the optimizer.                                              *)
Optimize ==
  /\ phase = "fold" /\ at > Len(query) /\ pass <= Len(Passes)
  /\ tree' = Rewritten(Passes[pass], tree, options)
  /\ pass' = pass + 1
  /\ UNCHANGED << query, options, at, database, answers, phase >>

(* The rows of `SELECT *' over a tree.                                     *)
Selected(rel, d) ==
  LET bag == Mapped(RowsOf(rel, d), LAMBDA r : TRUE, LAMBDA r : Projected(rel, r))
  IN  IF options.distinct THEN Distinct(bag) ELSE bag

(* The SQL of the finished tree meets the data.                            *)
Execute ==
  /\ phase = "fold" /\ at > Len(query) /\ pass > Len(Passes)
  /\ Renderable(tree) /\ Offers(tree)
  /\ database' \in { d \in Databases(MaxFacts) : options.catalog # NULL => \A key \in options.catalog : Respects(d, key) }
  /\ answers' = Selected(tree, database')
  /\ phase' = "executed"
  /\ UNCHANGED << query, options, tree, at, pass >>

(* The translation throws, or the database does not accept its SQL.        *)
Fail ==
  /\ phase = "fold" /\ at > Len(query) /\ pass > Len(Passes)
  /\ ~(Renderable(tree) /\ Offers(tree))
  /\ phase' = "failed"
  /\ UNCHANGED << query, options, tree, at, pass, database, answers >>

Next == Fold \/ Optimize \/ Execute \/ Fail

Spec == Init /\ [][Next]_vars
-----------------------------------------------------------------------------
(***************************************************************************)
(* What SPARQL 1.1 says (sections 18.2 to 18.5) over the graph that the    *)
(* mapping makes of the database.  A solution maps the variables that it   *)
(* binds and no others.  The filters of a group apply to the whole group,  *)
(* those of an OPTIONAL to what it adds.                                   *)
(***************************************************************************)
TriplesOf(p, c, d) ==
  LET alias == << 0 >>
  IN  { [s |-> Value(UnderAlias(c.subject, alias), env), p |-> p, o |-> Value(ObjectOf(c, alias), env)] :
          env \in Scan(Source(c, alias, NULL), d) }

Graph(d) ==
  LET made == UNION { UNION { TriplesOf(p, c, d) : c \in Elements(Mapping[p]) } : p \in DOMAIN Mapping }
  IN  { t \in made : NULL \notin {t.s, t.o} }

Compatible(m1, m2) == \A v \in DOMAIN m1 \cap DOMAIN m2 : m1[v] = m2[v]

Bindings(row) == [v \in { u \in DOMAIN row : row[u] # NULL } |-> row[v]]

Everything(m) == TRUE
Itself(m) == m

IsFilter(e)     == e.el = "filter"
IsPattern(e)    == ~IsFilter(e)
Filters(group)  == SelectSeq(group, IsFilter)
Patterns(group) == SelectSeq(group, IsPattern)

RECURSIVE Solutions(_, _), Holds(_, _, _)

Holds(e, m, g) ==
  CASE e.op = "bound" -> Truth(e.var \in DOMAIN m)
    [] e.op = "equal" -> IF {e.left, e.right} \subseteq DOMAIN m THEN Truth(m[e.left] = m[e.right])
                         ELSE "error"
    [] e.op = "is" -> IF e.var \in DOMAIN m THEN Truth(m[e.var] = e.value) ELSE "error"
    [] e.op = "not" -> Not(Holds(e.arg, m, g))
    [] e.op = "or" -> Or(Holds(e.arg, m, g), Holds(e.other, m, g))
    [] e.op = "and" -> And(Holds(e.arg, m, g), Holds(e.other, m, g))
    [] e.op = "exists" -> Truth(\E n \in BagToSet(Solutions(e.pattern, g)) : Compatible(m, n))

PassesFilters(group, m, g) == \A i \in DOMAIN Filters(group) : Holds(Filters(group)[i].constraint, m, g) = "true"

JoinPairs(omega1, omega2, Keep(_)) ==
  BagSum({ << p, Copies(p[1] @@ p[2], CopiesIn(p[1], omega1) * CopiesIn(p[2], omega2)) >> :
             p \in { q \in BagToSet(omega1) \X BagToSet(omega2) :
                       Compatible(q[1], q[2]) /\ Keep(q[1] @@ q[2]) } })

MatchesOf(e, g) ==
  IF e.el = "triple"
  THEN { e.s :> t.s @@ e.o :> t.o : t \in { u \in g : u.p = e.p /\ (e.s = e.o => u.s = u.o) } }
  ELSE { e.s :> t.s : t \in { u \in g : u.p = e.p /\ u.o = e.term } }

RECURSIVE Added(_, _, _), Unfiltered(_, _)

Added(omega, e, g) ==
  LET JoinedWith(other) == JoinPairs(omega, other, Everything)
  IN  CASE e.el \in {"triple", "object"} -> JoinedWith(SetToBag(MatchesOf(e, g)))
        [] e.el = "group" -> JoinedWith(Solutions(e.pattern, g))
        [] e.el = "union" ->
             JoinedWith(BagSum({ << i, Solutions(e.branches[i], g) >> : i \in DOMAIN e.branches }))
        [] e.el = "values" ->
             JoinedWith(BagSum({ << i, Copies(Bindings(e.rows[i]), 1) >> : i \in DOMAIN e.rows }))
        [] e.el = "select" ->
             LET Kept(m) == IF e.star THEN m ELSE [v \in DOMAIN m \cap e.names |-> m[v]]
                 bag     == Mapped(Solutions(e.pattern, g), Everything, Kept)
             IN  JoinedWith(IF e.distinct THEN Distinct(bag) ELSE bag)
        [] e.el = "bind" ->
             Mapped(omega, Everything, LAMBDA m :
               LET value == IF e.expr.var \in DOMAIN m THEN ValueOf(e.expr, m) ELSE NULL
               IN  IF value = NULL THEN m ELSE m @@ e.var :> value)
        [] e.el = "minus" ->
             LET other == BagToSet(Solutions(e.pattern, g))
             IN  Mapped(omega, LAMBDA m : ~\E n \in other :
                          Compatible(m, n) /\ DOMAIN m \cap DOMAIN n # {}, Itself)
        [] e.el = "optional" ->
             LET other   == Unfiltered(Patterns(e.pattern), g)
                 Keep(m) == PassesFilters(e.pattern, m, g)
             IN  JoinPairs(omega, other, Keep)
                   (+) Mapped(omega, LAMBDA m : ~\E n \in BagToSet(other) :
                                Compatible(m, n) /\ Keep(m @@ n), Itself)

Unfiltered(patterns, g) ==
  IF patterns = << >> THEN Copies(<< >>, 1)
  ELSE Added(Unfiltered(SubSeq(patterns, 1, Len(patterns) - 1), g), patterns[Len(patterns)], g)

Solutions(group, g) ==
  Mapped(Unfiltered(Patterns(group), g), LAMBDA m : PassesFilters(group, m, g), Itself)

-----------------------------------------------------------------------------
(* The tree as it is before the optimizer; the places do not matter here.  *)
Plain(group) == Folded(group, << 0 >>, NULL)

Before(group, i) == Plain(SubSeq(group, 1, i - 1))

(* The variables that an element may bind.                                 *)
Mentions(e) == IF e.el = "bind" THEN {e.var} ELSE AllVars(Extended(SingleRow, e, << 0 >>, NULL))

RECURSIVE SubTrees(_)
SubTrees(rel) ==
  {rel} \cup
    CASE rel.kind \in Joins -> SubTrees(rel.left) \cup SubTrees(rel.right)
      [] rel.kind = "UnionByName" -> UNION { SubTrees(rel.arms[i]) : i \in DOMAIN rel.arms }
      [] rel.kind \in {"Filter", "Bind", "Subselect"} -> SubTrees(rel.child)
      [] OTHER -> {}

(* A column that counts as bound although it need not be: a name projected *)
(* by a sub-select whose pattern may leave it out, a cast that may fail.   *)
MayFail(column) == column.nonNull /\ column.expr.op = "computed" /\ column.expr.expr.op = "cast"

Overstates(rel) ==
  \/ rel.kind = "Subselect" /\ ~AllVars(rel) \cap OptionalVars(rel.child) \subseteq OptionalVars(rel)
  \/ rel.kind = "Bind" /\ rel.expr.op = "cast" /\ rel.outVar \in BoundVars(rel)
  \/ rel.kind = "Spj" /\ \E v \in AllVars(rel) : MayFail(rel.schema[v])

(* MINUS whose sides have no shared variable that both always bind.        *)
MinusMayBeDisjoint(group) ==
  \E i \in DOMAIN group : group[i].el = "minus" /\
    LET left  == Before(group, i)
        right == Plain(group[i].pattern)
    IN  /\ AllVars(left) \cap AllVars(right) # {}
        /\ BoundVars(left) \cap BoundVars(right) = {}

(* A filter that reads what a later element of its group may still bind.   *)
FilterTooEarly(group) ==
  \E i, j \in DOMAIN group :
    /\ i < j /\ group[i].el = "filter" /\ IsPattern(group[j])
    /\ Reads(group[i].constraint) \cap OptionalVars(Before(group, i)) \cap Mentions(group[j]) # {}

(* Self-join elimination is for tables in which a subject has one row      *)
(* (the documented assumption of SpjSource, ir/RelNode.h): wherever two    *)
(* patterns have the same subject variable and a table in common, its rows *)
(* with the same subject are equal.                                        *)
SharesSource(e, f, c) == e.s = f.s /\ c.subject.op # "constant" /\ c \in CandidatesOf(e)
  /\ \E other \in CandidatesOf(f) : other.table = c.table /\ other.subject = c.subject

ReadTwice ==
  LET places == UNION { { << h, i >> : i \in { j \in DOMAIN h : h[j].el \in {"triple", "object"} } } : h \in Groups(query) }
      El(a)  == a[1][a[2]]
  IN  UNION { { c \in CandidatesOf(El(a)) : \E b \in places \ {a} : SharesSource(El(a), El(b), c) } : a \in places }

SubjectText(c, row) == Value(UnderAlias(c.subject, << 0 >>), << 0 >> :> [row |-> row])

SubjectsHaveOneRow ==
  \A c \in ReadTwice : \A f, g \in { h \in database : h.table = c.table } :
    SubjectText(c, f.row) # NULL /\ SubjectText(c, f.row) = SubjectText(c, g.row) => f.row = g.row

(* Every row has the columns of the tree's schema, and every copy counts.  *)
TypeOK ==
  /\ IsABag(answers)
  /\ \A r \in BagToSet(answers) :
       DOMAIN r = AllVars(tree) /\ \A v \in DOMAIN r : r[v] = NULL \/ r[v] \in STRING
  /\ at \in 1 .. Len(query) + 1
  /\ pass \in 1 .. Len(Passes) + 1
  /\ phase \in {"fold", "executed", "failed"}

Agrees ==
  LET solutions == Solutions(query, Graph(database))
      rows      == Mapped(answers, Everything, Bindings)
  IN  rows = IF options.distinct THEN Distinct(solutions) ELSE solutions

(* A query that names a variable where none of that name is in scope is    *)
(* refused, or becomes SQL over a column that is not there.                *)
InScope == Renderable(Plain(query)) /\ Offers(Plain(query))

NothingElseDeviates ==
  /\ InScope
  /\ \A h \in Groups(query) : ~FilterTooEarly(h)
  /\ \A rel \in SubTrees(Plain(query)) : ~Overstates(rel)
  /\ phase = "executed" => SubjectsHaveOneRow

(* Whatever joins, optional parts, unions, MINUS, filters, EXISTS, BIND,   *)
(* VALUES and sub-selects a query nests, over whatever columns, templates, *)
(* constants and parents the mapping makes its triples from, the query can *)
(* be written as SQL, and the rows it yields are the solutions that SPARQL *)
(* gives the query on the graph of the tables, as often (or once, under    *)
(* DISTINCT); the kinds of query named above apart.                        *)
AnswersMatch ==
  /\ phase \in {"executed", "failed"}
  /\ \A h \in Groups(query) : ~MinusMayBeDisjoint(h)
  /\ NothingElseDeviates
  => phase = "executed" /\ Agrees

(* Optimizing a tree changes none of its answers ("Semantics-preserving    *)
(* rewrites", ir/Optimizer.h), whatever else is said of the query.         *)
OptimizerPreserves ==
  LET plain == Folded(query, << >>, options.catalog)
  IN  /\ phase = "failed" => ~(Renderable(plain) /\ Offers(plain))
      /\ phase = "executed" /\ SubjectsHaveOneRow =>
           Mapped(answers, Everything, Bindings) = Mapped(Selected(plain, database), Everything, Bindings)

PromiseKept(rel) ==
  \A r \in BagToSet(RowsOf(rel, database)) : \A v \in BoundVars(rel) \cap DOMAIN r : r[v] # NULL

(* A column that the schema promises non-null holds a term in every row of *)
(* its relation, at every node of the tree (ColumnInfo::nonNull).  Joins   *)
(* drop their tolerance for NULL on the strength of it.                    *)
PromisesKept == phase = "executed" => \A rel \in SubTrees(tree) : PromiseKept(rel)

(* The same but for the trees that hold one of the two overstatements.     *)
OtherPromisesKept ==
  phase = "executed" =>
    \A rel \in SubTrees(tree) : PromiseKept(rel) \/ \E sub \in SubTrees(rel) : Overstates(sub)

(* MINUS takes away what SPARQL takes away, also where the two sides share *)
(* no variable that both bind (section 18.5: the domains must meet).       *)
MinusMatches == phase = "executed" /\ NothingElseDeviates => Agrees
=============================================================================
