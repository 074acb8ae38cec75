------------------------------ MODULE Relations ------------------------------
(***************************************************************************)
(* The relational tree of the translator (ir/RelNode.h) and what the SQL   *)
(* that SqlRenderer writes for it yields.                                  *)
(*                                                                         *)
(* A relation is a record with a kind and a schema.  The schema maps each  *)
(* variable to its column: whether it is never NULL, the kind of its terms *)
(* as far as the mapping tells, and the expression that computes it.  A    *)
(* row maps every variable of the schema to a term or NULL, and rows form  *)
(* bags.                                                                   *)
(*                                                                         *)
(* The leaves are select-project-join blocks over the tables.  A database  *)
(* is a set of records [table, row, copy]; copies tell equal rows apart.   *)
(***************************************************************************)
EXTENDS Naturals, Sequences, FiniteSets, Bags, TLC
LOCAL INSTANCE SequencesExt

CONSTANTS
  NULL,
  Numbers   (* the terms that a cast to a number leaves as they are        *)

Column(nonNull, kind, expr) == [nonNull |-> nonNull, kind |-> kind, expr |-> expr]

(* A column that a node combines from its children.                        *)
Derived(nonNull, kind) == Column(nonNull, kind, [op |-> "derived"])

AllVars(rel)      == DOMAIN rel.schema
BoundVars(rel)    == { v \in AllVars(rel) : rel.schema[v].nonNull }
OptionalVars(rel) == AllVars(rel) \ BoundVars(rel)

Meet(kinds) == IF Cardinality(kinds) = 1 THEN CHOOSE k \in kinds : TRUE ELSE "unknown"

(* A relation that lacks the variable has no say in the kind of its terms. *)
KindAcross(v, rels) == Meet({ rel.schema[v].kind : rel \in { r \in rels : v \in AllVars(r) } })

Schema(all, bound, rels) == [v \in all |-> Derived(v \in bound, KindAcross(v, rels))]

NoColumns == << >>

SingleRow == [kind |-> "SingleRow", schema |-> NoColumns]

EmptyWith(schema) == [kind |-> "Empty", schema |-> schema]

(* Where the translation of a block ended in an exception.                 *)
Failure(schema) == [kind |-> "Failure", schema |-> schema]

(* A source is a table under an alias, together with the parent table that *)
(* a referencing object map joins to it.                                   *)
Block(sources, conds, schema) ==
  [kind |-> "Spj", sources |-> sources, conds |-> conds, distinct |-> TRUE, schema |-> schema]

Filter(child, predicate) ==
  [kind |-> "Filter", child |-> child, predicate |-> predicate, schema |-> child.schema]

Joins == {"Inner", "LeftOuter", "AntiJoin"}

(* The columns that the SQL of a node has.  A union has those of its arms, *)
(* a filter those below it, whatever the schema says.                      *)
RECURSIVE Produced(_)
Produced(rel) ==
  CASE rel.kind \in {"Inner", "LeftOuter"} -> AllVars(rel.left) \cup AllVars(rel.right)
    [] rel.kind = "UnionByName" -> UNION { Produced(rel.arms[i]) : i \in DOMAIN rel.arms }
    [] rel.kind = "Filter" -> Produced(rel.child)
    [] rel.kind = "Bind" -> Produced(rel.child) \cup {rel.outVar}
    [] OTHER -> AllVars(rel)

-----------------------------------------------------------------------------
(* Bags of rows.                                                           *)
RECURSIVE BagSum(_)
BagSum(bags) ==
  IF bags = {} THEN EmptyBag
  ELSE LET b == CHOOSE x \in bags : TRUE IN b[2] (+) BagSum(bags \ {b})

Copies(row, n) == [r \in {row} |-> n]

(* The bag of the images of the rows that pass.                            *)
Mapped(bag, Pass(_), Image(_)) ==
  BagSum({ << r, Copies(Image(r), CopiesIn(r, bag)) >> : r \in { q \in DOMAIN bag : Pass(q) } })

Distinct(bag) == SetToBag(BagToSet(bag))

Padded(row, vars) == [v \in vars |-> IF v \in DOMAIN row THEN row[v] ELSE NULL]

-----------------------------------------------------------------------------
(* A comparison with NULL is not true.                                     *)
Equals(x, y) == x # NULL /\ y # NULL /\ x = y

(* keyComparison admits NULL on the sides that may hold it.                *)
KeyHolds(k, left, right) ==
  \/ Equals(left[k.var], right[k.var])
  \/ k.nullSafe /\ ~k.leftNonNull /\ left[k.var] = NULL
  \/ k.nullSafe /\ ~k.rightNonNull /\ right[k.var] = NULL

Matches(keys, left, right) == \A k \in keys : KeyHolds(k, left, right)

(* The row a join projects: COALESCE for the null-safe keys, the left      *)
(* column for the others.                                                  *)
JoinedFromLeft(rel, left, right) ==   \* variant: no COALESCE
  [v \in Produced(rel) |-> IF v \in AllVars(rel.left) THEN left[v] ELSE right[v]]

Joined(rel, left, right) ==
  [v \in Produced(rel) |->
     IF v \notin AllVars(rel.left) THEN right[v]
     ELSE IF left[v] = NULL /\ (\E k \in rel.keys : k.var = v /\ k.nullSafe) THEN right[v]
     ELSE left[v]]

InnerRows(rel, left, right) ==
  BagSum({ << p, Copies(Joined(rel, p[1], p[2]), CopiesIn(p[1], left) * CopiesIn(p[2], right)) >> :
             p \in { q \in BagToSet(left) \X BagToSet(right) : Matches(rel.keys, q[1], q[2]) } })

Unmatched(keys, left, right) ==
  { l \in BagToSet(left) : ~\E r \in BagToSet(right) : Matches(keys, l, r) }

-----------------------------------------------------------------------------
(* Expressions.  The truth of a condition is "true", "false" or "error";   *)
(* SQL's NULL stands for the error.                                        *)
RECURSIVE Reads(_)
Reads(e) ==
  CASE e.op \in {"bound", "var", "cast", "is"} -> {e.var}
    [] e.op = "equal" -> {e.left, e.right}
    [] e.op = "not" -> Reads(e.arg)
    [] e.op \in {"or", "and"} -> Reads(e.arg) \cup Reads(e.other)
    [] e.op = "exists" -> {}

Not(t) == CASE t = "true" -> "false" [] t = "false" -> "true" [] OTHER -> "error"

Or(t, u) ==
  IF "true" \in {t, u} THEN "true" ELSE IF "error" \in {t, u} THEN "error" ELSE "false"

And(t, u) == Not(Or(Not(t), Not(u)))

Truth(condition) == IF condition THEN "true" ELSE "false"

(* The value that BIND gives its variable: a copy of a column, or the      *)
(* column cast to a number, which is NULL for what is none (TRY_CAST).     *)
ValueOf(e, row) ==
  IF e.op = "cast" /\ row[e.var] \notin Numbers THEN NULL ELSE row[e.var]

(* A SELECT can name the variables of a schema if the SQL below has them.  *)
Offers(rel) == AllVars(rel) \subseteq Produced(rel)

RECURSIVE Renderable(_), Resolves(_, _)
Resolves(e, rel) ==
  CASE e.op = "exists" -> Renderable(e.body) /\ AllVars(rel) \cap AllVars(e.body) \subseteq Produced(rel) \cap Produced(e.body)
    [] e.op = "not" -> Resolves(e.arg, rel)
    [] e.op \in {"or", "and"} -> Resolves(e.arg, rel) /\ Resolves(e.other, rel)
    [] OTHER -> Reads(e) \subseteq AllVars(rel) \cap Produced(rel)

(* Every column that the SQL of a relation names is there.                 *)
Renderable(rel) ==
  CASE rel.kind = "Failure" -> FALSE
    [] rel.kind \in Joins ->
         /\ Renderable(rel.left) /\ Renderable(rel.right)
         /\ { k.var : k \in rel.keys } \subseteq Produced(rel.left) \cap Produced(rel.right)
         /\ IF rel.kind = "AntiJoin" THEN AllVars(rel) \subseteq Produced(rel.left)
            ELSE Offers(rel.left) /\ Offers(rel.right)
    [] rel.kind = "UnionByName" -> \A i \in DOMAIN rel.arms : Renderable(rel.arms[i])
    [] rel.kind = "Filter" -> Renderable(rel.child) /\ Resolves(rel.predicate, rel.child)
    [] rel.kind = "Bind" -> Renderable(rel.child) /\ Resolves(rel.expr, rel.child)
    [] rel.kind = "Subselect" -> Renderable(rel.child) /\ AllVars(rel) \subseteq Produced(rel.child)
    [] OTHER -> TRUE

RECURSIVE RowsOf(_, _), Condition(_, _, _, _)

(* EXISTS correlates on each shared variable and admits NULL on the sides  *)
(* that may hold it.                                                       *)
Correlated(scope, row, body, r) ==
  \A v \in AllVars(scope) \cap AllVars(body) :
    \/ Equals(row[v], r[v])
    \/ v \in OptionalVars(scope) /\ row[v] = NULL
    \/ v \in OptionalVars(body) /\ r[v] = NULL

Condition(e, scope, row, database) ==
  CASE e.op = "bound" -> Truth(row[e.var] # NULL)
    [] e.op = "equal" -> IF NULL \in {row[e.left], row[e.right]} THEN "error"
                         ELSE Truth(row[e.left] = row[e.right])
    [] e.op = "is" -> IF row[e.var] = NULL THEN "error" ELSE Truth(row[e.var] = e.value)
    [] e.op = "not" -> Not(Condition(e.arg, scope, row, database))
    [] e.op = "or" -> Or(Condition(e.arg, scope, row, database), Condition(e.other, scope, row, database))
    [] e.op = "and" -> And(Condition(e.arg, scope, row, database), Condition(e.other, scope, row, database))
    [] e.op = "exists" -> Truth(\E r \in BagToSet(RowsOf(e.body, database)) : Correlated(scope, row, e.body, r))

-----------------------------------------------------------------------------
(* Blocks.  An environment maps the aliases of a block to rows of the      *)
(* database.                                                               *)
Scan(source, database) ==
  LET Rows(table) == { f \in database : f.table = table }
      parent      == source.parent
  IN  IF parent = NULL THEN { source.alias :> f : f \in Rows(source.table) }
      ELSE { source.alias :> p[1] @@ parent.alias :> p[2] :
               p \in { q \in Rows(source.table) \X Rows(parent.table) :
                         Equals(q[1].row[parent.childColumn], q[2].row[parent.parentColumn]) } }

RECURSIVE Environments(_, _), Value(_, _)
Environments(sources, database) ==
  IF sources = << >> THEN {<< >>}
  ELSE { e @@ s : e \in Environments(Tail(sources), database), s \in Scan(Head(sources), database) }

(* The text of a template is its prefix followed by the values of its      *)
(* columns; without one of them there is no term.                          *)
TemplateText(prefix, values) ==
  IF NULL \in { values[i] : i \in DOMAIN values } THEN NULL
  ELSE FoldLeft(LAMBDA text, value : text \o value, prefix, values)

Value(e, env) ==
  CASE e.op = "column"   -> env[e.alias].row[e.column]
    [] e.op = "template" ->
         TemplateText(e.prefix, [i \in DOMAIN e.columns |-> env[e.alias].row[e.columns[i]]])
    [] e.op = "constant" -> e.value
    [] e.op = "coalesce" -> IF Value(e.a, env) # NULL THEN Value(e.a, env) ELSE Value(e.b, env)
    [] e.op = "computed" -> ValueOf(e.expr, [v \in DOMAIN e.scope |-> Value(e.scope[v], env)])

CondHolds(c, env) ==
  CASE c.op = "same" -> Equals(Value(c.a, env), Value(c.b, env))
    [] c.op = "compatible" -> LET a == Value(c.a, env)
                                  b == Value(c.b, env)
                              IN  a = b \/ NULL \in {a, b}
    [] c.op = "notNull" -> Value(c.a, env) # NULL
    [] c.op = "literal" -> Value(c.a, env) = c.value
    [] c.op = "holds" ->
         LET row == [v \in DOMAIN c.scope |-> Value(c.scope[v], env)]
         IN  Condition(c.predicate, SingleRow, row, {}) = "true"

BlockRows(rel, database) ==
  LET Row(env) == [v \in AllVars(rel) |-> Value(rel.schema[v].expr, env)]
      passing  == { env \in Environments(rel.sources, database) : \A c \in rel.conds : CondHolds(c, env) }
  IN  [r \in { Row(env) : env \in passing } |->
         IF rel.distinct THEN 1 ELSE Cardinality({ env \in passing : Row(env) = r })]

(* The columns a SELECT names.                                             *)
ProjectedAll(rel, row) == row   \* variant: SELECT *

Projected(rel, row) == [v \in AllVars(rel) |-> row[v]]

RowsOf(rel, database) ==
  CASE rel.kind = "SingleRow" -> Copies(<< >>, 1)
    [] rel.kind = "Empty" -> EmptyBag
    [] rel.kind = "Spj" -> BlockRows(rel, database)
    [] rel.kind = "Inner" -> InnerRows(rel, RowsOf(rel.left, database), RowsOf(rel.right, database))
    [] rel.kind = "LeftOuter" ->
         LET left  == RowsOf(rel.left, database)
             right == RowsOf(rel.right, database)
         IN  InnerRows(rel, left, right)
               (+) Mapped(left, LAMBDA l : l \in Unmatched(rel.keys, left, right),
                                LAMBDA l : Padded(l, Produced(rel)))
    [] rel.kind = "AntiJoin" ->
         LET left == RowsOf(rel.left, database)
         IN  Mapped(left, LAMBDA l : l \in Unmatched(rel.keys, left, RowsOf(rel.right, database)),
                          LAMBDA l : Projected(rel, l))
    [] rel.kind = "UnionByName" ->
         LET Arm(i) == Mapped(RowsOf(rel.arms[i], database), LAMBDA r : TRUE,
                              LAMBDA r : Padded(r, Produced(rel)))
             bag    == BagSum({ << i, Arm(i) >> : i \in DOMAIN rel.arms })
         IN  IF rel.all THEN bag ELSE Distinct(bag)
    [] rel.kind = "Filter" ->
         Mapped(RowsOf(rel.child, database),
                LAMBDA r : Condition(rel.predicate, rel.child, r, database) = "true", LAMBDA r : r)
    [] rel.kind = "Bind" ->
         Mapped(RowsOf(rel.child, database), LAMBDA r : TRUE,
                LAMBDA r : [v \in Produced(rel) |->
                              IF v = rel.outVar THEN ValueOf(rel.expr, r) ELSE r[v]])
    [] rel.kind = "Values" -> rel.rows
    [] rel.kind = "Subselect" ->
         LET bag == Mapped(RowsOf(rel.child, database), LAMBDA r : TRUE, LAMBDA r : Projected(rel, r))
         IN  IF rel.distinct THEN Distinct(bag) ELSE bag
=============================================================================
