------------------------------ MODULE Optimizer ------------------------------
(***************************************************************************)
(* optimize: the passes that rewrite a relational tree before it becomes   *)
(* SQL.  They read the tree alone, with what the mapping says of a column  *)
(* (its kind and template) and what the catalog says of a table (its keys),*)
(* and run once, in the order of Passes.                                   *)
(*                                                                         *)
(* The options are a record: `distinct', whether whatever reads the rows   *)
(* drops duplicates, and `catalog', the keys of the tables or NULL.        *)
(***************************************************************************)
EXTENDS Relations
LOCAL INSTANCE SequencesExt

CONSTANTS
  Fixed   (* the columns that a view gives one value: [table, column, value] *)

OnChildren(rel, F(_)) ==
  CASE rel.kind \in Joins -> [rel EXCEPT !.left = F(@), !.right = F(@)]
    [] rel.kind = "UnionByName" -> [rel EXCEPT !.arms = [i \in DOMAIN @ |-> F(@[i])]]
    [] rel.kind \in {"Filter", "Bind"} -> [rel EXCEPT !.child = F(@)]
    [] OTHER -> rel

Elements(seq) == { seq[i] : i \in DOMAIN seq }

-----------------------------------------------------------------------------
(* Schemas are copies and are brought up to date when what they were       *)
(* copied from has changed: promise and kind, never the set of variables.  *)
Refreshed(rel, bound, rels) ==
  [rel EXCEPT !.schema =
     [v \in DOMAIN @ |-> [@[v] EXCEPT !.nonNull = v \in bound, !.kind = KindAcross(v, rels)]]]

RefreshUnion(u) ==
  LET arms == Elements(u.arms)
  IN  Refreshed(u, { v \in AllVars(u) : \A arm \in arms : v \in BoundVars(arm) }, arms)

RefreshJoin(j) ==
  Refreshed(j, BoundVars(j.left) \cup IF j.kind = "Inner" THEN BoundVars(j.right) ELSE {}, {j.left, j.right})

RefreshFromChild(rel, child) ==
  [rel EXCEPT !.schema =
     [v \in DOMAIN @ |->
        IF v \in AllVars(child)
        THEN [@[v] EXCEPT !.nonNull = child.schema[v].nonNull, !.kind = child.schema[v].kind]
        ELSE @[v]]]

UnwrapSingletonUnion(rel) ==
  IF rel.kind = "UnionByName" /\ Len(rel.arms) = 1 THEN rel.arms[1] ELSE rel

-----------------------------------------------------------------------------
(* Empty relations.                                                        *)
IsEmpty(rel) == rel.kind = "Empty"
IsLive(rel)  == ~IsEmpty(rel)

WithoutEmptyArms(u) ==
  LET live == SelectSeq(u.arms, IsLive)
  IN  CASE live = << >> -> EmptyWith(u.schema)
        [] live = u.arms -> u
        [] OTHER -> UnwrapSingletonUnion(RefreshUnion([u EXCEPT !.arms = live]))

RECURSIVE PropagateEmpty(_)
PropagateEmpty(rel) ==
  LET r == OnChildren(rel, LAMBDA c : PropagateEmpty(c))
      Starved == \/ r.kind \in Joins /\ IsEmpty(r.left)
                 \/ r.kind = "Inner" /\ IsEmpty(r.right)
                 \/ r.kind \in {"Filter", "Bind"} /\ IsEmpty(r.child)
  IN  IF Starved THEN EmptyWith(r.schema)
      ELSE IF r.kind = "AntiJoin" /\ IsEmpty(r.right) THEN r.left
      ELSE IF r.kind = "UnionByName" THEN WithoutEmptyArms(r)
      ELSE r

-----------------------------------------------------------------------------
(* Union arms that no row of a join partner can match.                     *)
Alternatives(side) == IF side.kind = "UnionByName" THEN Elements(side.arms) ELSE {side}

CanEverMatch(prefix1, prefix2) ==
  LET n == IF Len(prefix1) < Len(prefix2) THEN Len(prefix1) ELSE Len(prefix2)
  IN  SubSeq(prefix1, 1, n) = SubSeq(prefix2, 1, n)

DisjointTemplates(r1, r2, v) ==
  /\ v \in AllVars(r1) \cap AllVars(r2)
  /\ LET e1 == r1.schema[v].expr
         e2 == r2.schema[v].expr
     IN  e1.op = "template" /\ e2.op = "template" /\ ~CanEverMatch(e1.prefix, e2.prefix)

RequiredKind(side, v) ==
  IF \A r \in Alternatives(side) : v \in AllVars(r) THEN KindAcross(v, Alternatives(side)) ELSE "unknown"

Matchable(arm, other, v) ==
  LET kinds == {RequiredKind(other, v), KindAcross(v, {arm})}
  IN  /\ "unknown" \in kinds \/ Cardinality(kinds) = 1
      /\ \E r \in Alternatives(other) : ~DisjointTemplates(arm, r, v)

(* A key that tolerates NULL proves nothing, and one arm always stays.     *)
PruneUnionSide(side, other, keys) ==
  LET kept == SelectSeq(side.arms, LAMBDA arm : \A k \in keys : k.nullSafe \/ Matchable(arm, other, k.var))
  IN  IF kept \in {<< >>, side.arms} THEN side
      ELSE IF Len(kept) = 1 THEN [side EXCEPT !.arms = kept]
      ELSE RefreshUnion([side EXCEPT !.arms = kept])

(* Arms that cannot give the same row need no removal of duplicates.       *)
RelaxUnionDedup(u) ==
  [u EXCEPT !.all = @ \/ /\ Len(u.arms) >= 2
                         /\ \A i, j \in DOMAIN u.arms :
                              i < j => \E v \in AllVars(u.arms[i]) : DisjointTemplates(u.arms[i], u.arms[j], v)]

RECURSIVE PruneUnionBranches(_)
PruneUnionBranches(rel) ==
  LET r == OnChildren(rel, LAMBDA c : PruneUnionBranches(c))
      Pruned(side, other) == IF side.kind = "UnionByName" THEN PruneUnionSide(side, other, r.keys) ELSE side
  IN  CASE r.kind \in {"Inner", "LeftOuter"} ->
             LET left  == IF r.kind = "Inner" THEN Pruned(r.left, r.right) ELSE r.left
                 right == Pruned(r.right, left)
             IN  RefreshJoin([r EXCEPT !.left = UnwrapSingletonUnion(left), !.right = UnwrapSingletonUnion(right)])
        [] r.kind = "AntiJoin" -> RefreshFromChild(r, r.left)
        [] r.kind = "UnionByName" -> RefreshUnion(RelaxUnionDedup(r))
        [] r.kind \in {"Filter", "Bind"} -> RefreshFromChild(r, r.child)
        [] OTHER -> r

-----------------------------------------------------------------------------
(* A block over one table shows no row twice if its columns determine a    *)
(* declared key.  Two adjacent placeholders do not determine their values. *)
Invertible(e) == Len(e.columns) <= 1

OwnColumns(e, source) ==
  CASE e.op = "column" /\ e.alias = source.alias -> {e.column}
    [] e.op = "template" /\ e.alias = source.alias -> Elements(e.columns)
    [] OTHER -> {}

Injective(e, source) ==
  \/ e.op = "column" /\ e.alias = source.alias
  \/ e.op = "template" /\ e.alias = source.alias /\ Invertible(e)
  \/ e.op = "constant"

KeyProvesDistinct(block, catalog) ==
  LET source == block.sources[1]
      exprs  == { block.schema[v].expr : v \in AllVars(block) }
      shown  == UNION { OwnColumns(e, source) : e \in exprs }
  IN  /\ Len(block.sources) = 1
      /\ source.parent = NULL \/ source.subject = NULL   \* a parent is noted with the subject only
      /\ \A e \in exprs : Injective(e, source)
      /\ \E key \in catalog : key.table = source.table /\ key.columns \subseteq shown

RECURSIVE StripProvenDistinct(_, _)
StripProvenDistinct(rel, catalog) ==
  IF rel.kind = "Spj" THEN [rel EXCEPT !.distinct = @ /\ ~KeyProvesDistinct(rel, catalog)]
  ELSE OnChildren(rel, LAMBDA c : StripProvenDistinct(c, catalog))

-----------------------------------------------------------------------------
(* Filters move towards the tables.                                        *)
RECURSIVE Conjuncts(_), ContainsExists(_)
Conjuncts(e) == IF e.op = "and" THEN Conjuncts(e.arg) \o Conjuncts(e.other) ELSE << e >>

ContainsExists(e) ==
  CASE e.op = "exists" -> TRUE
    [] e.op = "not" -> ContainsExists(e.arg)
    [] e.op \in {"or", "and"} -> ContainsExists(e.arg) \/ ContainsExists(e.other)
    [] OTHER -> FALSE

WrapFilters(rel, conjuncts) == FoldLeft(LAMBDA child, e : Filter(child, e), rel, conjuncts)

(* The condition over the block's own columns: each variable is replaced   *)
(* by the expression that computes it.                                     *)
Over(block, vars) == [v \in vars |-> block.schema[v].expr]

FoldedInto(block, conjuncts) ==
  [block EXCEPT !.conds = @ \cup { [op |-> "holds", predicate |-> e, scope |-> Over(block, Reads(e))] :
                                     e \in Elements(conjuncts) }]

(* A variable that may be NULL on one side of a join may still get its     *)
(* value from the other one: a filter on it waits until they have met.     *)
PushesToAnySide(vars, side, unsafe) == vars \subseteq AllVars(side)   \* variant: does not wait

PushesTo(vars, side, unsafe) == vars \subseteq AllVars(side) \ unsafe

RECURSIVE PushConjuncts(_, _)
PushConjuncts(rel, conjuncts) ==
  LET Of(Test(_))    == SelectSeq(conjuncts, LAMBDA e : ~ContainsExists(e) /\ Test(e))
      Rest(Test(_))  == SelectSeq(conjuncts, LAMBDA e : ContainsExists(e) \/ ~Test(e))
      ToLeft(e)      == PushesTo(Reads(e), rel.left,
                                 IF rel.kind = "Inner" THEN { k.var : k \in { q \in rel.keys : ~q.leftNonNull } } ELSE {})
      ToRight(e)     == ~ToLeft(e) /\ PushesTo(Reads(e), rel.right,
                                               { k.var : k \in { q \in rel.keys : ~q.rightNonNull } })
      ToEither(e)    == ToLeft(e) \/ ToRight(e)
      ToEveryArm(e)  == \A arm \in Elements(rel.arms) : Reads(e) \subseteq AllVars(arm)
      IntoBlock(e)   == Reads(e) \subseteq AllVars(rel)
  IN  CASE conjuncts = << >> -> rel
        [] conjuncts # << >> /\ rel.kind = "Inner" ->
             WrapFilters([rel EXCEPT !.left = PushConjuncts(@, Of(ToLeft)), !.right = PushConjuncts(@, Of(ToRight))],
                         Rest(ToEither))
        [] conjuncts # << >> /\ rel.kind = "AntiJoin" ->
             WrapFilters([rel EXCEPT !.left = PushConjuncts(@, Of(ToLeft))], Rest(ToLeft))
        [] conjuncts # << >> /\ rel.kind = "UnionByName" ->
             WrapFilters([rel EXCEPT !.arms = [i \in DOMAIN @ |-> PushConjuncts(@[i], Of(ToEveryArm))]],
                         Rest(ToEveryArm))
        [] conjuncts # << >> /\ rel.kind = "Spj" -> WrapFilters(FoldedInto(rel, Of(IntoBlock)), Rest(IntoBlock))
        [] OTHER -> WrapFilters(rel, conjuncts)

RECURSIVE PushFilters(_)
PushFilters(rel) ==
  LET r == OnChildren(rel, LAMBDA c : PushFilters(c))
  IN  IF r.kind = "Filter" THEN PushConjuncts(r.child, Conjuncts(r.predicate)) ELSE r

-----------------------------------------------------------------------------
(* Inner joins of blocks become one block.                                 *)
Same(a, b) == [op |-> "same", a |-> a, b |-> b]

(* With a catalog, two templates of the same shape are compared by their   *)
(* columns.                                                                *)
NativeKeys(a, b) == a.op = "template" /\ b.op = "template" /\ a.prefix = b.prefix /\ Len(a.columns) = Len(b.columns)
                      /\ Invertible(a) /\ a.columns # << >>

OnColumn(e, i) == [op |-> "column", alias |-> e.alias, column |-> e.columns[i]]

JoinEquality(a, b, nullSafe, catalog) ==
  IF nullSafe THEN { [op |-> "compatible", a |-> a, b |-> b] }
  ELSE IF catalog # NULL /\ NativeKeys(a, b) THEN { Same(OnColumn(a, i), OnColumn(b, i)) : i \in DOMAIN a.columns }
  ELSE { Same(a, b) }

(* A `promised' schema decides which columns of the block may be NULL.     *)
MergeInner(keys, promised, left, right, catalog) ==
  LET met == { k \in keys : k.var \in AllVars(left) \cap AllVars(right) }
      Expr(side, v) == side.schema[v].expr
      Own(v) == IF v \in AllVars(left) THEN left.schema[v] ELSE right.schema[v]
      Combined(v) ==
        IF \E k \in met : k.var = v /\ k.nullSafe
        THEN Column(FALSE, KindAcross(v, {left, right}), [op |-> "coalesce", a |-> Expr(left, v), b |-> Expr(right, v)])
        ELSE Own(v)
  IN  [Block(left.sources \o right.sources,
             left.conds \cup right.conds
               \cup UNION { JoinEquality(Expr(left, k.var), Expr(right, k.var), k.nullSafe, catalog) : k \in met },
             [v \in AllVars(left) \cup AllVars(right) |->
                IF v \in DOMAIN promised THEN [Combined(v) EXCEPT !.nonNull = promised[v].nonNull]
                ELSE Combined(v)])
       EXCEPT !.distinct = left.distinct \/ right.distinct]

FoldBind(b) ==
  IF b.child.kind = "Spj" /\ Reads(b.expr) \subseteq AllVars(b.child)
  THEN [b.child EXCEPT !.schema =
          @ @@ b.outVar :> [b.schema[b.outVar] EXCEPT !.expr =
                              [op |-> "computed", expr |-> b.expr, scope |-> Over(b.child, Reads(b.expr))]]]
  ELSE b

UnionCoversKeys(u, keys) ==
  \A arm \in Elements(u.arms) : arm.kind = "Spj" /\ \A k \in keys : k.var \in AllVars(arm)

JoinOverUnion(u, Merged(_)) ==
  LET arms == [i \in DOMAIN u.arms |-> Merged(u.arms[i])]
      all  == UNION { AllVars(arm) : arm \in Elements(arms) }
  IN  [u EXCEPT !.arms = arms,
                !.schema = Schema(all, { v \in all : \A arm \in Elements(arms) : v \in BoundVars(arm) }, Elements(arms))]

RECURSIVE Flatten(_, _)
Flatten(rel, catalog) ==
  LET r == OnChildren(rel, LAMBDA c : Flatten(c, catalog))
      Between(l, q) == r.kind = "Inner" /\ r.left.kind = l /\ r.right.kind = q
  IN  IF Between("Spj", "Spj") THEN MergeInner(r.keys, r.schema, r.left, r.right, catalog)
      ELSE IF Between("UnionByName", "Spj") /\ UnionCoversKeys(r.left, r.keys)
           THEN JoinOverUnion(r.left, LAMBDA arm : MergeInner(r.keys, NoColumns, arm, r.right, catalog))
      ELSE IF Between("Spj", "UnionByName") /\ UnionCoversKeys(r.right, r.keys)
           THEN JoinOverUnion(r.right, LAMBDA arm : MergeInner(r.keys, NoColumns, r.left, arm, catalog))
      ELSE IF r.kind = "Bind" THEN FoldBind(r)
      ELSE r

-----------------------------------------------------------------------------
(* Sources of a block with the same table, subject map and subject         *)
(* variable are taken to be the same row.                                  *)
RECURSIVE Renamed(_, _)
Renamed(e, rename) ==
  LET Alias(alias) == IF alias \in DOMAIN rename THEN rename[alias] ELSE alias
  IN  CASE e.op \in {"column", "template"} -> [e EXCEPT !.alias = Alias(@)]
        [] e.op \in {"coalesce", "same", "compatible"} -> [e EXCEPT !.a = Renamed(@, rename), !.b = Renamed(@, rename)]
        [] e.op \in {"notNull", "literal"} -> [e EXCEPT !.a = Renamed(@, rename)]
        [] e.op \in {"computed", "holds"} -> [e EXCEPT !.scope = [v \in DOMAIN @ |-> Renamed(@[v], rename)]]
        [] OTHER -> e

SameRow(s, t) == s.subject # NULL /\ s.table = t.table /\ s.signature = t.signature /\ s.subject = t.subject

Trivial(c) == c.op = "same" /\ c.a = c.b

EliminateSelfJoins(block) ==
  LET sources  == block.sources
      First(i) == CHOOSE j \in 1 .. i : /\ SameRow(sources[i], sources[j]) \/ j = i
                                        /\ \A k \in 1 .. j - 1 : ~SameRow(sources[i], sources[k])
      dropped  == { i \in DOMAIN sources : First(i) # i }
      OnTo(i)  == LET s == sources[i]
                      t == sources[First(i)]
                  IN  s.alias :> t.alias @@ IF s.parent = NULL THEN << >> ELSE s.parent.alias :> t.parent.alias
      rename   == FoldLeft(LAMBDA f, i : f @@ OnTo(i), << >>, SetToSeq(dropped))
      kept     == SelectSeq([i \in DOMAIN sources |-> i], LAMBDA i : i \notin dropped)
  IN  IF dropped = {} THEN block
      (* the number of kept sources to reserve room for is unsigned *)
      ELSE IF Cardinality(DOMAIN rename) > Len(sources) THEN Failure(block.schema)
      ELSE [block EXCEPT
              !.sources = [i \in DOMAIN kept |-> sources[kept[i]]],
              !.conds = { c \in { Renamed(d, rename) : d \in block.conds } : ~Trivial(c) },
              !.schema = [v \in DOMAIN @ |-> [@[v] EXCEPT !.expr = Renamed(@, rename)]]]

RECURSIVE SelfJoinWalk(_)
SelfJoinWalk(rel) ==
  IF rel.kind = "Spj" THEN EliminateSelfJoins(rel) ELSE OnChildren(rel, LAMBDA c : SelfJoinWalk(c))

-----------------------------------------------------------------------------
(* Conditions that others imply.                                           *)
LiteralEqualities(block) ==
  { [a |-> c.a, value |-> c.value] : c \in { d \in block.conds : d.op = "literal" } }
    \cup { [a |-> c.a, value |-> c.b.value] : c \in { d \in block.conds : d.op = "same" /\ d.b.op = "constant" } }

RemoveRedundantNotNull(block) ==
  [block EXCEPT !.conds =
     { c \in @ : ~(c.op = "notNull" /\ \E q \in LiteralEqualities(block) : q.a = c.a) }]

ViewConstants(block) ==
  { [a |-> [op |-> "column", alias |-> s.alias, column |-> f.column], value |-> f.value] :
      << s, f >> \in { p \in Elements(block.sources) \X Fixed : p[1].table = p[2].table } }

RemoveConstantComparisons(block) ==
  [block EXCEPT !.conds =
     { c \in @ : ~\E q \in ViewConstants(block) :
                    \/ c.op = "literal" /\ c.a = q.a /\ c.value = q.value
                    \/ c.op = "same" /\ c.a = q.a /\ c.b.op = "constant" /\ c.b.value = q.value }]

RECURSIVE RedundancyWalk(_), ConstantColumnWalk(_)
RedundancyWalk(rel) ==
  IF rel.kind = "Spj" THEN RemoveRedundantNotNull(rel) ELSE OnChildren(rel, LAMBDA c : RedundancyWalk(c))

ConstantColumnWalk(rel) ==
  IF rel.kind = "Spj" THEN RemoveConstantComparisons(rel) ELSE OnChildren(rel, LAMBDA c : ConstantColumnWalk(c))

-----------------------------------------------------------------------------
(* The removal of duplicates, where nobody sees them.                      *)
RECURSIVE StripDistinct(_), StripAntiJoinRightDedup(_)
StripDistinct(rel) ==
  LET r == OnChildren(rel, LAMBDA c : StripDistinct(c))
  IN  CASE r.kind = "Spj" -> [r EXCEPT !.distinct = FALSE]
        [] r.kind = "UnionByName" -> [r EXCEPT !.all = TRUE]
        [] OTHER -> r

StripAntiJoinRightDedup(rel) ==
  IF rel.kind = "AntiJoin"
  THEN [rel EXCEPT !.left = StripAntiJoinRightDedup(@), !.right = StripDistinct(@)]
  ELSE OnChildren(rel, LAMBDA c : StripAntiJoinRightDedup(c))

-----------------------------------------------------------------------------
Passes == << "empty", "prune", "keys", "filters", "flatten", "selfJoins", "notNull", "constants", "semiJoins",
             "distinct" >>

Rewritten(pass, rel, options) ==
  CASE pass = "empty"     -> PropagateEmpty(rel)
    [] pass = "prune"     -> PruneUnionBranches(rel)
    [] pass = "keys"      -> IF options.catalog = NULL THEN rel ELSE StripProvenDistinct(rel, options.catalog)
    [] pass = "filters"   -> PushFilters(rel)
    [] pass = "flatten"   -> Flatten(rel, options.catalog)
    [] pass = "selfJoins" -> SelfJoinWalk(rel)
    [] pass = "notNull"   -> RedundancyWalk(rel)
    [] pass = "constants" -> ConstantColumnWalk(rel)
    [] pass = "semiJoins" -> StripAntiJoinRightDedup(rel)
    [] pass = "distinct"  -> IF options.distinct THEN StripDistinct(rel) ELSE rel

Optimized(rel, options) == FoldLeft(LAMBDA r, pass : Rewritten(pass, r, options), rel, Passes)
=============================================================================
