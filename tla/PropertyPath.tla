---------------------------- MODULE PropertyPath ----------------------------
(***************************************************************************)
(* translatePath: a property path between two endpoints becomes a relation *)
(* whose columns are the variables of the path, the fresh ones that it     *)
(* introduces for intermediate nodes included.  SQL relations are bags.    *)
(*                                                                         *)
(* A path is a record with a field op and its operands; an endpoint is a   *)
(* term or a variable.  A relation is a record [kind, names, rows]: kind   *)
(* is "SingleRow" or "Empty" where the translator knows that the relation  *)
(* is, and "Rows" otherwise.  The graph stands for the rows that triple    *)
(* patterns select (module TriplePattern), the closure of E+ for what the  *)
(* recursive query computes (module PathClosure).                          *)
(***************************************************************************)
EXTENDS Naturals, Sequences, FiniteSets, Bags

CONSTANTS Terms, Variables, Predicates, Paths, MaxTriples

VARIABLES graph, path, subject, object, answers, phase

vars == << graph, path, subject, object, answers, phase >>

IsVar(endpoint) == endpoint \notin Terms

Nodes == { t.s : t \in graph } \cup { t.o : t \in graph }

Value(row, endpoint) == IF IsVar(endpoint) THEN row[endpoint] ELSE endpoint

NamesOf(endpoints) == { e \in endpoints : IsVar(e) }

Rows(names, bag) == [kind |-> "Rows", names |-> names, rows |-> bag]

(* Rows binding the endpoints to the given pairs of terms, each once.      *)
Binding(X, Y, pair) == [v \in NamesOf({X, Y}) |-> IF v = X THEN pair[1] ELSE pair[2]]

Fits(X, Y, pair) ==
  /\ ~IsVar(X) => X = pair[1]
  /\ ~IsVar(Y) => Y = pair[2]
  /\ X = Y => pair[1] = pair[2]

OfPairs(X, Y, pairs) ==
  Rows(NamesOf({X, Y}), SetToBag({ Binding(X, Y, p) : p \in { q \in pairs : Fits(X, Y, q) } }))

-----------------------------------------------------------------------------
(* The relational operators the translation uses.                          *)
Compatible(r1, r2) == \A v \in DOMAIN r1 \cap DOMAIN r2 : r1[v] = r2[v]

Merged(r1, r2) == [v \in DOMAIN r1 \cup DOMAIN r2 |-> IF v \in DOMAIN r1 THEN r1[v] ELSE r2[v]]

RECURSIVE BagSum(_)
BagSum(bags) ==
  IF bags = {} THEN EmptyBag
  ELSE LET b == CHOOSE x \in bags : TRUE IN b[2] (+) BagSum(bags \ {b})

(* The rows of the two sides that agree on their common columns.           *)
InnerJoin(left, right) ==
  LET pairs == { p \in BagToSet(left.rows) \X BagToSet(right.rows) : Compatible(p[1], p[2]) }
  IN  Rows(left.names \cup right.names,
           BagSum({ << p, [r \in {Merged(p[1], p[2])} |->
                             CopiesIn(p[1], left.rows) * CopiesIn(p[2], right.rows)] >>
                      : p \in pairs }))

Distinct(bag) == SetToBag(BagToSet(bag))

UnionAll(first, second) == Rows(first.names \cup second.names, first.rows (+) second.rows)

UnionDistinct(first, second) ==
  Rows(first.names \cup second.names, Distinct(first.rows (+) second.rows))

(* The columns projected in the end, none of them internal: duplicates add *)
(* up.                                                                     *)
Projected(names, bag) ==
  BagSum({ << r, [s \in {[v \in names |-> r[v]]} |-> CopiesIn(r, bag)] >> : r \in BagToSet(bag) })

-----------------------------------------------------------------------------
PredicatePairs(iri) == { << t.s, t.o >> : t \in { u \in graph : u.p = iri } }

NegatedPairs(iris) == { << t.s, t.o >> : t \in { u \in graph : u.p \notin iris } }

(* The zero-length path: settled at once for two terms, anchored at the    *)
(* term if there is one, else over all terms of the graph.                 *)
ZeroLengthPath(X, Y) ==
  CASE ~IsVar(X) /\ ~IsVar(Y) ->
         [kind |-> IF X = Y THEN "SingleRow" ELSE "Empty", names |-> {},
          rows |-> IF X = Y THEN SetToBag({[v \in {} |-> X]}) ELSE EmptyBag]
    [] IsVar(X) /\ ~IsVar(Y) -> OfPairs(X, Y, {<< Y, Y >>})
    [] ~IsVar(X) /\ IsVar(Y) -> OfPairs(X, Y, {<< X, X >>})
    [] IsVar(X) /\ IsVar(Y) -> OfPairs(X, Y, { << n, n >> : n \in Nodes })

RECURSIVE ClosureOf(_)
ClosureOf(pairs) ==
  LET longer == pairs \cup { << c[1][1], c[2][2] >> :
                               c \in { d \in pairs \X pairs : d[1][2] = d[2][1] } }
  IN  IF longer = pairs THEN pairs ELSE ClosureOf(longer)

(* E? and E* : the zero-length path, unless it settles the pattern, united *)
(* with the other one.                                                     *)
WithZeroLengthAll(zero, some) ==   \* variant: the union keeps duplicates
  IF zero.kind = "SingleRow" THEN zero ELSE UnionAll(some, zero)

WithZeroLength(zero, some) ==
  IF zero.kind = "SingleRow" THEN zero
  ELSE IF zero.kind = "Empty" THEN some
  ELSE UnionDistinct(some, zero)

(* A name for an intermediate node, unlike that of any other one.          *)
Internal(place, role) == << role, place >>

RECURSIVE Translated(_, _, _, _)

OneOrMore(child, X, Y, place) ==
  LET from == Internal(place, "from")
      to   == Internal(place, "to")
      step == Translated(child, from, to, Append(place, 1))
  IN  OfPairs(X, Y, ClosureOf({ << r[from], r[to] >> : r \in BagToSet(step.rows) }))

NegatedSetForward(set, X, Y) ==   \* variant: inverse members are not reversed
  OfPairs(X, Y, NegatedPairs(IF set.forward = {} THEN set.inverse ELSE set.forward))

NegatedSet(set, X, Y) ==
  LET forward  == OfPairs(X, Y, NegatedPairs(set.forward))
      backward == OfPairs(Y, X, NegatedPairs(set.inverse))
  IN  IF set.inverse = {} THEN forward
      ELSE IF set.forward = {} THEN backward
      ELSE UnionAll(forward, backward)

Translated(p, X, Y, place) ==
  CASE p.op = "predicate" -> OfPairs(X, Y, PredicatePairs(p.iri))
    [] p.op = "inverse" -> Translated(p.child, Y, X, place)
    [] p.op = "sequence" ->
         LET mid == Internal(place, "mid")
         IN  InnerJoin(Translated(p.left, X, mid, Append(place, 1)),
                       Translated(p.right, mid, Y, Append(place, 2)))
    [] p.op = "alternative" ->
         UnionAll(Translated(p.left, X, Y, Append(place, 1)),
                  Translated(p.right, X, Y, Append(place, 2)))
    [] p.op = "negated" -> NegatedSet(p, X, Y)
    [] p.op = "zeroOrOne" ->
         WithZeroLength(ZeroLengthPath(X, Y), Translated(p.child, X, Y, place))
    [] p.op = "oneOrMore" -> OneOrMore(p.child, X, Y, place)
    [] p.op = "zeroOrMore" ->
         WithZeroLength(ZeroLengthPath(X, Y), OneOrMore(p.child, X, Y, place))

-----------------------------------------------------------------------------
Triples == [s : Terms, p : Predicates, o : Terms]

Init ==
  /\ graph \in { g \in SUBSET Triples : Cardinality(g) <= MaxTriples }
  /\ path \in Paths
  /\ subject \in Terms \cup Variables /\ object \in Terms \cup Variables
  /\ answers = EmptyBag
  /\ phase = "query"

(* The query `SELECT * { subject path object }'.                           *)
Answer ==
  /\ phase = "query"
  /\ LET relation == Translated(path, subject, object, << >>)
     IN  answers' = Projected(NamesOf({subject, object}), relation.rows)
  /\ phase' = "answered"
  /\ UNCHANGED << graph, path, subject, object >>

Next == Answer

Spec == Init /\ [][Next]_vars

-----------------------------------------------------------------------------
(* What SPARQL 1.1 says (sections 9 and 18.4): the number of times that a  *)
(* pair of terms is a solution of a path.                                  *)
Universe == Nodes \cup ({subject, object} \cap Terms)

RECURSIVE Count(_, _, _)

Steps(p) == { pair \in Universe \X Universe : Count(p, pair[1], pair[2]) > 0 }

RECURSIVE SumOver(_, _, _, _)
SumOver(p, a, b, middles) ==
  IF middles = {} THEN 0
  ELSE LET m == CHOOSE x \in middles : TRUE
       IN  Count(p.left, a, m) * Count(p.right, m, b) + SumOver(p, a, b, middles \ {m})

One(condition) == IF condition THEN 1 ELSE 0

Count(p, a, b) ==
  CASE p.op = "predicate" -> One([s |-> a, p |-> p.iri, o |-> b] \in graph)
    [] p.op = "inverse" -> Count(p.child, b, a)
    [] p.op = "sequence" -> SumOver(p, a, b, Universe)
    [] p.op = "alternative" -> Count(p.left, a, b) + Count(p.right, a, b)
    [] p.op = "negated" ->
         One(p.forward # {} /\ << a, b >> \in NegatedPairs(p.forward))
           + One(p.inverse # {} /\ << b, a >> \in NegatedPairs(p.inverse))
    [] p.op = "zeroOrOne" -> One(a = b \/ Count(p.child, a, b) > 0)
    [] p.op = "oneOrMore" -> One(<< a, b >> \in ClosureOf(Steps(p.child)))
    [] p.op = "zeroOrMore" -> One(a = b \/ << a, b >> \in ClosureOf(Steps(p.child)))

Denoted ==
  LET pairs == { q \in Universe \X Universe :
                   Fits(subject, object, q) /\ Count(path, q[1], q[2]) > 0 }
  IN  [r \in { Binding(subject, object, q) : q \in pairs } |->
         Count(path, Value(r, subject), Value(r, object))]

(* Whether a path of length zero is only a part of the path.               *)
RECURSIVE MayBeEmpty(_)
Parts(p) ==
  CASE p.op \in {"predicate", "negated"} -> {}
    [] p.op \in {"sequence", "alternative"} -> {p.left, p.right}
    [] OTHER -> {p.child}
MayBeEmpty(p) ==
  p.op \in {"zeroOrOne", "zeroOrMore"} \/ \E part \in Parts(p) : MayBeEmpty(part)

(* A term that the graph does not hold is related to itself by the path of *)
(* length zero, but not by one that a sequence or a closure contains: the  *)
(* specification leaves the ends of that one to the terms of the graph.    *)
EndpointsKnown ==
  \/ \A part \in Parts(path) : ~MayBeEmpty(part)
  \/ {subject, object} \cap Terms \subseteq Nodes

(* The SQL for a path has the solutions that SPARQL gives the path,        *)
(* whichever endpoints are bound or are the same variable.                 *)
SolutionsMatch ==
  phase = "answered" /\ EndpointsKnown => BagToSet(answers) = BagToSet(Denoted)

(* And each of them as often as SPARQL does: once for every route of a     *)
(* sequence and every alternative, once only for ?, + and *.               *)
CardinalitiesMatch == phase = "answered" /\ EndpointsKnown => answers = Denoted

(* Two kinds of E? give a solution once for every way it is reached: the   *)
(* duplicates of E remain when both endpoints are bound, and the columns   *)
(* of its intermediate nodes tell rows apart when E holds a sequence.      *)
RECURSIVE HoldsSequence(_)
HoldsSequence(p) == p.op = "sequence" \/ \E part \in Parts(p) : HoldsSequence(part)

RECURSIVE HoldsOptionalSequence(_)
HoldsOptionalSequence(p) ==
  \/ p.op = "zeroOrOne" /\ HoldsSequence(p.child)
  \/ \E part \in Parts(p) : HoldsOptionalSequence(part)

OtherCardinalitiesMatch ==
  /\ phase = "answered" /\ EndpointsKnown
  /\ NamesOf({subject, object}) # {}
  /\ ~HoldsOptionalSequence(path)
  => answers = Denoted
=============================================================================
