--------------------------- MODULE MCPropertyPath ---------------------------
(***************************************************************************)
(* Every graph of a few triples under paths that use each operator, alone  *)
(* and inside one another.                                                 *)
(***************************************************************************)
EXTENDS PropertyPath

Link(iri)         == [op |-> "predicate", iri |-> iri]
Inverse(p)        == [op |-> "inverse", child |-> p]
Sequence(l, r)    == [op |-> "sequence", left |-> l, right |-> r]
Alternative(l, r) == [op |-> "alternative", left |-> l, right |-> r]
Negated(f, i)     == [op |-> "negated", forward |-> f, inverse |-> i]
ZeroOrOne(p)      == [op |-> "zeroOrOne", child |-> p]
OnePlus(p)        == [op |-> "oneOrMore", child |-> p]
ZeroOrMore(p)     == [op |-> "zeroOrMore", child |-> p]

P == Link("p")
Q == Link("q")

MCPredicates == {"p", "q"}

MCPaths ==
  { Sequence(P, Inverse(Q)), Sequence(Sequence(P, Q), P), Alternative(P, Inverse(Q)),
    Negated({"p"}, {}), Negated({}, {"q"}), Negated({"p"}, {"p"}),
    ZeroOrOne(Alternative(P, Q)), Inverse(ZeroOrOne(Sequence(P, Q))),
    OnePlus(Alternative(P, Inverse(Q))), ZeroOrMore(Sequence(P, Q)),
    Sequence(ZeroOrOne(P), OnePlus(Q)), OnePlus(ZeroOrOne(Inverse(P))),
    Alternative(ZeroOrMore(P), ZeroOrOne(Q)) }

OptionalPaths == { ZeroOrOne(Sequence(P, Q)) }
=============================================================================
