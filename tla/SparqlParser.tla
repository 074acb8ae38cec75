---------------------------- MODULE SparqlParser ----------------------------
(***************************************************************************)
(* The recursive-descent parser of SPARQL queries, one operator for each   *)
(* of its functions.  The parser's state is a record p: the place of the   *)
(* current token, the number of blank nodes made, base and prefixes, the   *)
(* triples of the block that is being read, whether predicates may be      *)
(* paths, and v, what the function that ended last has returned.  Place 0  *)
(* is after an error: no token is there, hence every function ends and     *)
(* leaves it so, as an exception would.                                    *)
(*                                                                         *)
(* A term, path, expression or element of a group is a tuple that begins   *)
(* with its kind; what may be missing is a sequence of at most one.        *)
(***************************************************************************)
EXTENDS SparqlLexer, TLC

CONSTANTS
  Arity,            (* of functions: the least and the largest number of arguments *)
  NoArguments,      (* functions that need none                            *)
  StartKeywords     (* the keywords that begin an expression               *)

VARIABLE tokens

NoToken == [is |-> "none", text |-> << >>, to |-> 0]

Now(p)        == IF p.at \in DOMAIN tokens THEN tokens[p.at] ELSE NoToken
Is(p, is)     == Now(p).is = is
IsIn(p, set)  == Now(p).is \in set
Give(p, v)    == [p EXCEPT !.v = v]
Fail(p)       == [p EXCEPT !.at = 0, !.v = << "none", << >>, << >>, << >> >>]
Advance(p)    == [p EXCEPT !.at = IF @ = 0 THEN 0 ELSE @ + 1]
Expect(p, is) == IF Is(p, is) THEN Advance(p) ELSE Fail(p)
Skip(p, is)   == IF Is(p, is) THEN Advance(p) ELSE p
Failed(p)     == p.at = 0

(* The productions call each other by name (Read, at the end).             *)
RECURSIVE Read(_, _)

Names    == {"Iriref", "PnameNs", "PnameLn"}
Numerals == {"Integer", "Decimal", "Double"}

-----------------------------------------------------------------------------
(* IRIs.  Relative ones are resolved against the base as far as the code   *)
(* goes: no dot segments, fragments or queries.                            *)
Place(s, c)    == CHOOSE i \in 1 .. Len(s) + 1 : (i <= Len(s) => s[i] = c) /\ \A j \in 1 .. i - 1 : s[j] # c
LastPlace(s, c) == CHOOSE i \in 0 .. Len(s) : (i > 0 => s[i] = c) /\ \A j \in i + 1 .. Len(s) : s[j] # c
SchemeEnds(s)  == { i \in 3 .. Len(s) : s[i] = "/" /\ s[i - 1] = "/" /\ s[i - 2] = ":" }

Resolve(base, ref) ==
  IF base = << >> \/ ref = << >> \/ SchemeEnds(ref) # {} \/ Place(ref, ":") < Place(ref, "/") THEN ref
  ELSE IF ref[1] = "/"
    THEN IF SchemeEnds(base) = {} THEN ref
         ELSE LET s == CHOOSE i \in SchemeEnds(base) : \A j \in SchemeEnds(base) : i <= j
              IN  SubSeq(base, 1, s + Place(SubSeq(base, s + 1, Len(base)), "/") - 1) \o ref
  ELSE IF LastPlace(base, "/") = 0 THEN base \o ref ELSE SubSeq(base, 1, LastPlace(base, "/")) \o ref

Iri(value, written) == << "iri", value, written >>
Rdf(name)           == << "rdf", ":", "/", "/", name >>
Xsd(name)           == << "xsd", ":", "/", "/", name >>

ParseIri(p) ==
  LET t      == Now(p).text
      colon  == Place(t, ":")
      prefix == SubSeq(t, 1, colon - 1)
  IN  IF Is(p, "Iriref") THEN Advance(Give(p, Iri(Resolve(p.base, t), << "<" >> \o t \o << ">" >>)))
      ELSE IF IsIn(p, Names) /\ prefix \in DOMAIN p.prefixes
        THEN Advance(Give(p, Iri(p.prefixes[prefix] \o SubSeq(t, colon + 1, Len(t)), t)))
      ELSE Fail(p)

ParseVar(p) == IF Is(p, "Var") THEN Advance(Give(p, << "var", Now(p).text >>)) ELSE Fail(p)

ParseVarOrIri(p) == IF Is(p, "Var") THEN ParseVar(p) ELSE Read("Iri", p)

(* What is declared holds from there on: a later BASE does not move        *)
(* prefixes declared before it, a later PREFIX replaces an earlier one.    *)
RECURSIVE ParsePrologue(_)
ParsePrologue(p) ==
  LET ns     == Expect(Advance(p), "PnameNs")
      iri    == Expect(ns, "Iriref")
      prefix == SubSeq(Now(Advance(p)).text, 1, Len(Now(Advance(p)).text) - 1)
  IN  CASE Is(p, "BASE") -> ParsePrologue([Expect(Advance(p), "Iriref") EXCEPT
                              !.base = Resolve(@, Now(Advance(p)).text)])
        [] Is(p, "PREFIX") -> ParsePrologue([iri EXCEPT
             !.prefixes = [x \in DOMAIN @ \cup {prefix} |->
                             IF x = prefix THEN Resolve(p.base, Now(ns).text) ELSE @[x]]])
        [] OTHER -> p

-----------------------------------------------------------------------------
(* Literals: the lexical form, the language if any, the datatype if any.   *)
Literal(form, language, datatype) == << "lit", form, language, datatype >>

DatatypeOf(is) ==
  Xsd(CASE is = "Integer" -> "integer" [] is = "Decimal" -> "decimal" [] OTHER -> "double")

ParseRdfLiteral(p) ==
  LET s == Expect(p, "String")
      t == Read("Iri", Advance(s))
  IN  IF Is(s, "LangTag") THEN Advance(Give(s, Literal(Now(p).text, << Now(s).text >>, << >>)))
      ELSE IF Is(s, "^") /\ Now(s).text = << "^", "^" >> THEN Give(t, Literal(Now(p).text, << >>, << t.v[2] >>))
      ELSE Give(s, Literal(Now(p).text, << >>, << >>))

ParseNumericLiteral(p) == Advance(Give(p, Literal(Now(p).text, << >>, << DatatypeOf(Now(p).is) >>)))

ParseBooleanLiteral(p) ==
  Advance(Give(p, Literal(<< IF Is(p, "TRUE") THEN "true" ELSE "false" >>, << >>, << Xsd("boolean") >>)))

IsLiteral(p) == IsIn(p, Numerals \cup {"String", "TRUE", "FALSE"})

ParseLiteral(p) ==
  IF Is(p, "String") THEN ParseRdfLiteral(p)
  ELSE IF IsIn(p, Numerals) THEN ParseNumericLiteral(p)
  ELSE ParseBooleanLiteral(p)

-----------------------------------------------------------------------------
(* Property paths, from the loosest operator to the tightest.              *)

ParsePathIri(p) == IF Is(p, "A") THEN Advance(Give(p, Iri(Rdf("type"), << "a" >>))) ELSE Read("Iri", p)

RECURSIVE NegatedSetFrom(_)
NegatedSetFrom(p) ==
  LET i == Read("PathIri", Skip(p, "^"))
      n == Give(i, IF Is(p, "^") THEN << p.v[1], Append(p.v[2], i.v) >> ELSE << Append(p.v[1], i.v), p.v[2] >>)
  IN  IF Is(n, "|") THEN NegatedSetFrom(Advance(n)) ELSE n

ParseNegatedSet(p) ==
  LET empty == << << >>, << >> >>
      i     == Read("PathIri", Skip(p, "^"))
      n     == NegatedSetFrom(Give(Advance(p), empty))
  IN  IF ~Is(p, "(") THEN Give(i, << "!set", IF Is(p, "^") THEN << >> ELSE << i.v >>, IF Is(p, "^") THEN << i.v >> ELSE << >> >>)
      ELSE Give(Expect(n, ")"), << "!set", n.v[1], n.v[2] >>)

ParsePathPrimary(p) ==
  IF Is(p, "!") THEN ParseNegatedSet(Advance(p))
  ELSE IF Is(p, "(") THEN Expect(Read("Path", Advance(p)), ")")
  ELSE LET i == Read("PathIri", p) IN Give(i, << "pred", i.v >>)

(* One modifier at most.                                                   *)
ParsePathElt(p) ==
  LET e == ParsePathPrimary(p)
  IN  IF IsIn(e, {"?", "*", "+"}) THEN Advance(Give(e, << Now(e).is, e.v >>)) ELSE e

ParsePathEltOrInverse(p) ==
  IF Is(p, "^") THEN LET e == Read("PathElt", Advance(p)) IN Give(e, << "^", e.v >>) ELSE Read("PathElt", p)

RECURSIVE SequenceFrom(_), AlternativeFrom(_)
SequenceFrom(p) ==
  LET r == Read("PathEltOrInverse", Advance(p))
  IN  IF Is(p, "/") THEN SequenceFrom(Give(r, << "/", p.v, r.v >>)) ELSE p

ParsePathSequence(p) == SequenceFrom(Read("PathEltOrInverse", p))

AlternativeFrom(p) ==
  LET r == Read("PathSequence", Advance(p))
  IN  IF Is(p, "|") THEN AlternativeFrom(Give(r, << "|", p.v, r.v >>)) ELSE p

ParsePath(p) == AlternativeFrom(Read("PathSequence", p))

-----------------------------------------------------------------------------
(* Expressions.                                                            *)

(* Further expressions, each after a comma, up to a number of them.        *)
NoLimit == 99
RECURSIVE ExpressionsFrom(_, _)
ExpressionsFrom(p, max) ==
  LET e == Read("Expression", Advance(p))
  IN  IF Is(p, ",") /\ Len(p.v) < max THEN ExpressionsFrom(Give(e, Append(p.v, e.v)), max) ELSE p

Expressions(p, max) == LET e == Read("Expression", p) IN ExpressionsFrom(Give(e, << e.v >>), max)

ParseExpressionList(p) ==
  IF Is(p, "Nil") THEN Advance(Give(p, << >>)) ELSE Expect(Expressions(Expect(p, "("), NoLimit), ")")

ParseIriOrFunctionCall(p) ==
  LET i == Read("Iri", p)
      d == Is(Advance(i), "DISTINCT")
      b == Skip(Advance(i), "DISTINCT")
      a == IF Is(b, ")") THEN Give(b, << >>) ELSE Expressions(b, NoLimit)
  IN  IF Is(i, "Nil") THEN Advance(Give(i, << "call", i.v, FALSE, << >> >>))
      ELSE IF Is(i, "(") THEN Give(Expect(a, ")"), << "call", i.v, d, a.v >>)
      ELSE i

Aggregates == {"COUNT", "SUM", "GROUP_CONCAT"}

ParseAggregate(p) ==
  LET kind == Now(p).is
      open == Expect(Advance(p), "(")
      d    == Skip(open, "DISTINCT")
      star == kind = "COUNT" /\ Is(d, "*")
      e    == IF star THEN Advance(Give(d, << "star" >>)) ELSE Read("Expression", d)
      s    == Expect(Expect(Advance(e), "SEPARATOR"), "=")
      sep  == kind = "GROUP_CONCAT" /\ Is(e, ";")
      Agg(separator) == << "agg", kind, Is(open, "DISTINCT"), e.v, separator >>
  IN  IF sep THEN Give(Expect(Expect(s, "String"), ")"), Agg(<< Now(s).text >>)) ELSE Give(Expect(e, ")"), Agg(<< >>))

ParseExists(p) ==
  LET g == Read("GroupGraphPattern", IF Is(p, "NOT") THEN Expect(Advance(p), "EXISTS") ELSE Advance(p))
  IN  Give(g, << "exists", Is(p, "NOT"), g.v >>)

(* parseBuiltinArgsN: as many arguments as the function may have; IF has   *)
(* exactly three, BOUND a variable.                                        *)
ParseBuiltin(p) ==
  LET fn   == Now(p).is
      open == Expect(Advance(p), "(")
      a    == Expect(Expressions(open, Arity[fn][2]), ")")
      v    == Expect(ParseVar(open), ")")
  IN  IF fn = "BOUND" THEN Give(v, << "builtin", fn, << v.v >> >>)
      ELSE IF Failed(a) \/ Len(a.v) < Arity[fn][1] THEN Fail(a)
      ELSE Give(a, << "builtin", fn, a.v >>)

ParseBuiltInCallOrAggregateOrExists(p) ==
  LET fn == Now(p).is
      l  == ParseExpressionList(Advance(p))
  IN  CASE fn \in Aggregates -> ParseAggregate(p)
        [] fn \in {"NOT", "EXISTS"} -> ParseExists(p)
        [] fn \in {"COALESCE", "CONCAT"} -> Give(l, << "builtin", fn, l.v >>)
        [] fn = "BNODE" /\ Is(Advance(p), "Nil") -> Advance(Advance(Give(p, << "builtin", fn, << >> >>)))
        [] fn \in NoArguments -> Skip(Advance(Give(p, << "builtin", fn, << >> >>)), "Nil")
        [] fn \in DOMAIN Arity -> ParseBuiltin(p)
        [] OTHER -> Fail(p)

ParsePrimaryExpression(p) ==
  IF Is(p, "(") THEN Expect(Read("Expression", Advance(p)), ")")
  ELSE IF Is(p, "Var") THEN ParseVar(p)
  ELSE IF IsLiteral(p) THEN ParseLiteral(p)
  ELSE IF IsIn(p, Names) THEN Read("IriOrFunctionCall", p)
  ELSE Read("BuiltInCallOrAggregateOrExists", p)

Sign == [s \in {"!", "+", "-"} |-> CASE s = "!" -> "not" [] s = "+" -> "plus" [] s = "-" -> "minus"]

ParseUnaryExpression(p) ==
  LET e == Read("PrimaryExpression", Advance(p))
  IN  IF IsIn(p, DOMAIN Sign) THEN Give(e, << Sign[Now(p).is], e.v >>) ELSE Read("PrimaryExpression", p)

RECURSIVE ContinueMultiplicativeFrom(_), AdditiveFrom(_), AdditiveFromShort(_), AndFrom(_), OrFrom(_)
ContinueMultiplicativeFrom(p) ==
  LET r == ParseUnaryExpression(Advance(p))
  IN  IF IsIn(p, {"*", "/"}) THEN ContinueMultiplicativeFrom(Give(r, << Now(p).is, p.v, r.v >>)) ELSE p

ParseMultiplicativeExpression(p) == ContinueMultiplicativeFrom(ParseUnaryExpression(p))

(* A numeral with a sign that follows an operand is an operator and the    *)
(* numeral, and products go on behind it.                                  *)
SignOf(p) == IF IsIn(p, Numerals) /\ Now(p).text[1] \in {"+", "-"} THEN Now(p).text[1] ELSE "none"

Unsigned(p) == Literal(Tail(Now(p).text), << >>, << DatatypeOf(Now(p).is) >>)

AdditiveFromShort(p) ==   \* variant: a product behind a signed numeral is applied last
  LET r == Read("MultiplicativeExpression", Advance(p))
  IN  IF IsIn(p, {"+", "-"}) THEN AdditiveFromShort(Give(r, << Now(p).is, p.v, r.v >>))
      ELSE IF SignOf(p) # "none"
        THEN AdditiveFromShort(ContinueMultiplicativeFrom(Give(Advance(p), << SignOf(p), p.v, Unsigned(p) >>)))
      ELSE p

AdditiveFrom(p) ==
  LET r == Read("MultiplicativeExpression", Advance(p))
      n == ContinueMultiplicativeFrom(Advance(Give(p, Unsigned(p))))
  IN  IF IsIn(p, {"+", "-"}) THEN AdditiveFrom(Give(r, << Now(p).is, p.v, r.v >>))
      ELSE IF SignOf(p) # "none" THEN AdditiveFrom(Give(n, << SignOf(p), p.v, n.v >>))
      ELSE p

ParseAdditiveExpression(p) == AdditiveFrom(Read("MultiplicativeExpression", p))

Comparisons == {"=", "!=", "<", ">", "<=", ">="}

(* One comparison at most.                                                 *)
ParseRelationalExpression(p) ==
  LET l    == Read("AdditiveExpression", p)
      r    == Read("AdditiveExpression", Advance(l))
      list == ParseExpressionList(IF Is(l, "NOT") THEN Expect(Advance(l), "IN") ELSE Advance(l))
  IN  IF IsIn(l, Comparisons) THEN Give(r, << Now(l).is, l.v, r.v >>)
      ELSE IF IsIn(l, {"IN", "NOT"}) THEN Give(list, << IF Is(l, "IN") THEN "in" ELSE "not in", l.v, list.v >>)
      ELSE l

AndFrom(p) ==
  LET r == Read("RelationalExpression", Advance(p))
  IN  IF Is(p, "&&") THEN AndFrom(Give(r, << "&&", p.v, r.v >>)) ELSE p

ParseConditionalAndExpression(p) == AndFrom(Read("RelationalExpression", p))

OrFrom(p) ==
  LET r == ParseConditionalAndExpression(Advance(p))
  IN  IF Is(p, "||") THEN OrFrom(Give(r, << "||", p.v, r.v >>)) ELSE p

ParseExpression(p) == OrFrom(ParseConditionalAndExpression(p))

StartsExpression(p) == IsIn(p, Names \cup Numerals \cup {"Var", "(", "String", "!", "+", "-"} \cup StartKeywords)

-----------------------------------------------------------------------------
(* Triples.  Lists and brackets become triples about blank nodes.          *)
BlankNode(label, anonymous) == << "bnode", label, anonymous >>

Generated(n) == << "__gen", ToString(n) >>

Fresh(p) == [p EXCEPT !.gen = @ + 1, !.v = BlankNode(Generated(p.gen), TRUE)]   \* freshBlankNodeLabel

StartsTriplesNode(p) == IsIn(p, {"(", "Nil", "[", "Anon"})

StartsTriple(p) ==
  \/ IsIn(p, Names \cup {"Var", "A", "BlankNodeLabel"}) \/ StartsTriplesNode(p) \/ IsLiteral(p)

StartsVerb(p) ==
  \/ IsIn(p, Names \cup {"A", "Var"})
  \/ p.paths /\ IsIn(p, {"^", "!", "("})

ParseGraphTerm(p) ==
  CASE IsIn(p, Names) -> Read("Iri", p)
    [] IsLiteral(p) -> ParseLiteral(p)
    [] Is(p, "BlankNodeLabel") -> Advance(Give(p, BlankNode(Now(p).text, FALSE)))
    [] Is(p, "Anon") -> Advance(Fresh(p))
    [] Is(p, "Nil") -> Advance(Give(p, Iri(Rdf("nil"), << "(", ")" >>)))
    [] OTHER -> Fail(p)

ParseVarOrTerm(p) == IF Is(p, "Var") THEN ParseVar(p) ELSE ParseGraphTerm(p)

ParsePredicate(p) ==
  LET simple == Read("PathIri", p)
      v      == ParseVar(p)
  IN  IF Is(p, "Var") THEN Give(v, << "var", v.v[2] >>)
      ELSE IF p.paths THEN Read("Path", p)
      ELSE Give(simple, << "pred", simple.v >>)

RECURSIVE ParseObjectList(_, _, _), PropertiesFrom(_, _), NodesFrom(_)

(* A triple comes after the triples that its object needs.                 *)
ParseObjectList(p, subject, predicate) ==
  LET o == Read("GraphNode", p)
      q == [o EXCEPT !.out = Append(@, << subject, predicate, o.v >>)]
  IN  IF Is(q, ",") THEN ParseObjectList(Advance(q), subject, predicate) ELSE q

ParsePropertyListNotEmpty(p, subject) ==
  LET verb == ParsePredicate(p)
  IN  PropertiesFrom(ParseObjectList(verb, subject, verb.v), subject)

(* Semicolons may follow each other, and the last one need not be followed *)
(* by anything.                                                            *)
PropertiesFrom(p, subject) ==
  IF ~Is(p, ";") THEN p
  ELSE IF StartsVerb(Advance(p)) THEN ParsePropertyListNotEmpty(Advance(p), subject)
  ELSE PropertiesFrom(Advance(p), subject)

(* The members of a list up to the bracket.                                *)
NodesFrom(p) ==
  LET n == Read("GraphNode", p)
      q == Give(n, Append(p.v, n.v))
  IN  IF Failed(n) \/ Is(n, ")") THEN q ELSE NodesFrom(q)

Pred(name) == << "pred", Iri(Rdf(name), << "rdf", ":", name >>) >>

ChainOf(members, from) ==
  LET Cell(i) == BlankNode(Generated(from + i - 1), TRUE)
      n       == Len(members)
  IN  [k \in 1 .. 2 * n |->
         LET i == (k + 1) \div 2
         IN  IF k % 2 = 1 THEN << Cell(i), Pred("first"), members[i] >>
             ELSE << Cell(i), Pred("rest"), IF i = n THEN Iri(Rdf("nil"), << "rdf", ":", "nil" >>) ELSE Cell(i + 1) >>]

ParseCollection(p) ==
  LET m == NodesFrom(Give(Expect(p, "("), << >>))
  IN  IF Is(p, "Nil") THEN ParseGraphTerm(p)
      ELSE [Expect(m, ")") EXCEPT !.gen = @ + Len(m.v),
                                  !.out = @ \o ChainOf(m.v, m.gen),
                                  !.v = BlankNode(Generated(m.gen), TRUE)]

ParseBlankNodePropertyList(p) ==
  LET b == Fresh(Expect(p, "["))
      l == Expect(ParsePropertyListNotEmpty(b, b.v), "]")
  IN  IF Is(p, "Anon") THEN Advance(Fresh(p)) ELSE Give(l, b.v)

ParseTriplesNode(p) ==
  IF IsIn(p, {"[", "Anon"}) THEN ParseBlankNodePropertyList(p) ELSE ParseCollection(p)

ParseGraphNode(p) == IF StartsTriplesNode(p) THEN ParseTriplesNode(p) ELSE ParseVarOrTerm(p)

(* A list or bracket that begins a triple need not have properties.        *)
ParseTriplesSameSubject(p) ==
  LET s == Read("GraphNode", p)
  IN  IF StartsTriplesNode(p) /\ ~StartsVerb(s) THEN s ELSE ParsePropertyListNotEmpty(s, s.v)

(* After a dot a block may end; a template ends before its brace.          *)
Ends(p) == IF p.paths THEN ~StartsTriple(p) ELSE IsIn(p, {"}", "Eof"})

RECURSIVE TriplesFrom(_)
TriplesFrom(p) ==
  LET q == Read("TriplesSameSubject", p)
  IN  IF ~Is(q, ".") THEN q ELSE IF Ends(Advance(q)) THEN Advance(q) ELSE TriplesFrom(Advance(q))

(* The triples of one block, with or without paths.                        *)
ParseTriples(p, paths) ==
  LET q == TriplesFrom([p EXCEPT !.out = << >>, !.paths = paths])
  IN  [q EXCEPT !.v = q.out, !.out = p.out, !.paths = p.paths]

-----------------------------------------------------------------------------
(* Graph patterns.                                                         *)
StartsGraphPatternNotTriples(p) ==
  IsIn(p, {"{", "OPTIONAL", "MINUS", "GRAPH", "SERVICE", "FILTER", "BIND", "VALUES"})

ParseTriplesBlock(p) == LET t == ParseTriples(p, TRUE) IN Give(t, << "bgp", t.v >>)

RECURSIVE BranchesFrom(_)
BranchesFrom(p) ==
  LET g == Read("GroupGraphPattern", Advance(p))
  IN  IF Is(p, "UNION") THEN BranchesFrom(Give(g, Append(p.v, g.v))) ELSE p

ParseGroupOrUnionGraphPattern(p) ==
  LET first == Read("GroupGraphPattern", p)
      all   == BranchesFrom(Give(first, << first.v >>))
  IN  IF Is(first, "UNION") THEN Give(all, << "UNION", all.v >>) ELSE first

ParseGraphOrService(p) ==
  LET name == ParseVarOrIri(Skip(Advance(p), "SILENT"))
      g    == Read("GroupGraphPattern", name)
  IN  IF Is(p, "GRAPH") /\ Is(Advance(p), "SILENT") THEN Fail(p)
      ELSE Give(g, << Now(p).is, Is(Advance(p), "SILENT"), name.v, g.v >>)

ParseBind(p) ==
  LET e == Read("Expression", Expect(Advance(p), "("))
      v == ParseVar(Expect(e, "AS"))
  IN  Give(Expect(v, ")"), << "BIND", e.v, v.v >>)

(* UNDEF is no value.                                                      *)
ParseDataBlockValue(p) ==
  LET v == IF IsIn(p, Names) THEN Read("Iri", p) ELSE IF IsLiteral(p) THEN ParseLiteral(p) ELSE Fail(p)
  IN  IF Is(p, "UNDEF") THEN Advance(Give(p, << >>)) ELSE Give(v, << v.v >>)

RECURSIVE ValuesFrom(_), VarsFrom(_), RowsFrom(_, _)
ValuesFrom(p) ==
  LET d == Read("DataBlockValue", p)
  IN  IF IsIn(p, {")", "}"}) \/ Failed(p) THEN p ELSE ValuesFrom(Give(d, Append(p.v, d.v)))

VarsFrom(p) ==
  LET v == ParseVar(p)
  IN  IF Is(p, "Var") THEN VarsFrom(Give(v, Append(p.v, v.v))) ELSE p

(* A row has as many values as there are variables.                        *)
RowsFrom(p, width) ==
  LET row == IF Is(p, "Nil") THEN Advance(Give(p, << >>)) ELSE Expect(ValuesFrom(Give(Expect(p, "("), << >>)), ")")
  IN  IF Is(p, "}") \/ Failed(p) THEN p
      ELSE IF Failed(row) \/ Len(row.v) # width THEN Fail(p)
      ELSE RowsFrom(Give(row, Append(p.v, row.v)), width)

ParseInlineDataOneVar(p) ==
  LET v == ParseVar(p)
      d == ValuesFrom(Give(Expect(v, "{"), << >>))
  IN  Give(Expect(d, "}"), << "VALUES", << v.v >>, [i \in DOMAIN d.v |-> << d.v[i] >>] >>)

ParseInlineDataFull(p) ==
  LET v == IF Is(p, "Nil") THEN Advance(Give(p, << >>)) ELSE Expect(VarsFrom(Give(Expect(p, "("), << >>)), ")")
      r == RowsFrom(Give(Expect(v, "{"), << >>), Len(v.v))
  IN  Give(Expect(r, "}"), << "VALUES", v.v, r.v >>)

ParseInlineData(p) ==
  IF Is(Advance(p), "Var") THEN ParseInlineDataOneVar(Advance(p)) ELSE ParseInlineDataFull(Advance(p))

(* A filter takes no more than a primary expression.                       *)
ParseFilter(p) == LET e == Read("PrimaryExpression", Advance(p)) IN Give(e, << "FILTER", e.v >>)

ParseGraphPatternNotTriples(p) ==
  LET g == Read("GroupGraphPattern", Advance(p))
  IN  CASE Is(p, "{") -> ParseGroupOrUnionGraphPattern(p)
        [] IsIn(p, {"OPTIONAL", "MINUS"}) -> Give(g, << Now(p).is, g.v >>)
        [] IsIn(p, {"GRAPH", "SERVICE"}) -> ParseGraphOrService(p)
        [] Is(p, "FILTER") -> ParseFilter(p)
        [] Is(p, "BIND") -> ParseBind(p)
        [] Is(p, "VALUES") -> Read("InlineData", p)

RECURSIVE ElementsFrom(_)
ElementsFrom(p) ==
  LET e == ParseGraphPatternNotTriples(p)
      d == Skip(e, ".")
      t == Read("TriplesBlock", d)
  IN  IF ~StartsGraphPatternNotTriples(p) THEN p
      ELSE IF StartsTriple(d) THEN ElementsFrom(Give(t, p.v \o << e.v, t.v >>))
      ELSE ElementsFrom(Give(d, Append(p.v, e.v)))

ParseGroupGraphPatternSub(p) ==
  LET t == Read("TriplesBlock", p)
  IN  ElementsFrom(IF StartsTriple(p) THEN Give(t, << t.v >>) ELSE Give(p, << >>))

ParseGroupGraphPattern(p) ==
  LET b == Expect(p, "{")
      q == Read("SubSelect", b)
      g == IF Is(b, "SELECT") THEN Give(q, << << "select", q.v >> >>) ELSE Read("GroupGraphPatternSub", b)
  IN  Give(Expect(g, "}"), << "group", g.v >>)

-----------------------------------------------------------------------------
(* Solution modifiers.                                                     *)
RECURSIVE GroupConditionsFrom(_), HavingFrom(_), OrderFrom(_), LimitsFrom(_)

ParseGroupCondition(p) ==
  LET e == Read("Expression", Advance(p))
      v == ParseVar(Advance(e))
      c == IF Is(p, "Var") THEN ParseVar(p)
           ELSE IF IsIn(p, Names) THEN Read("IriOrFunctionCall", p)
           ELSE Read("BuiltInCallOrAggregateOrExists", p)
  IN  IF ~Is(p, "(") THEN Give(c, << c.v, << >> >>)
      ELSE IF Is(e, "AS") THEN Give(Expect(v, ")"), << e.v, << v.v >> >>)
      ELSE Give(Expect(e, ")"), << e.v, << >> >>)

(* Conditions follow each other for as long as something begins one.       *)
GroupConditionsFrom(p) ==
  LET c == Read("GroupCondition", p)
      q == Give(c, Append(p.v, c.v))
  IN  IF StartsExpression(c) THEN GroupConditionsFrom(q) ELSE q

HavingFrom(p) ==
  LET e == Read("Expression", p)
      q == Give(e, Append(p.v, e.v))
  IN  IF StartsExpression(e) THEN HavingFrom(q) ELSE q

ParseOrderCondition(p) ==
  LET dir == IsIn(p, {"ASC", "DESC"})
      e   == IF dir THEN Expect(Read("Expression", Expect(Advance(p), "(")), ")")
             ELSE IF Is(p, "Var") THEN ParseVar(p) ELSE Read("Expression", p)
  IN  Give(e, << IF Is(p, "DESC") THEN "DESC" ELSE "ASC", e.v >>)

OrderFrom(p) ==
  LET c == Read("OrderCondition", p)
      q == Give(c, Append(p.v, c.v))
  IN  IF StartsExpression(c) \/ IsIn(c, {"ASC", "DESC"}) THEN OrderFrom(q) ELSE q

(* LIMIT and OFFSET in any order; the last of each counts.                 *)
LimitsFrom(p) ==
  LET n == Expect(Advance(p), "Integer")
      t == << Now(Advance(p)).text >>
  IN  IF Is(p, "LIMIT") THEN LimitsFrom(Give(n, << t, p.v[2] >>))
      ELSE IF Is(p, "OFFSET") THEN LimitsFrom(Give(n, << p.v[1], t >>))
      ELSE p

ParseSolutionModifier(p) ==
  LET none == Give(p, << >>)
      g == IF Is(p, "GROUP") THEN GroupConditionsFrom(Expect(Advance(none), "BY")) ELSE none
      h == IF Is(g, "HAVING") THEN HavingFrom(Advance(Give(g, << >>))) ELSE Give(g, << >>)
      o == IF Is(h, "ORDER") THEN OrderFrom(Expect(Advance(Give(h, << >>)), "BY")) ELSE Give(h, << >>)
      l == LimitsFrom(Give(o, << << >>, << >> >>))
  IN  Give(l, [group |-> g.v, having |-> h.v, order |-> o.v, limit |-> l.v[1], offset |-> l.v[2]])

ParseValuesClauseOptional(p) ==
  LET d == Read("InlineData", p) IN IF Is(p, "VALUES") THEN Give(d, << d.v >>) ELSE Give(p, << >>)

-----------------------------------------------------------------------------
(* Queries.                                                                *)
NoModifier == [group |-> << >>, having |-> << >>, order |-> << >>, limit |-> << >>, offset |-> << >>]

NoQuery == [form |-> "", quantifier |-> "", star |-> FALSE, items |-> << >>, template |-> << >>, targets |-> << >>,
            from |-> << >>, where |-> << >>, modifier |-> NoModifier, values |-> << >>]

RECURSIVE SelectItemsFrom(_), DatasetFrom(_), TargetsFrom(_)
SelectItemsFrom(p) ==
  LET e == Read("Expression", Advance(p))
      a == ParseVar(Expect(e, "AS"))
      v == ParseVar(p)
      q == IF Is(p, "(") THEN Give(Expect(a, ")"), Append(p.v, << a.v, << e.v >> >>))
           ELSE Give(v, Append(p.v, << v.v, << >> >>))
  IN  IF IsIn(q, {"Var", "("}) THEN SelectItemsFrom(q) ELSE q

ParseSelectClause(p) ==
  LET d == Expect(p, "SELECT")
      s == IF IsIn(d, {"DISTINCT", "REDUCED"}) THEN Advance(d) ELSE d
      i == IF Is(s, "*") THEN Advance(Give(s, << >>)) ELSE SelectItemsFrom(Give(s, << >>))
  IN  Give(i, [NoQuery EXCEPT !.form = "SELECT", !.star = Is(s, "*"), !.items = i.v,
                              !.quantifier = IF IsIn(d, {"DISTINCT", "REDUCED"}) THEN Now(d).is ELSE ""])

DatasetFrom(p) ==
  LET i == Read("Iri", Skip(Advance(p), "NAMED"))
  IN  IF Is(p, "FROM") THEN DatasetFrom(Give(i, Append(p.v, << Is(Advance(p), "NAMED"), i.v >>))) ELSE p

TargetsFrom(p) ==
  LET t == ParseVarOrIri(p)
      q == Give(t, Append(p.v, t.v))
  IN  IF IsIn(t, Names \cup {"Var"}) THEN TargetsFrom(q) ELSE q

(* What follows the head of a query: where it may come from, the pattern,  *)
(* if there must be one or there is one, and the modifiers.                *)
ParseRest(p, query, needed) ==
  LET f == DatasetFrom(Give(p, << >>))
      w == Read("GroupGraphPattern", Skip(f, "WHERE"))
      has == needed \/ IsIn(f, {"WHERE", "{"})
      m == Read("SolutionModifier", IF has THEN w ELSE f)
  IN  Give(m, [query EXCEPT !.from = f.v, !.where = IF has THEN << w.v >> ELSE << >>, !.modifier = m.v])

(* CONSTRUCT WHERE: the template is the pattern.  Datasets come after it.  *)
ParseConstruct(p) ==
  LET open   == Expect(IF Is(p, "WHERE") THEN Advance(p) ELSE p, "{")
      t      == Expect(IF Is(open, "}") THEN Give(open, << >>) ELSE ParseTriples(open, FALSE), "}")
      query  == [NoQuery EXCEPT !.form = "CONSTRUCT", !.template = t.v]
      f      == DatasetFrom(Give(t, << >>))
      m      == Read("SolutionModifier", f)
  IN  IF Is(p, "WHERE")
        THEN Give(m, [query EXCEPT !.where = << << "group", << << "bgp", t.v >> >> >> >>, !.from = f.v, !.modifier = m.v])
        ELSE ParseRest(t, query, TRUE)

ParseSelectQuery(s) == ParseRest(s, s.v, TRUE)

ParseDescribe(p) ==
  LET t == IF Is(p, "*") THEN Advance(Give(p, << >>)) ELSE TargetsFrom(Give(p, << >>))
  IN  ParseRest(t, [NoQuery EXCEPT !.form = "DESCRIBE", !.star = Is(p, "*"), !.targets = t.v], FALSE)

ParseSubSelect(p) ==
  LET s == Read("SelectClause", p)
      w == Read("GroupGraphPattern", Skip(s, "WHERE"))
      m == Read("SolutionModifier", w)
      d == ParseValuesClauseOptional(m)
  IN  Give(d, [s.v EXCEPT !.where = << w.v >>, !.modifier = m.v, !.values = d.v])

StartAt(i) == [at |-> i, gen |-> 0, v |-> << >>, out |-> << >>, paths |-> TRUE, base |-> << >>, prefixes |-> << >>]

EndEarly(p) == p   \* variant: what follows the query is not looked at

End(p) == IF Is(p, "Eof") THEN p ELSE Fail(p)

ParseForm(p) ==
  CASE Is(p, "SELECT") -> ParseSelectQuery(Read("SelectClause", p))
    [] Is(p, "CONSTRUCT") -> ParseConstruct(Advance(p))
    [] Is(p, "DESCRIBE") -> ParseDescribe(Advance(p))
    [] Is(p, "ASK") -> ParseRest(Advance(p), [NoQuery EXCEPT !.form = "ASK"], TRUE)
    [] OTHER -> Fail(p)

WithValues(q) ==
  LET d == ParseValuesClauseOptional(q)
  IN  IF Failed(q) THEN q ELSE Give(d, [q.v EXCEPT !.values = d.v])

(* The query that begins at a state: parseString begins at the first token. *)
ParseQuery(start) == End(WithValues(ParseForm(ParsePrologue(start))))

Read(production, p) ==
  CASE production = "Path" -> ParsePath(p)
    [] production = "IriOrFunctionCall" -> ParseIriOrFunctionCall(p)
    [] production = "BuiltInCallOrAggregateOrExists" -> ParseBuiltInCallOrAggregateOrExists(p)
    [] production = "PrimaryExpression" -> ParsePrimaryExpression(p)
    [] production = "MultiplicativeExpression" -> ParseMultiplicativeExpression(p)
    [] production = "AdditiveExpression" -> ParseAdditiveExpression(p)
    [] production = "RelationalExpression" -> ParseRelationalExpression(p)
    [] production = "PathSequence" -> ParsePathSequence(p)
  [] production = "PathEltOrInverse" -> ParsePathEltOrInverse(p)
  [] production = "PathElt" -> ParsePathElt(p)
  [] production = "TriplesSameSubject" -> ParseTriplesSameSubject(p)
  [] production = "TriplesBlock" -> ParseTriplesBlock(p)
  [] production = "DataBlockValue" -> ParseDataBlockValue(p)
  [] production = "Iri" -> ParseIri(p)
  [] production = "GroupCondition" -> ParseGroupCondition(p)
  [] production = "OrderCondition" -> ParseOrderCondition(p)
  [] production = "SelectClause" -> ParseSelectClause(p)
  [] production = "PathIri" -> ParsePathIri(p)
  [] production = "GroupGraphPatternSub" -> ParseGroupGraphPatternSub(p)
  [] production = "Expression" -> ParseExpression(p)
    [] production = "GraphNode" -> ParseGraphNode(p)
    [] production = "InlineData" -> ParseInlineData(p)
    [] production = "GroupGraphPattern" -> ParseGroupGraphPattern(p)
    [] production = "SolutionModifier" -> ParseSolutionModifier(p)
    [] production = "SubSelect" -> ParseSubSelect(p)
    [] production = "Query" -> ParseQuery(p)
=============================================================================
