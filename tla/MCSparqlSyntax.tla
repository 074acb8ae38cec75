--------------------------- MODULE MCSparqlSyntax ---------------------------
(***************************************************************************)
(* Every operator of expressions and paths below every other on either     *)
(* side, lists and brackets within each other, and queries of all forms    *)
(* that reach every clause.                                                *)
(***************************************************************************)
EXTENDS SparqlSyntax

MCKeywords ==
  { "SELECT", "ASK", "CONSTRUCT", "DESCRIBE", "WHERE", "FROM", "NAMED", "DISTINCT", "REDUCED", "BASE", "PREFIX",
    "OPTIONAL", "MINUS", "UNION", "GRAPH", "SERVICE", "SILENT", "FILTER", "BIND", "AS", "VALUES", "UNDEF",
    "GROUP", "BY", "HAVING", "ORDER", "ASC", "DESC", "LIMIT", "OFFSET", "IN", "NOT", "EXISTS", "TRUE", "FALSE",
    "COUNT", "SUM", "GROUP_CONCAT", "SEPARATOR", "BOUND", "IF", "CONCAT", "COALESCE", "BNODE", "RAND", "REGEX", "STR" }
MCLetters == MCKeywords \cup { "a", "e", "n", "x", "y", "z", "o", "s", "p", "q", "r", "http", "h", "xsd", "integer", "decimal",
  "double", "boolean", "rdf", "type", "first", "rest", "nil", "true", "false", "en", "__gen" }
MCDigits         == {"0", "1", "2", "7"}
MCNameCharacters == MCLetters \cup MCDigits \cup {"_"}

MCArity ==
  [fn \in {"BOUND", "STR", "BNODE"} |-> << 1, 1 >>] @@ [fn \in {"IF"} |-> << 3, 3 >>] @@ [fn \in {"REGEX"} |-> << 2, 3 >>]
MCNoArguments   == {"RAND"}
MCStartKeywords ==
  {"TRUE", "FALSE", "COUNT", "SUM", "GROUP_CONCAT", "NOT", "EXISTS", "BOUND", "IF", "COALESCE", "CONCAT", "BNODE", "RAND", "STR", "REGEX"}

-----------------------------------------------------------------------------
V(x)   == << "var", << x >> >>
I(x)   == << "iri", << x >>, << "<", x, ">" >> >>
P(x)   == << "pred", I(x) >>
N(t, d) == << "lit", t, << >>, << << "xsd", ":", "/", "/", d >> >> >>
S(t)   == << "lit", t, << >>, << >> >>
Yes    == N(<< "true" >>, "boolean")
G(es)  == << "group", es >>
Bgp(t) == << "bgp", << t >> >>
SomeTriple    == Bgp(<< V("s"), P("p"), V("o") >>)
Ask(e) == [NoQuery EXCEPT !.form = "ASK", !.where = << G(<< e >>) >>]
Select == [NoQuery EXCEPT !.form = "SELECT", !.star = TRUE, !.where = << G(<< SomeTriple >>) >>]
Source(shown, query) == [shown |-> shown, prologue |-> << >>, query |-> query]

X == V("x")
Y == V("y")
One == N(<< "1" >>, "integer")

Around(a, b) ==
  { << op, a, b >> : op \in {"||", "&&", "=", "<", "<=", "+", "-", "*", "/"} }
    \cup { << op, a >> : op \in {"not", "plus", "minus"} }
    \cup { << "in", a, << b, One >> >>, << "not in", a, << >> >>, << "builtin", "REGEX", << a, b >> >>, << "call", I("p"), TRUE, << b, a >> >> }

Inner == Around(X, One) \cup Around(One, X) \cup { N(<< "-", "1" >>, "integer"), N(<< "+", "1", ".", "2" >>, "decimal") }

MoreSamples ==
  { S(<< "x", "\"" >>), S(<< "x", "\\", "n" >>), S(<< "x", "\n", "\"" >>), << "lit", << "x" >>, << << "en" >> >>, << >> >>,
    << "lit", << "x" >>, << >>, << << "q" >> >> >>, N(<< "1", "e", "-", "7" >>, "double"), Yes,
    << "builtin", "BOUND", << X >> >>, << "builtin", "IF", << X, Y, Yes >> >>, << "builtin", "CONCAT", << >> >>, << "builtin", "RAND", << >> >>,
    << "builtin", "BNODE", << >> >>, << "builtin", "BNODE", << S(<< >>) >> >>, << "builtin", "COALESCE", << X, << "-", One, One >> >> >>,
    << "agg", "COUNT", TRUE, << "star" >>, << >> >>, << "agg", "SUM", FALSE, << "+", X, One >>, << >> >>,
    << "agg", "GROUP_CONCAT", TRUE, X, << << ";" >> >> >>, << "exists", TRUE, G(<< SomeTriple >>) >>, << "exists", FALSE, G(<< >>) >>,
    << "&&", << "exists", TRUE, G(<< SomeTriple >>) >>, X >>, << "iri", << "p" >>, << "<", "p", ">" >> >> }

ExpressionSamples == (UNION { Around(e, Y) \cup Around(Y, e) : e \in Inner }) \cup MoreSamples

PathsAround(a, b) ==
  { << op, a, b >> : op \in {"/", "|"} } \cup { << op, a >> : op \in {"^", "*", "+", "?"} }

PathAtoms == { P("q"), << "pred", << "iri", << "rdf", ":", "/", "/", "type" >>, << "a" >> >> >>, << "!set", << I("p") >>, << >> >>,
               << "!set", << >>, << I("q") >> >>, << "!set", << I("p"), I("r") >>, << I("q") >> >> }

PathSamples == UNION { PathsAround(a, P("p")) \cup PathsAround(P("p"), a)
                 : a \in PathAtoms \cup UNION { PathsAround(b, P("r")) : b \in PathAtoms } }

-----------------------------------------------------------------------------
(* Blocks with lists and brackets.                                         *)
List(ns) == << "list", ns >>
Br(ps)   == << "[", ps >>
PO(p, o) == << P(p), << o >> >>

Blocks ==
  { << << X, << << P("p"), << Y, One, V("z") >> >>, PO("q", S(<< "x" >>)) >> >>, << Y, << PO("r", X) >> >> >>,
    << << X, << PO("p", List(<< One, Y, X >>)) >> >> >>,
    << << List(<< X >>), << PO("p", List(<< >>)) >> >> >>,
    << << List(<< Br(<< PO("p", X) >>), List(<< Y >>) >>), << PO("q", Br(<< PO("r", One), PO("p", Y) >>)) >> >> >>,
    << << Br(<< << P("p"), << X, Br(<< PO("q", List(<< Y >>)) >>) >> >> >>), << << << "^", P("p") >>, << X >> >> >> >> >>,
    << << << "bnode", << "x" >>, FALSE >>, << << V("y"), << << "bnode", << "x" >>, FALSE >> >> >> >> >> >> }

BlockSources ==
  { Source("nothing", Ask(<< "block", b >>)) : b \in Blocks }

(* Queries.  A base is a place of a host, or has no slash at all.          *)
H(rest) == << "http", ":", "/", "/", "h" >> \o rest
Prefixed(prefix, name, value) == << "iri", value, << prefix, ":", name >> >>
Relative(name, value) == << "iri", value, << "<", name, ">" >> >>

Declared(prologue, query) == [Source("nothing", query) EXCEPT !.prologue = prologue]

PrologueSources ==
  { Declared(<< << "BASE", H(<< "/", "p", "/", "q" >>) >>, << "PREFIX", << "x" >>, << "r", "/" >> >>, << "BASE", << "y", "/" >> >>,
                << "PREFIX", << >>, << "/", "o" >> >> >>,
      Ask(<< "bgp", << << Prefixed("x", "a", H(<< "/", "p", "/", "r", "/", "a" >>)), << "pred", Relative("s", H(<< "/", "p", "/", "y", "/", "s" >>)) >>,
                          << "iri", H(<< "/", "o", "n", "-", "1" >>), << ":", "n", "-", "1" >> >> >> >> >>)),
    Declared(<< << "BASE", << "r", ":" >> >>, << "PREFIX", << "x" >>, << "a", "#" >> >> >>,
      Ask(<< "bgp", << << Relative("s", << "r", ":", "s" >>), << "pred", Prefixed("x", "y", << "r", ":", "a", "#", "y" >>) >>, X >> >> >>)),
    Declared(<< << "PREFIX", << "x" >>, H(<< "/" >>) >>, << "PREFIX", << "x" >>, H(<< "/", "p", "#" >>) >> >>,
      [Select EXCEPT !.where = << G(<< << "bgp", << << Prefixed("x", "y", H(<< "/", "p", "#", "y" >>)), << "*", << "pred", Prefixed("x", "1", H(<< "/", "p", "#", "1" >>)) >> >>,
          << "iri", H(<< "/", "p", "#", "a", ".", "n" >>), << "x", ":", "a", ".", "n" >> >> >> >> >> >>) >>]) }

Minus(x) == << "-", x, One >>

Queries ==
  { [Select EXCEPT !.quantifier = "DISTINCT", !.star = FALSE,
       !.items = << << X, << >> >>, << Y, << Minus(X) >> >>, << V("z"), << << "agg", "COUNT", FALSE, X, << >> >> >> >> >>,
       !.from = << << FALSE, I("p") >>, << TRUE, I("q") >> >>,
       !.modifier = [group |-> << << X, << >> >>, << << "builtin", "STR", << Y >> >>, << >> >>, << Minus(X), << V("z") >> >>, << << "*", X, Y >>, << >> >> >>,
                     having |-> << << ">", X, One >>, << "builtin", "BOUND", << Y >> >> >>,
                     order |-> << << "ASC", X >>, << "DESC", << "-", X, Y >> >>, << "ASC", << "+", Y, One >> >> >>,
                     limit |-> << << "1", "0" >> >>, offset |-> << << "2" >> >>]],
    [Select EXCEPT !.where = << G(<< SomeTriple, << "OPTIONAL", G(<< SomeTriple, << "FILTER", << "<", X, Minus(X) >> >>, SomeTriple >>) >>, << "MINUS", G(<< SomeTriple >>) >>,
                                      << "UNION", << G(<< SomeTriple >>), G(<< >>), G(<< << "BIND", Minus(X), Y >> >>) >> >> >>) >>],
    [Select EXCEPT !.where = << G(<< << "GRAPH", FALSE, X, G(<< SomeTriple >>) >>, << "SERVICE", TRUE, I("p"), G(<< >>) >>, G(<< SomeTriple >>), SomeTriple >>) >>],
    [Select EXCEPT !.where = << G(<< << "VALUES", << X >>, << << << One >> >>, << << >> >> >> >>,
                                      << "VALUES", << X, Y >>, << << << I("p") >>, << >> >>, << << S(<< "x" >>) >>, << Yes >> >> >> >>,
                                      << "VALUES", << >>, << << >> >> >> >>) >>,
                   !.values = << << "VALUES", << Y >>, << << << One >> >> >> >> >>],
    [Select EXCEPT !.where = << G(<< << "select", [Select EXCEPT !.star = FALSE, !.quantifier = "REDUCED", !.items = << << X, << >> >> >>,
                                       !.modifier.order = << << "ASC", X >> >>, !.modifier.limit = << << "1" >> >>,
                                       !.values = << << "VALUES", << X >>, << >> >> >>] >> >>) >>],
    Ask(<< "FILTER", << "exists", TRUE, G(<< SomeTriple, << "FILTER", << "=", X, Y >> >> >>) >> >>),
    [Select EXCEPT !.form = "CONSTRUCT", !.star = FALSE, !.template = << << X, P("p"), Y >>, << Y, V("x"), One >> >>,
       !.modifier.limit = << << "1" >> >>],
    [Select EXCEPT !.form = "CONSTRUCT", !.star = FALSE],
    [Select EXCEPT !.form = "DESCRIBE"],
    [NoQuery EXCEPT !.form = "DESCRIBE", !.targets = << X, I("p") >>, !.from = << << FALSE, I("q") >> >>] }

MCSources(shown) ==
  CASE shown = "FILTER" -> { Source(shown, Ask(<< "FILTER", e >>)) : e \in ExpressionSamples }
    [] shown = "path" -> { Source(shown, Ask(Bgp(<< V("s"), p, V("o") >>))) : p \in PathSamples }
    [] OTHER -> BlockSources \cup PrologueSources \cup { Source(shown, q) : q \in Queries }
=============================================================================
