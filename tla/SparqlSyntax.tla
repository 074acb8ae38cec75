---------------------------- MODULE SparqlSyntax ----------------------------
(***************************************************************************)
(* A query is written, perhaps with a slip of the pen, cut into tokens and *)
(* parsed; an expression or a path of it may be printed and read again.    *)
(*                                                                         *)
(* A source has a prologue, a query and what of it is printed: "FILTER"    *)
(* for the expression of its only element, "path" for the path of its only *)
(* triple, or "nothing".                                                   *)
(***************************************************************************)
EXTENDS SparqlPrinter, SparqlGrammar

CONSTANTS Sources(_)   (* by what is printed of them                        *)

VARIABLES source, lexemes, spelling, parsed, phase
vars == << source, lexemes, spelling, text, tokens, parsed, phase >>

Spellings == {"spaced", "commented", "tight"}

Init ==
  /\ \E shown \in {"FILTER", "path", "nothing"} : source \in Sources(shown)
  /\ lexemes = PrologueLexemes(source.prologue) \o QueryLexemes(source.query)
  /\ spelling = "" /\ text = << >> /\ tokens = << >> /\ parsed = << >> /\ phase = "meant"

Write(how) ==
  /\ phase = "meant"
  /\ spelling' = how
  /\ text' = Spelt(lexemes, how)
  /\ phase' = "written"
  /\ UNCHANGED << source, lexemes, tokens, parsed >>

(* A lexeme is lost, or written twice, or changes places with the next.    *)
Disturbed(i, how) ==
  CASE how = "lost"    -> RemoveAt(lexemes, i)
    [] how = "doubled" -> InsertAt(lexemes, i, lexemes[i])
    [] how = "swapped" -> SubSeq(lexemes, 1, i - 1) \o << lexemes[i + 1], lexemes[i] >> \o SubSeq(lexemes, i + 2, Len(lexemes))

Disturb(i, how) ==
  /\ phase = "meant"
  /\ source.shown = "nothing"
  /\ how = "swapped" => i < Len(lexemes)
  /\ spelling' = "disturbed"
  /\ text' = Spelt(Disturbed(i, how), "tight")
  /\ phase' = "written"
  /\ UNCHANGED << source, lexemes, tokens, parsed >>

(* The lexer, as far as it comes.                                          *)
Lex ==
  /\ phase = "written"
  /\ tokens' = TokensFrom(1)
  /\ phase' = "lexed"
  /\ UNCHANGED << source, lexemes, spelling, text, parsed >>

Result(p) == IF Failed(p) THEN << >> ELSE << p.v >>

Parse ==
  /\ phase = "lexed"
  /\ parsed' = Result(Read("Query", StartAt(1)))
  /\ phase' = "parsed"
  /\ UNCHANGED << source, lexemes, spelling, text, tokens >>

Shown(query) == LET e == query.where[1][2][1] IN IF source.shown = "FILTER" THEN e[2] ELSE e[2][1][2]

PrettyPrint ==
  /\ phase = "parsed" /\ spelling = "tight"
  /\ source.shown # "nothing" /\ parsed # << >>
  /\ spelling' = "printed"
  /\ text' = IF source.shown = "FILTER"
               THEN << "ASK", "{", "FILTER", "(" >> \o ExprText(Shown(parsed[1])) \o << ")", "}" >>
               ELSE << "ASK", "{", "?", "s", " " >> \o PathText(Shown(parsed[1])) \o << " ", "?", "o", "}" >>
  /\ phase' = "written"
  /\ UNCHANGED << source, lexemes, tokens, parsed >>

Next ==
  \/ \E how \in Spellings : Write(how)
  \/ \E i \in DOMAIN lexemes, how \in {"lost", "doubled", "swapped"} : Disturb(i, how)
  \/ Lex
  \/ Parse
  \/ PrettyPrint

Spec == Init /\ [][Next]_vars

-----------------------------------------------------------------------------
(* Lists and brackets: the triples meant, whatever the labels of the blank *)
(* nodes they bring.                                                       *)
Bare(t) == CASE t[1] = "iri" -> << "iri", t[2] >> [] OTHER -> t

Places(triples) == { t[i][2] : << t, i >> \in { ti \in triples \X {1, 3} : ti[1][ti[2]][1] = "bnode" /\ ti[1][ti[2]][3] } }

SameTriples(meant, read) ==
  LET got == { << Bare(t[1]), VerbOf(t[2]), Bare(t[3]) >> : t \in Range(read) }
      Named(t, name) == IF t[1] = "bnode" /\ t[3] THEN << "bnode", name[t[2]], TRUE >> ELSE t
  IN  \E name \in [Places(meant) -> Places(got)] :
        /\ IsInjective(name)
        /\ got = { << Named(t[1], name), t[2], Named(t[3], name) >> : t \in meant }

IsMeant(query) ==
  LET first == source.query.where[1][2][1]
  IN  IF source.query.where # << >> /\ source.query.where[1][2] # << >> /\ first[1] = "block"
        THEN SameTriples(BlockMeans(first[2]), query.where[1][2][1][2])
        ELSE query = source.query

(* However a query is spelt, the parser reads the query meant: operators   *)
(* bind as the grammar says, a sign before a numeral is what it is by its  *)
(* place, prefixes and bases are those in force, lists and brackets bring  *)
(* the triples they stand for.                                             *)
ParsedIsMeant == phase = "parsed" /\ spelling \in Spellings => parsed # << >> /\ IsMeant(parsed[1])

(* Names are counted after the prologue; the datatype of a literal is one  *)
(* with the literal.                                                       *)
NamedIn(ts) ==
  LET from == Min({ i \in DOMAIN ts : ts[i].is \in {"SELECT", "ASK", "CONSTRUCT", "DESCRIBE"} })
      NameAt(i) == CASE ts[i].is = "Var" -> << << "?" >> \o ts[i].text >>
                     [] ts[i].is = "Iriref" /\ ts[i - 1].is # "^" -> << << "<" >> \o ts[i].text \o << ">" >> >>
                     [] ts[i].is = "PnameLn" -> << ts[i].text >>
                     [] ts[i].is = "BlankNodeLabel" -> << << "_", ":" >> \o ts[i].text >>
                     [] OTHER -> << >>
  IN  FlattenSeq([i \in 1 .. Len(ts) - from + 1 |-> NameAt(from + i - 1)])

Times(x, s) == Cardinality({ i \in DOMAIN s : s[i] = x })

(* Whatever text is accepted, with or without a slip of the pen: each name *)
(* in it is in the query that is returned, as often as it was written.     *)
NothingIsDropped ==
  phase = "parsed" /\ spelling # "printed" /\ parsed # << >> =>
    LET names == NamedIn(tokens)
        kept  == QueryLexemes(parsed[1])
    IN  \A x \in Range(names) : Times(x, names) <= Times(x, kept)

(* What the printer shows as something else: strings with characters that  *)
(* need an escape, patterns within expressions, an operator that binds     *)
(* looser right below a sign, a membership below another operator, and a   *)
(* path that needs brackets.                                               *)
Operands(e) ==
  CASE e[1] \in {"not", "plus", "minus", "in", "not in"} -> {e[2]}
    [] Level(e) < 5 -> {e[2], e[3]}
    [] OTHER -> {}

Inside(e) ==
  CASE e[1] \in {"in", "not in", "builtin"} -> Range(e[3])
    [] e[1] = "call" -> Range(e[4])
    [] e[1] = "agg" -> {e[4]} \ {<< "star" >>}
    [] OTHER -> {}

RECURSIVE PartsOf(_)
PartsOf(e) == {e} \cup UNION { PartsOf(o) : o \in Operands(e) \cup Inside(e) }

ExpressionShown(e) ==
  \A part \in PartsOf(e) :
    /\ part[1] # "exists"
    /\ part[1] = "lit" => Escaped(part[2], FALSE) = part[2]
    /\ \A o \in Operands(part) : o[1] \in {"in", "not in"} => Level(part) < 2
    /\ Level(part) = 5 => \A o \in Operands(part) : Level(o) # 5

PathShown(path) ==
  LET ls == PathLexemes(path)
  IN  \A i \in DOMAIN ls : ls[i] = << "(" >> => i > 1 /\ ls[i - 1] = << "!" >>

(* An expression or a path that the printer can show is read from what is  *)
(* printed as what it was.                                                 *)
PrintedIsRead ==
  phase = "parsed" /\ spelling = "printed" =>
    \/ parsed # << >> /\ IsMeant(parsed[1])
    \/ source.shown = "FILTER" /\ ~ExpressionShown(Shown(source.query))
    \/ source.shown = "path" /\ ~PathShown(Shown(source.query))
=============================================================================
