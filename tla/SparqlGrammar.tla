--------------------------- MODULE SparqlGrammar ---------------------------
(***************************************************************************)
(* What a query looks like: the reference the parser is held against.  It  *)
(* writes a query as a sequence of lexemes from the precedence of the      *)
(* operators, with no parentheses but those that the meaning needs, and    *)
(* says which triples lists and brackets stand for.  Nothing of it is      *)
(* taken from the parser.  A blank within a lexeme is one that must be     *)
(* there however tight the query is written.                               *)
(***************************************************************************)
EXTENDS Integers, Sequences, SequencesExt

Word(w)       == << << w >> >>
Bracketed(ls) == Word("(") \o ls \o Word(")")

(* Sequences of lexemes with a lexeme between them.                        *)
Listed(parts, separator) ==
  FlattenSeq([i \in DOMAIN parts |-> IF i = 1 THEN parts[1] ELSE Word(separator) \o parts[i]])

Every(items, Lexemes(_)) == FlattenSeq([i \in DOMAIN items |-> Lexemes(items[i])])

-----------------------------------------------------------------------------
Plain == { << "xsd", ":", "/", "/", name >> : name \in {"integer", "decimal", "double"} }

Escaped(form, long) ==
  FlattenSeq([i \in DOMAIN form |->
    IF form[i] \in {"\"", "\\"} THEN << "\\", form[i] >> ELSE IF form[i] = "\n" /\ ~long THEN << "\\", "n" >> ELSE << form[i] >>])

(* A string with a line break is written as a long one.                    *)
StringLexeme(form) ==
  LET long   == "\n" \in Range(form)
      quotes == IF long THEN << "\"", "\"", "\"" >> ELSE << "\"" >>
  IN  quotes \o Escaped(form, long) \o quotes

LiteralLexeme(t) ==
  IF t[4] # << >> /\ t[4][1] \in Plain THEN t[2]
  ELSE IF t[4] # << >> /\ t[2] \in {<< "true" >>, << "false" >>} THEN IF t[2] = << "true" >> THEN << "TRUE" >> ELSE << "FALSE" >>
  ELSE StringLexeme(t[2]) \o (IF t[3] # << >> THEN << "@" >> \o t[3][1]
                              ELSE IF t[4] # << >> THEN << "^", "^", "<" >> \o t[4][1] \o << ">" >> ELSE << >>)

TermLexeme(t) ==
  CASE t[1] = "var" -> << "?" >> \o t[2]
    [] t[1] = "iri" -> t[3]
    [] t[1] = "bnode" -> << "_", ":" >> \o t[2]
    [] t[1] = "lit" -> LiteralLexeme(t)

TermLexemes(t) == << TermLexeme(t) >>

-----------------------------------------------------------------------------
(* Paths: | binds loosest, then /, ^, one of * + ?, and the rest.          *)
PathLevel == [kind \in {"|", "/", "^", "*", "+", "?", "pred", "var", "!set"} |->
                CASE kind = "|" -> 0 [] kind = "/" -> 1 [] kind = "^" -> 2 [] kind \in {"*", "+", "?"} -> 3 [] OTHER -> 4]

RECURSIVE PathAt(_, _)
PathAt(path, level) ==
  LET kind == path[1]
      Member(i) == IF i <= Len(path[2]) THEN TermLexemes(path[2][i])
                   ELSE Word("^") \o TermLexemes(path[3][i - Len(path[2])])
      members == Listed([i \in 1 .. Len(path[2]) + Len(path[3]) |-> Member(i)], "|")
      here == CASE kind = "pred" -> TermLexemes(path[2])
                [] kind = "var" -> TermLexemes(path)
                [] kind = "^" -> Word("^") \o PathAt(path[2], 3)
                [] kind \in {"/", "|"} -> PathAt(path[2], PathLevel[kind]) \o Word(kind) \o PathAt(path[3], PathLevel[kind] + 1)
                [] kind = "*" -> PathAt(path[2], 4) \o Word("*")
                [] kind \in {"+", "?"} -> PathAt(path[2], 4) \o << << kind, " " >> >>
                [] kind = "!set" -> Word("!") \o (IF Len(path[2]) + Len(path[3]) = 1 THEN members ELSE Bracketed(members))
  IN  IF PathLevel[kind] < level THEN Bracketed(here) ELSE here

PathLexemes(path) == PathAt(path, 0)

-----------------------------------------------------------------------------
(* Expressions, from || to the primary ones.                               *)
Level(e) ==
  CASE e[1] = "||" -> 0 [] e[1] = "&&" -> 1
    [] e[1] \in {"=", "!=", "<", ">", "<=", ">=", "in", "not in"} -> 2
    [] e[1] \in {"+", "-"} -> 3 [] e[1] \in {"*", "/"} -> 4
    [] e[1] \in {"not", "plus", "minus"} -> 5 [] OTHER -> 6

OperatorLexeme(op) ==
  CASE op = "||" -> << "|", "|" >> [] op = "&&" -> << "&", "&" >> [] op = "!=" -> << "!", "=" >>
    [] op = ">=" -> << ">", "=" >> [] op = "<=" -> << "<", "=", " " >> [] op = "<" -> << "<", " " >>
    [] op = "not" -> << "!" >> [] op = "plus" -> << "+", " " >> [] op = "minus" -> << "-", " " >> [] OTHER -> << op >>

RECURSIVE ExprAt(_, _), GroupLexemes(_)

ExprLexemes(e) == ExprAt(e, 0)
Primary(e)     == ExprAt(e, 6)
Arguments(es)  == Bracketed(Listed([i \in DOMAIN es |-> ExprLexemes(es[i])], ","))

ExprAt(e, level) ==
  LET kind == e[1]
      distinct == IF e[3] THEN Word("DISTINCT") ELSE << >>
      here == CASE kind \in {"var", "lit", "iri"} -> TermLexemes(e)
                [] kind \in {"not", "plus", "minus"} -> << OperatorLexeme(kind) >> \o Primary(e[2])
                [] kind = "in" -> ExprAt(e[2], 3) \o Word("IN") \o Arguments(e[3])
                [] kind = "not in" -> ExprAt(e[2], 3) \o Word("NOT") \o Word("IN") \o Arguments(e[3])
                [] kind = "call" -> TermLexemes(e[2]) \o Word("(") \o distinct \o Tail(Arguments(e[4]))
                [] kind = "builtin" -> Word(e[2]) \o Arguments(e[3])
                [] kind = "agg" -> Word(e[2]) \o Word("(") \o distinct
                     \o (IF e[4][1] = "star" THEN Word("*") ELSE ExprLexemes(e[4]))
                     \o (IF e[5] # << >> THEN Word(";") \o Word("SEPARATOR") \o Word("=") \o << StringLexeme(e[5][1]) >> ELSE << >>)
                     \o Word(")")
                [] kind = "exists" -> (IF e[2] THEN Word("NOT") ELSE << >>) \o Word("EXISTS") \o GroupLexemes(e[3])
                [] Level(e) = 2 -> ExprAt(e[2], 3) \o << OperatorLexeme(kind) >> \o ExprAt(e[3], 3)
                [] OTHER -> ExprAt(e[2], Level(e)) \o << OperatorLexeme(kind) >> \o ExprAt(e[3], Level(e) + 1)
  IN  IF Level(e) < level THEN Bracketed(here) ELSE here

-----------------------------------------------------------------------------
(* Triples.  A node is a term, a list or a pair of brackets with verbs and *)
(* their objects; a block has nodes with verbs and objects.                *)
RECURSIVE NodeLexemes(_)

PropertyLexemes(properties) ==
  Listed([i \in DOMAIN properties |-> PathLexemes(properties[i][1])
            \o Listed([j \in DOMAIN properties[i][2] |-> NodeLexemes(properties[i][2][j])], ",")], ";")

NodeLexemes(node) ==
  CASE node[1] = "list" -> Bracketed(Every(node[2], NodeLexemes))
    [] node[1] = "[" -> Word("[") \o PropertyLexemes(node[2]) \o Word("]")
    [] OTHER -> TermLexemes(node)

Dot == << << ".", " " >> >>

BlockLexemes(block) == Every(block, LAMBDA s : NodeLexemes(s[1]) \o PropertyLexemes(s[2]) \o Dot)

TripleLexemes(t) == TermLexemes(t[1]) \o PathLexemes(t[2]) \o TermLexemes(t[3]) \o Dot

(* The triples meant, each blank node named by the place where it stands.  *)
At(place) == << "bnode", place, TRUE >>

TermOf(node, place) ==
  IF node[1] = "[" \/ (node[1] = "list" /\ node[2] # << >>) THEN At(place)
  ELSE IF node[1] = "list" THEN << "iri", << "rdf", ":", "/", "/", "nil" >> >>
  ELSE IF node[1] = "iri" THEN << "iri", node[2] >> ELSE node

VerbOf(path) == IF path[1] = "pred" THEN << "pred", path[2][2] >> ELSE path

RECURSIVE MeantBy(_, _)

PropertiesMean(subject, properties, place) ==
  UNION { UNION { { << subject, VerbOf(properties[i][1]), TermOf(properties[i][2][j], place \o << i, j >>) >> }
                    \cup MeantBy(properties[i][2][j], place \o << i, j >>) : j \in DOMAIN properties[i][2] }
          : i \in DOMAIN properties }

MeantBy(node, place) ==
  LET n == Len(node[2])
      Cell(i) == IF i = 1 THEN At(place) ELSE IF i > n THEN TermOf(<< "list", << >> >>, place) ELSE At(place \o << 0, i >>)
      Verb(name) == << "pred", << "rdf", ":", "/", "/", name >> >>
  IN  CASE node[1] = "[" -> PropertiesMean(At(place), node[2], place)
        [] node[1] = "list" -> UNION { { << Cell(i), Verb("first"), TermOf(node[2][i], place \o << i >>) >>,
                                         << Cell(i), Verb("rest"), Cell(i + 1) >> }
                                         \cup MeantBy(node[2][i], place \o << i >>) : i \in 1 .. n }
        [] OTHER -> {}

BlockMeans(block) ==
  UNION { PropertiesMean(TermOf(block[i][1], << i >>), block[i][2], << i >>) \cup MeantBy(block[i][1], << i >>) : i \in DOMAIN block }

-----------------------------------------------------------------------------
(* Groups, modifiers and queries.                                          *)
RECURSIVE QueryLexemes(_)

ValueLexemes(value) == IF value = << >> THEN Word("UNDEF") ELSE TermLexemes(value[1])

ElementLexemes(e) ==
  CASE e[1] = "bgp" -> Every(e[2], TripleLexemes)
    [] e[1] = "block" -> BlockLexemes(e[2])
    [] e[1] \in {"OPTIONAL", "MINUS"} -> Word(e[1]) \o GroupLexemes(e[2])
    [] e[1] = "UNION" -> Listed([i \in DOMAIN e[2] |-> GroupLexemes(e[2][i])], "UNION")
    [] e[1] \in {"GRAPH", "SERVICE"} -> Word(e[1]) \o (IF e[2] THEN Word("SILENT") ELSE << >>) \o TermLexemes(e[3]) \o GroupLexemes(e[4])
    [] e[1] = "FILTER" -> Word("FILTER") \o Primary(e[2])
    [] e[1] = "BIND" -> Word("BIND") \o Bracketed(ExprLexemes(e[2]) \o Word("AS") \o TermLexemes(e[3]))
    [] e[1] = "VALUES" -> Word("VALUES")
         \o (IF Len(e[2]) = 1 THEN TermLexemes(e[2][1]) ELSE Bracketed(Every(e[2], TermLexemes))) \o Word("{")
         \o Every(e[3], LAMBDA row : IF Len(e[2]) = 1 THEN ValueLexemes(row[1]) ELSE Bracketed(Every(row, ValueLexemes)))
         \o Word("}")
    [] e[1] = "select" -> QueryLexemes(e[2])
    [] e[1] = "group" -> GroupLexemes(e)

GroupLexemes(g) == Word("{") \o Every(g[2], ElementLexemes) \o Word("}")

AsLexemes(item) ==
  IF item[2] = << >> THEN Primary(item[1]) ELSE Bracketed(ExprLexemes(item[1]) \o Word("AS") \o TermLexemes(item[2][1]))

Optionally(items, lexemes) == IF items = << >> THEN << >> ELSE lexemes

ModifierLexemes(m) ==
  Optionally(m.group, Word("GROUP") \o Word("BY") \o Every(m.group, AsLexemes))
    \o Optionally(m.having, Word("HAVING") \o Every(m.having, Primary))
    \o Optionally(m.order, Word("ORDER") \o Word("BY")
         \o Every(m.order, LAMBDA c : IF c[1] = "DESC" THEN Word("DESC") \o Arguments(<< c[2] >>) ELSE Primary(c[2])))
    \o Optionally(m.offset, Word("OFFSET") \o m.offset) \o Optionally(m.limit, Word("LIMIT") \o m.limit)

RestLexemes(q) ==
  Every(q.from, LAMBDA f : Word("FROM") \o (IF f[1] THEN Word("NAMED") ELSE << >>) \o TermLexemes(f[2]))
    \o Optionally(q.where, Word("WHERE") \o Every(q.where, GroupLexemes))
    \o ModifierLexemes(q.modifier) \o Every(q.values, ElementLexemes)

Star(q, items) == IF q.star THEN Word("*") ELSE items

(* What stands before the datasets, the pattern and the rest.              *)
HeadLexemes(q) ==
  CASE q.form = "SELECT" -> (IF q.quantifier = "" THEN << >> ELSE Word(q.quantifier))
         \o Star(q, Every(q.items, LAMBDA i : IF i[2] = << >> THEN TermLexemes(i[1]) ELSE AsLexemes(<< i[2][1], << i[1] >> >>)))
    [] q.form = "ASK" -> << >>
    [] q.form = "DESCRIBE" -> Star(q, Every(q.targets, TermLexemes))
    [] q.form = "CONSTRUCT" -> Word("{") \o Every(q.template, TripleLexemes) \o Word("}")

QueryLexemes(q) == Word(q.form) \o HeadLexemes(q) \o RestLexemes(q)

PrologueLexemes(declarations) ==
  Every(declarations, LAMBDA d : IF d[1] = "BASE" THEN Word("BASE") \o << << "<" >> \o d[2] \o << ">" >> >>
                                 ELSE Word("PREFIX") \o << d[2] \o << ":" >>, << "<" >> \o d[3] \o << ">" >> >>)

-----------------------------------------------------------------------------
(* Spelling: a blank or a comment between all lexemes, or a blank only     *)
(* where two would become one.                                             *)
CONSTANTS NameCharacters   (* what may stand in a name, but the hyphen      *)

Touch(left, right) ==
  \/ Last(left) \in NameCharacters /\ Head(right) \in NameCharacters \cup {":"}
  \/ Head(left) # "?" /\ Last(left) \in NameCharacters /\ Head(right) = "-"
  \/ Last(left) = ":" /\ Head(right) \in NameCharacters

Gap(left, right, spelling) ==
  CASE spelling = "spaced" -> << " " >>
    [] spelling = "commented" -> << "#", "x", "?", "\n" >>
    [] OTHER -> IF Touch(left, right) THEN << " " >> ELSE << >>

Spelt(lexemes, spelling) ==
  FlattenSeq([i \in DOMAIN lexemes |-> IF i = 1 THEN lexemes[1] ELSE Gap(lexemes[i - 1], lexemes[i], spelling) \o lexemes[i]])
=============================================================================
