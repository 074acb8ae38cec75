--------------------------- MODULE SparqlPrinter ---------------------------
(***************************************************************************)
(* How the pretty-printer writes terms, paths and expressions, as texts of *)
(* the lexer: sequences of characters.  The tree it draws around them is   *)
(* layout and left out.                                                    *)
(***************************************************************************)
EXTENDS SparqlParser, SequencesExt

Signs(op) ==   \* binaryOpSymbol
  CASE op = "||" -> << "|", "|" >> [] op = "&&" -> << "&", "&" >> [] op = "!=" -> << "!", "=" >>
    [] op = "<=" -> << "<", "=" >> [] op = ">=" -> << ">", "=" >> [] OTHER -> << op >>

(* Texts with a separator between them.                                    *)
Separated(texts, separator) ==
  FlattenSeq([i \in DOMAIN texts |-> IF i = 1 THEN texts[1] ELSE separator \o texts[i]])

(* A lexical form is printed as it is, quotes and all.                     *)
TermText(t) ==
  CASE t[1] = "iri" -> t[3]
    [] t[1] = "var" -> << "?" >> \o t[2]
    [] t[1] = "bnode" -> << "_", ":" >> \o t[2]
    [] t[1] = "lit" -> << "\"" >> \o t[2] \o << "\"" >>
                         \o (IF t[3] # << >> THEN << "@" >> \o t[3][1]
                             ELSE IF t[4] # << >> THEN << "^", "^", "<" >> \o t[4][1] \o << ">" >> ELSE << >>)

SetTextForward(path) ==   \* variant: the inverse members of a set look like the forward ones
  << "!", "(" >> \o Separated([i \in DOMAIN (path[2] \o path[3]) |-> (path[2] \o path[3])[i][3]], << "|" >>) \o << ")" >>

SetText(path) ==
  LET Turned(i) == << "^" >> \o path[3][i][3]
  IN  << "!", "(" >> \o Separated([i \in DOMAIN path[2] |-> path[2][i][3]] \o [i \in DOMAIN path[3] |-> Turned(i)], << "|" >>)
        \o << ")" >>

(* No parentheses: an alternative below a sequence looks like one above.   *)
RECURSIVE PathText(_)
PathText(path) ==
  CASE path[1] = "pred" -> TermText(path[2])
    [] path[1] = "var" -> TermText(path)
    [] path[1] = "^" -> << "^" >> \o PathText(path[2])
    [] path[1] \in {"/", "|"} -> PathText(path[2]) \o << path[1] >> \o PathText(path[3])
    [] path[1] \in {"*", "+", "?"} -> PathText(path[2]) \o << path[1] >>
    [] path[1] = "!set" -> SetText(path)

(* Only binary operators get parentheses.                                  *)
RECURSIVE ExprText(_)
ListText(list) == << "(" >> \o Separated([i \in DOMAIN list |-> ExprText(list[i])], << ",", " " >>) \o << ")" >>

ExprText(e) ==
  LET kind == e[1]
      Distinct(is) == IF is THEN << "DISTINCT", " " >> ELSE << >>
  IN  CASE kind \in {"lit", "var", "iri"} -> TermText(e)
        [] kind \in Range(Sign) -> << CHOOSE s \in DOMAIN Sign : Sign[s] = kind >> \o ExprText(e[2])
        [] kind \in {"in", "not in"} ->
             ExprText(e[2]) \o (IF kind = "in" THEN << " ", "IN", " " >> ELSE << " ", "NOT", " ", "IN", " " >>) \o ListText(e[3])
        [] kind = "call" -> TermText(e[2]) \o << "(" >> \o Distinct(e[3]) \o Tail(ListText(e[4]))
        [] kind = "builtin" -> << e[2] >> \o ListText(e[3])
        [] kind = "agg" -> << e[2], "(" >> \o Distinct(e[3]) \o (IF e[4][1] = "star" THEN << "*" >> ELSE ExprText(e[4]))
                             \o (IF e[5] # << >> THEN << ";", " ", "SEPARATOR", "=", "\"" >> \o e[5][1] \o << "\"" >> ELSE << >>)
                             \o << ")" >>
        [] kind = "exists" -> (IF e[2] THEN << "NOT", " " >> ELSE << >>) \o << "EXISTS", " ", "{", ".", ".", ".", "}" >>
        [] OTHER -> << "(" >> \o ExprText(e[2]) \o << " " >> \o Signs(kind) \o << " " >> \o ExprText(e[3]) \o << ")" >>
=============================================================================
