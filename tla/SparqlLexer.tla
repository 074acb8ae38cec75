---------------------------- MODULE SparqlLexer ----------------------------
(***************************************************************************)
(* The tokens of a SPARQL query.                                           *)
(*                                                                         *)
(* A text is a sequence of characters, where a run of letters that belong  *)
(* together counts as one character: << "?", "x", "-", "1" >> is ?x-1, and *)
(* "SELECT" is a letter.  Two letters side by side are another name.       *)
(* Codepoint escapes, escapes in local names, the quote ', subtags of      *)
(* languages and the positions for messages are left out.                  *)
(***************************************************************************)
EXTENDS Naturals, Sequences

CONSTANTS
  Letters,   (* runs of letters: keywords, names, and "a", "e", "n"         *)
  Digits

VARIABLE text

Char(i) == IF i \in DOMAIN text THEN text[i] ELSE ""   \* peek: nothing after the end

VarStart  == Letters \cup {"_"} \cup Digits   \* also what may follow within a variable
NameStart == Letters \cup {"_"}
NameChar  == NameStart \cup Digits \cup {"-"}
Blanks    == {" ", "\n"}

(* The first place from i on where a character is not one of these.        *)
EndOf(i, chars) ==
  CHOOSE j \in i .. Len(text) + 1 : Char(j) \notin chars /\ \A k \in i .. j - 1 : Char(k) \in chars

Token(is, from, to) == [is |-> is, text |-> SubSeq(text, from, to - 1), to |-> to]
BadToken == [is |-> "Bad", text |-> << >>, to |-> 0]

RECURSIVE SkipBlanks(_)
SkipBlanks(i) ==
  IF Char(i) \in Blanks THEN SkipBlanks(i + 1)
  ELSE IF Char(i) = "#"
    THEN SkipBlanks(CHOOSE j \in i .. Len(text) + 1 :
                      Char(j) \in {"", "\n"} /\ \A k \in i .. j - 1 : Char(k) # "\n")
  ELSE i

-----------------------------------------------------------------------------
(* < begins an IRI if > is reached before a character that no IRI has.     *)
NotInIri == {"<", "\"", "{", "}", "|", "^"} \cup Blanks

IriEnds(i) == { j \in i + 1 .. Len(text) : Char(j) = ">" /\ \A k \in i + 1 .. j - 1 : Char(k) \notin NotInIri \cup {">"} }

LexIriref(i) ==
  LET j == CHOOSE j \in IriEnds(i) : TRUE
  IN  [is |-> "Iriref", text |-> SubSeq(text, i + 1, j - 1), to |-> j + 1]

LexVar(i) ==
  IF Char(i + 1) \in VarStart THEN Token("Var", i + 1, EndOf(i + 1, VarStart)) ELSE BadToken

(* A dot belongs to a name only if the name goes on after it.              *)
NameEnd(i) ==
  CHOOSE j \in i .. Len(text) + 1 :
    LET Goes(k) == Char(k) \in NameChar \/ (Char(k) = "." /\ Char(k + 1) \in NameChar)
    IN  ~Goes(j) /\ \A k \in i .. j - 1 : Goes(k)

(* The local name takes dots and gives the last ones back.                 *)
LocalEnd(i) ==
  IF Char(i) \notin NameStart \cup Digits \cup {":"} THEN i
  ELSE LET j == EndOf(i, NameChar \cup {":", "."})
       IN  CHOOSE k \in i + 1 .. j : Char(k - 1) # "." /\ \A l \in k .. j - 1 : Char(l) = "."

LexName(i) ==
  LET j == NameEnd(i)
      l == LocalEnd(j + 1)
  IN  IF Char(j) = ":" THEN Token(IF l = j + 1 THEN "PnameNs" ELSE "PnameLn", i, l)
      ELSE IF SubSeq(text, i, j - 1) = << "a" >> THEN Token("A", i, j)
      ELSE Token(IF j = i + 1 THEN Char(i) ELSE "Keyword", i, j)

LexBlankNodeLabel(i) ==
  IF Char(i + 2) \in VarStart THEN Token("BlankNodeLabel", i + 2, NameEnd(i + 2)) ELSE BadToken

LexLangTag(i) ==
  IF Char(i + 1) \in Letters THEN Token("LangTag", i + 1, EndOf(i + 1, Letters)) ELSE BadToken

(* A dot without a digit after it is not part of a number.                 *)
LexNumber(i) ==
  LET from == IF Char(i) \in {"+", "-"} THEN i + 1 ELSE i
      int  == EndOf(from, Digits)
      dec  == Char(int) = "." /\ Char(int + 1) \in Digits
      end  == IF dec THEN EndOf(int + 1, Digits) ELSE int
      exp  == IF Char(end + 1) \in {"+", "-"} THEN end + 2 ELSE end + 1
  IN  IF ~dec /\ Char(int) = "." /\ int = from THEN BadToken
      ELSE IF Char(end) = "e"
        THEN IF Char(exp) \in Digits THEN Token("Double", i, EndOf(exp, Digits)) ELSE BadToken
      ELSE Token(IF dec THEN "Decimal" ELSE "Integer", i, end)

(* Of a longer run of quotes the last three close a long string.           *)
RECURSIVE LexStringFrom(_, _, _)
LexStringFrom(i, long, value) ==
  LET closes == IF long THEN \A k \in 0 .. 2 : Char(i + k) = "\"" ELSE Char(i) = "\""
      closed == [is |-> "String", text |-> value, to |-> IF long THEN i + 3 ELSE i + 1]
  IN  CASE Char(i) = "" \/ (~long /\ Char(i) = "\n") -> BadToken
        [] closes /\ ~(long /\ Char(i + 3) = "\"") -> closed
        [] Char(i) = "\\" ->
             IF Char(i + 1) = "n" THEN LexStringFrom(i + 2, long, Append(value, "\n"))
             ELSE IF Char(i + 1) \in {"\"", "\\"} THEN LexStringFrom(i + 2, long, Append(value, Char(i + 1)))
             ELSE BadToken
        [] OTHER -> LexStringFrom(i + 1, long, Append(value, Char(i)))

LexString(i) ==
  IF Char(i + 1) = "\"" /\ Char(i + 2) = "\"" THEN LexStringFrom(i + 3, TRUE, << >>)
  ELSE LexStringFrom(i + 1, FALSE, << >>)

-----------------------------------------------------------------------------
(* A bracket and the one that closes it make one token, ^^ counts as ^.    *)
Alone   == {")", "{", "}", "]", ".", ",", ";", "/", "*", "+", "-", "="}

LexSymbol(i) ==
  LET c == Char(i)
      d == Char(i + 1)
      s == SkipBlanks(i + 1)
  IN  CASE c = "(" -> IF Char(s) = ")" THEN Token("Nil", i, s + 1) ELSE Token("(", i, i + 1)
        [] c = "[" -> IF Char(s) = "]" THEN Token("Anon", i, s + 1) ELSE Token("[", i, i + 1)
        [] c = "^" -> Token("^", i, IF d = "^" THEN i + 2 ELSE i + 1)
        [] c = "|" -> IF d = "|" THEN Token("||", i, i + 2) ELSE Token("|", i, i + 1)
        [] c = "&" -> IF d = "&" THEN Token("&&", i, i + 2) ELSE BadToken
        [] c = "<" -> IF d = "=" THEN Token("<=", i, i + 2) ELSE Token("<", i, i + 1)
        [] c = ">" -> IF d = "=" THEN Token(">=", i, i + 2) ELSE Token(">", i, i + 1)
        [] c = "!" -> IF d = "=" THEN Token("!=", i, i + 2) ELSE Token("!", i, i + 1)
        [] c \in Alone \cup {"?"} -> Token(c, i, i + 1)
        [] OTHER -> BadToken

(* Lexer::next, after the blanks: ? is the operator of paths unless a name *)
(* follows, a sign belongs to the number that follows.                     *)
TokenAt(i) ==
  LET c == Char(i)
      d == Char(i + 1)
  IN  CASE c = "" -> Token("Eof", i, i)
        [] c = "<" /\ IriEnds(i) # {} -> LexIriref(i)
        [] c = "$" \/ (c = "?" /\ d \in VarStart) -> LexVar(i)
        [] c = "_" /\ d = ":" -> LexBlankNodeLabel(i)
        [] c \in Digits \/ (c = "." /\ d \in Digits) \/ (c \in {"+", "-"} /\ d \in Digits \cup {"."}) -> LexNumber(i)
        [] c = "@" -> LexLangTag(i)
        [] c = "\"" -> LexString(i)
        [] c \in NameStart \cup {":"} -> LexName(i)
        [] OTHER -> LexSymbol(i)

RECURSIVE TokensFrom(_)
TokensFrom(i) ==
  LET t == TokenAt(SkipBlanks(i))
  IN  IF t.is \in {"Eof", "Bad"} THEN << t >> ELSE << t >> \o TokensFrom(t.to)
=============================================================================
