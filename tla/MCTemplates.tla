---------------------------- MODULE MCTemplates ----------------------------
(***************************************************************************)
(* Templates with delimiters of both kinds, repeated, adjacent and cut-off *)
(* placeholders, over values that hold the delimiters and the characters   *)
(* of an escape.                                                           *)
(***************************************************************************)
EXTENDS Templates

MCColumns  == {"A", "B"}
MCReserved == {"/", "%"}
MCCodeOf   == [c \in MCReserved |-> IF c = "/" THEN "f" ELSE "p"]
MCCharOf   == [c \in {"f", "p", "F", "u"} |->
  CASE c = "p" -> "%" [] c = "u" -> "a" [] OTHER -> "/"]

MCTexts ==
  { << >>, << "a" >>, << "/" >>, << "a", "/" >>, << "/", "a" >>, << "-", "a" >>, << "%", "f" >> }

MCTemplateTexts ==
  { << >>,
    << "{", "A", "}" >>,
    << "a", "/", "{", "A", "}" >>,
    << "-", "{", "A", "}" >>,
    << "{", "B", "}", "/", "a" >>,
    << "{", "A", "}", "-" >>,
    << "{", "A", "}", "/", "{", "B", "}" >>,
    << "{", "B", "}", "/", "{", "A", "}" >>,
    << "{", "A", "}", "/", "{", "A", "}" >>,
    << "{", "A", "}", "-", "{", "B", "}" >>,
    << "a", "{", "A", "}", "{", "B", "}" >>,
    << "a", "/", "{", "A" >>,
    << "a", "/" >> }

MCBounds ==
  { << >>, << "a" >>, << "a", "/", "a" >>, << "a", "/", "%", "f" >>, << "a", "/", "%", "F" >>,
    << "a", "/", "/", "a" >>, << "a", "/", "%", "u" >>, << "a", "/", "-", "a" >>, << "%", "f", "/", "a" >>,
    << "%", "p", "f", "-" >>, << "-", "a", "-" >>, << "-", "a", "-", "a" >>, << "a", "/" >>, << "a", "a", "a" >> }
=============================================================================
