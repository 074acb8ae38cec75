------------------------------ MODULE MCYarrrml ------------------------------
(***************************************************************************)
(* Documents of one or two mappings.  The parts of the first are varied,   *)
(* the second is one that it may refer to.                                 *)
(***************************************************************************)
EXTENDS Yarrrml

TextTok(before, after) == [is |-> "text", lit |-> << before, after >>, col |-> ""]
Braces(col)            == [is |-> "text", lit |-> << "", "{..}" >>, col |-> col]
Ref(col)               == [is |-> "column", lit |-> << "", "" >>, col |-> col]

Scalar(toks)           == [y |-> "scalar", toks |-> toks, iri |-> FALSE, lang |-> FALSE]
Word(w)                == Scalar(<< TextTok("", w) >>)
Curie(p, w)            == Scalar(<< TextTok(p, w) >>)
AsIri(node)            == [node EXCEPT !.iri = TRUE]
AsLang(node)           == [node EXCEPT !.lang = TRUE]
Seq1(nodes)            == [y |-> "seq", of |-> nodes]
Map(f)                 == [y |-> "map", of |-> f]
Null                   == [y |-> "null"]

Column(c)   == Scalar(<< Ref(c) >>)
Template(c) == Scalar(<< TextTok("ex", "emp/"), Ref(c) >>)

Equal(child, parent) ==
  Map([function |-> Word("equal"),
       parameters |-> Seq1(<< Seq1(<< Word("str1"), Column(child) >>),
                              Seq1(<< Word("str2"), Column(parent) >>) >>)])
Broken == Map([function |-> Word("equal"),
               parameters |-> Seq1(<< Word("str1"), Seq1(<< Word("str2"), Word("ID") >>) >>)])
Join(parent, conds) == Map([mapping |-> Word(parent), condition |-> conds])

-----------------------------------------------------------------------------
Emp == Map([table |-> Word("EMP")])

Sources == { Seq1(<< Emp >>), Seq1(<< Map([query |-> Word("SELECT"), table |-> Word("EMP")]), Emp >>),
             Word("named"), Word("ghost"), Null }

Subjects == { Template("ID"), Seq1(<< Column("ID"), Word("me") >>), Curie("xsd", "me"), Map([x |-> Null]) }

Class      == Seq1(<< Word("a"), Curie("ex", "Emp") >>)
Shared     == Seq1(<< Seq1(<< Template("P"), Curie("ex", "p") >>), Seq1(<< Column("A"), AsIri(Column("B")) >>) >>)
Tagged     == Seq1(<< Curie("ex", "name"), Seq1(<< Column("A"), Seq1(<< Column("B"), AsLang(Word("en")) >>) >>),
                      AsLang(Word("fr")) >>)
Typed      == Map([p |-> Curie("ex", "n"), o |-> Map([value |-> Column("N"), datatype |-> Curie("xsd", "int")])])
Constants  == Map([predicates |-> Curie("ex", "k"),
                   objects |-> Seq1(<< Word("plain"), Curie("ex", "c"), AsIri(Word("c")), Null >>)])
Reference  == Map([p |-> Curie("ex", "dept"),
                   o |-> Seq1(<< Join("dept", Seq1(<< Equal("D", "DNO"), Broken >>)), Join("none", Equal("D", "X")) >>)])
TypedClass == Seq1(<< Word("a"), Seq1(<< Column("T"), Curie("ex", "T") >>), AsLang(Word("en")) >>)
Faults     == << Seq1(<< Word("p") >>), Null, Map([p |-> Word("p")]), Seq1(<< Map([x |-> Null]), Word("o") >>) >>

Lists == { << Class, Shared, Reference >>, << Tagged, Class, TypedClass >>, << Typed, Constants >>, Faults, << Class >> }

Dept(sources) ==
  Map([source |-> sources, s |-> Template("DNO"), po |-> Seq1(<< Shared >>), graphs |-> Word("g")])

Root(mappings) ==
  Map([mappings |-> Map(mappings), prefixes |-> Map([ex |-> "http://ex/", xsd |-> "http://other/"]),
       sources |-> Map([named |-> Map([table |-> Word("EMP")])]), functions |-> Null])

Document(root, order) == [root |-> root, order |-> order]

MCDocuments ==
  { Document(Root([emp |-> Map([sources |-> src, subject |-> sub, po |-> Seq1(list)]), dept |-> Dept(Word("named"))]),
             << "emp", "dept" >>) : src \in Sources, sub \in Subjects, list \in Lists }
  \cup
  { Document(Root([emp |-> Map([po |-> Seq1(list), key |-> Null]), dept |-> other]), << "dept", "emp" >>)
      : list \in Lists, other \in {Null, Map([po |-> Null]), Map([po |-> Seq1(<< Class >>)])} }
  \cup
  { Document(Map([prefixes |-> Null]), << >>), Document(Map([mappings |-> Map(<< >>)]), << >>) }

(* Documents of one mapping with one entry.                                *)
One(subject, item) ==
  Document(Root([emp |-> Map([sources |-> Emp, s |-> subject, po |-> Seq1(<< item >>)])]), << "emp" >>)

SilentDocuments == { One(Template("ID"), Map([p |-> Word("p"), o |-> Column("A"), graphs |-> Curie("ex", "g")])),
                     One(Template("ID"), Seq1(<< Word("p"), Join("emp", Word("equal")) >>)) }
TaggedDocuments == { One(Template("ID"), Seq1(<< Word("p"), value, AsLang(Word("en")) >>)) :
                       value \in {Word("active"), Template("A")} }
BracedDocuments == { One(Scalar(<< TextTok("http", "//x/"), Braces("id\\"), Ref("ID") >>), Class) }
SuffixDocuments == { One(Template("ID"), Seq1(<< Word("a"), AsIri(Curie("ex", "Emp")) >>)) }
OpenDocuments == UNION {SilentDocuments, TaggedDocuments, BracedDocuments, SuffixDocuments}

(* The mappings that any of these documents has, and all that is in them,  *)
(* down to the depth that the deepest of them has.                         *)
Depth == 10

Level[k \in 0 .. Depth] ==
  IF k = 0 THEN UNION { Children(MappingsOf(d.root)) : d \in MCDocuments \cup OpenDocuments }
  ELSE UNION { Children(node) : node \in Level[k - 1] }

MCYamlNodes == UNION { Level[k] : k \in 0 .. Depth }

MCNodeName(n) == "_:b" \o ToString(n)

MCBuiltIn     == [rr |-> "http://rr/", xsd |-> "http://xsd/"]
MCSortedNames == << "dept", "emp" >>
=============================================================================
