--------------------------- MODULE MappingBuildProofs ---------------------------
(***************************************************************************)
(* What R2RMLParser makes of a document, for documents of any size whose   *)
(* statements come in any order: the mapping is well formed, its gaps are  *)
(* reported, and it says what the document says.                           *)
(***************************************************************************)
EXTENDS MappingBuild, FiniteSetTheorems, TLAPS

-----------------------------------------------------------------------------
(* Sequences.                                                              *)
LEMMA SequenceFacts ==
  ASSUME NEW s, IsSequence(s)
  PROVE  Len(s) \in Nat /\ DOMAIN s = 1 .. Len(s)
BY DEF IsSequence

LEMMA SequenceOf ==
  ASSUME NEW s, NEW n \in Nat, DOMAIN s = 1 .. n, s = [i \in DOMAIN s |-> s[i]]
  PROVE  IsSequence(s) /\ Len(s) = n
<1> DEFINE S == { s[i] : i \in DOMAIN s }
<1>1. \A i \in 1 .. n : s[i] \in S
  OBVIOUS
<1> HIDE DEF S
<1>2. s \in [1 .. n -> S]
  BY <1>1
<1>3. s \in Seq(S)
  BY <1>2
<1>4. Len(s) = n
  BY <1>3
<1> QED
  BY <1>3, <1>4 DEF S, IsSequence

LEMMA InSequences ==
  ASSUME NEW S, NEW s \in Seq(S)
  PROVE  IsSequence(s)
<1>1. Len(s) \in Nat /\ DOMAIN s = 1 .. Len(s)
  OBVIOUS
<1>2. s = [i \in DOMAIN s |-> s[i]]
  OBVIOUS
<1> QED
  BY <1>1, <1>2, SequenceOf

LEMMA NumbersUpTo == ASSUME NEW n \in Nat PROVE IsFiniteSet(1 .. n) /\ Cardinality(1 .. n) = n
<1>1. 1 \in Int /\ n \in Int
  OBVIOUS
<1>2. IsFiniteSet(1 .. n) /\ Cardinality(1 .. n) = IF 1 > n THEN 0 ELSE n - 1 + 1
  BY <1>1, FS_Interval
<1> QED
  BY <1>2

LEMMA Concatenated ==
  ASSUME NEW s, NEW t, IsSequence(s), IsSequence(t)
  PROVE  /\ IsSequence(s \o t)
         /\ Len(s \o t) = Len(s) + Len(t)
         /\ \A i \in DOMAIN s : i \in DOMAIN (s \o t) /\ (s \o t)[i] = s[i]
         /\ \A i \in DOMAIN t : Len(s) + i \in DOMAIN (s \o t) /\ (s \o t)[Len(s) + i] = t[i]
         /\ \A k \in DOMAIN (s \o t) : k \in DOMAIN s \/ \E i \in DOMAIN t : k = Len(s) + i
<1> DEFINE S == { s[i] : i \in DOMAIN s } \cup { t[i] : i \in DOMAIN t }
<1>1. s \in Seq(S) /\ t \in Seq(S)
  BY DEF IsSequence
<1> HIDE DEF S
<1>2. s \o t \in Seq(S) /\ Len(s \o t) = Len(s) + Len(t)
  BY <1>1
<1>3. Len(s) \in Nat /\ Len(t) \in Nat /\ DOMAIN s = 1 .. Len(s) /\ DOMAIN t = 1 .. Len(t)
  BY SequenceFacts
<1>4. IsSequence(s \o t)
  BY <1>2, InSequences
<1>5. \A i \in DOMAIN s : i \in DOMAIN (s \o t) /\ (s \o t)[i] = s[i]
  BY <1>1, <1>2, <1>3
<1>6. \A i \in DOMAIN t : Len(s) + i \in DOMAIN (s \o t) /\ (s \o t)[Len(s) + i] = t[i]
  BY <1>1, <1>2, <1>3
<1>7. ASSUME NEW k \in DOMAIN (s \o t), k \notin DOMAIN s
      PROVE  \E i \in DOMAIN t : k = Len(s) + i
  <2>1. k - Len(s) \in DOMAIN t /\ k = Len(s) + (k - Len(s))
    BY <1>2, <1>3, <1>4, <1>7, SequenceFacts
  <2> QED
    BY <2>1
<1> QED
  BY <1>2, <1>4, <1>5, <1>6, <1>7

LEMMA OneMore ==
  ASSUME NEW s, NEW x, IsSequence(s)
  PROVE  /\ IsSequence(Append(s, x))
         /\ DOMAIN Append(s, x) = DOMAIN s \cup {Len(s) + 1} /\ Len(s) + 1 \notin DOMAIN s
         /\ \A i \in DOMAIN s : Append(s, x)[i] = s[i]
         /\ Append(s, x)[Len(s) + 1] = x
<1> DEFINE S == { s[i] : i \in DOMAIN s } \cup {x}
<1>1. s \in Seq(S) /\ x \in S
  BY DEF IsSequence
<1> HIDE DEF S
<1>2. Append(s, x) \in Seq(S) /\ Len(Append(s, x)) = Len(s) + 1
  BY <1>1
<1>3. Len(s) \in Nat /\ DOMAIN s = 1 .. Len(s)
  BY SequenceFacts
<1>4. DOMAIN Append(s, x) = DOMAIN s \cup {Len(s) + 1} /\ Len(s) + 1 \notin DOMAIN s
  BY <1>2, <1>3
<1>5. (\A i \in DOMAIN s : Append(s, x)[i] = s[i]) /\ Append(s, x)[Len(s) + 1] = x
  BY <1>1, <1>2, <1>3
<1>6. IsSequence(Append(s, x))
  BY <1>2, InSequences
<1> QED
  BY <1>4, <1>5, <1>6

LEMMA Mapped ==
  ASSUME NEW s, NEW t, IsSequence(s), DOMAIN t = DOMAIN s, t = [i \in DOMAIN t |-> t[i]]
  PROVE  IsSequence(t) /\ Len(t) = Len(s)
BY SequenceFacts, SequenceOf

(* A sequence without repetition has as many elements as places.           *)
Distinct(s) == \A i, j \in DOMAIN s : s[i] = s[j] => i = j

LEMMA Counted ==
  ASSUME NEW s, IsSequence(s), Distinct(s)
  PROVE  IsFiniteSet(Elements(s)) /\ Cardinality(Elements(s)) = Len(s)
<1>1. Len(s) \in Nat /\ DOMAIN s = 1 .. Len(s)
  BY SequenceFacts
<1>2. s \in [1 .. Len(s) -> Elements(s)]
  <2>1. s = [i \in DOMAIN s |-> s[i]]
    BY DEF IsSequence
  <2>2. \A i \in 1 .. Len(s) : s[i] \in Elements(s)
    BY <1>1 DEF Elements
  <2> QED
    BY <1>1, <2>1, <2>2
<1>3. s \in Surjection(1 .. Len(s), Elements(s))
  BY <1>1, <1>2 DEF Surjection, Elements
<1>4. s \in Injection(1 .. Len(s), Elements(s))
  BY <1>1, <1>2 DEF Injection, IsInjective, Distinct
<1>5. IsFiniteSet(1 .. Len(s)) /\ Cardinality(1 .. Len(s)) = Len(s)
  BY <1>1, NumbersUpTo
<1> QED
  BY <1>3, <1>4, <1>5, FS_Surjection

(* The places chosen from a sequence, counted from the first.              *)
Rank(P, i) == Cardinality({ j \in P : j <= i })

LEMMA RankFacts ==
  ASSUME NEW n \in Nat, NEW P \in SUBSET (1 .. n), NEW i \in P
  PROVE  /\ Rank(P, i) \in 1 .. Cardinality(P)
         /\ \A j \in P : j < i => Rank(P, j) < Rank(P, i)
<1>1. IsFiniteSet(P) /\ Cardinality(P) \in Nat
  BY NumbersUpTo, FS_Subset, FS_CardinalityType
<1> DEFINE upTo(k) == { j \in P : j <= k }
<1>2. \A k \in P : upTo(k) \in SUBSET P /\ IsFiniteSet(upTo(k)) /\ Cardinality(upTo(k)) \in Nat
  BY <1>1, FS_Subset, FS_CardinalityType
<1>3. Cardinality(upTo(i)) <= Cardinality(P)
  BY <1>1, <1>2, FS_Subset
<1>4. Cardinality(upTo(i)) # 0
  <2>1. i \in upTo(i)
    OBVIOUS
  <2> QED
    BY <1>2, <2>1, FS_EmptySet
<1>5. ASSUME NEW j \in P, j < i
      PROVE  Cardinality(upTo(j)) < Cardinality(upTo(i))
  <2>1. upTo(j) \in SUBSET upTo(i) /\ i \in upTo(i) /\ i \notin upTo(j)
    <3>1. i \in Nat /\ j \in Nat /\ \A x \in P : x \in Nat
      OBVIOUS
    <3>2. \A x \in P : x <= j => x <= i
      BY <1>5, <3>1
    <3>3. i <= i /\ ~(i <= j)
      BY <1>5, <3>1
    <3> QED
      BY <3>2, <3>3
  <2>2. Cardinality(upTo(j)) <= Cardinality(upTo(i)) /\ Cardinality(upTo(j)) # Cardinality(upTo(i))
    BY <1>2, <2>1, FS_Subset
  <2> QED
    BY <1>2, <2>2
<1>6. \A k \in P : Rank(P, k) = Cardinality(upTo(k))
  BY DEF Rank
<1> HIDE DEF upTo
<1> QED
  BY <1>1, <1>2, <1>3, <1>4, <1>5, <1>6

LEMMA Places ==
  ASSUME NEW n \in Nat, NEW P \in SUBSET (1 .. n)
  PROVE  /\ Cardinality(P) \in Nat
         /\ \A k \in 1 .. Cardinality(P) : Place(P, k) \in P
         /\ \A k, l \in 1 .. Cardinality(P) : Place(P, k) = Place(P, l) => k = l
         /\ \A i \in P : \E k \in 1 .. Cardinality(P) : Place(P, k) = i
         /\ \A k \in 1 .. Cardinality(P) : Rank(P, Place(P, k)) = k
<1> DEFINE c == Cardinality(P)
           r == [i \in P |-> Rank(P, i)]
<1>1. IsFiniteSet(P) /\ c \in Nat
  BY NumbersUpTo, FS_Subset, FS_CardinalityType
<1>2. \A i, j \in P : Rank(P, i) = Rank(P, j) => i = j
  <2> SUFFICES ASSUME NEW i \in P, NEW j \in P, Rank(P, i) = Rank(P, j), i # j
               PROVE  FALSE
    OBVIOUS
  <2>1. i < j \/ j < i
    OBVIOUS
  <2>2. Rank(P, i) \in 1 .. c /\ Rank(P, j) \in 1 .. c
    BY RankFacts
  <2>3. (i < j => Rank(P, i) < Rank(P, j)) /\ (j < i => Rank(P, j) < Rank(P, i))
    BY RankFacts
  <2> QED
    BY <2>1, <2>2, <2>3
<1>3. \A i \in P : Rank(P, i) \in 1 .. c
  BY RankFacts
<1>4. r \in Injection(P, 1 .. c)
  BY <1>2, <1>3 DEF Injection, IsInjective
<1>5. r \in Surjection(P, 1 .. c)
  BY <1>1, <1>4, NumbersUpTo, FS_Injection
<1>6. ASSUME NEW k \in 1 .. c
      PROVE  Place(P, k) \in P /\ Rank(P, Place(P, k)) = k
  <2>1. PICK i \in P : Rank(P, i) = k
    BY <1>5, <1>6 DEF Surjection
  <2> QED
    BY <2>1 DEF Place, Rank
<1> QED
  BY <1>1, <1>2, <1>3, <1>6

(* The first of some places.                                               *)
LEMMA FirstOfFacts ==
  ASSUME NEW n \in Nat, NEW P \in SUBSET (1 .. n), P # {}
  PROVE  FirstOf(P) \in P
<1>1. PICK j \in P : TRUE
  OBVIOUS
<1>2. Rank(P, j) \in 1 .. Cardinality(P) /\ Cardinality(P) \in Nat
  BY RankFacts, Places
<1>3. 1 \in 1 .. Cardinality(P)
  BY <1>2
<1> DEFINE i == Place(P, 1)
<1>4. i \in P /\ Rank(P, i) = 1
  BY <1>3, Places
<1> HIDE DEF i
<1>5. ASSUME NEW k \in P
      PROVE  i <= k
  <2>1. k \in Nat /\ i \in Nat
    BY <1>4
  <2>2. Rank(P, k) \in 1 .. Cardinality(P) /\ (k < i => Rank(P, k) < Rank(P, i))
    BY <1>4, RankFacts
  <2> QED
    BY <1>2, <1>4, <2>1, <2>2
<1> QED
  BY <1>4, <1>5 DEF FirstOf

(* What is chosen from a sequence.                                         *)
LEMMA ChosenFacts ==
  ASSUME NEW s, IsSequence(s), NEW P \in SUBSET DOMAIN s
  PROVE  /\ IsSequence(Chosen(s, P)) /\ Len(Chosen(s, P)) = Cardinality(P)
         /\ Elements(Chosen(s, P)) = { s[i] : i \in P }
         /\ Distinct(s) => Distinct(Chosen(s, P))
<1>1. Len(s) \in Nat /\ DOMAIN s = 1 .. Len(s)
  BY SequenceFacts
<1>2. /\ Cardinality(P) \in Nat
      /\ \A k \in 1 .. Cardinality(P) : Place(P, k) \in P
      /\ \A k, l \in 1 .. Cardinality(P) : Place(P, k) = Place(P, l) => k = l
      /\ \A i \in P : \E k \in 1 .. Cardinality(P) : Place(P, k) = i
  <2>1. PICK n \in Nat : DOMAIN s = 1 .. n
    BY <1>1
  <2>2. P \in SUBSET (1 .. n)
    BY <2>1
  <2> QED
    BY <2>2, Places, Zenon
<1>3. DOMAIN Chosen(s, P) = 1 .. Cardinality(P)
  BY DEF Chosen
<1>4. \A k \in 1 .. Cardinality(P) : Chosen(s, P)[k] = s[Place(P, k)]
  BY DEF Chosen
<1>5. IsSequence(Chosen(s, P)) /\ Len(Chosen(s, P)) = Cardinality(P)
  <2>1. Chosen(s, P) = [i \in DOMAIN Chosen(s, P) |-> Chosen(s, P)[i]]
    BY DEF Chosen
  <2> QED
    BY <1>2, <1>3, <2>1, SequenceOf
<1>6. \A x : x \in Elements(Chosen(s, P)) <=> x \in { s[i] : i \in P }
  BY <1>2, <1>3, <1>4 DEF Elements
<1>7. Distinct(s) => Distinct(Chosen(s, P))
  BY <1>2, <1>3, <1>4 DEF Distinct
<1> QED
  BY <1>5, <1>6, <1>7

-----------------------------------------------------------------------------
(***************************************************************************)
(* The inductive invariant.  The store has what was read, each statement   *)
(* once, but for those that a syntax error has lost.                       *)
(***************************************************************************)
StoreKept ==
  /\ document \in Documents /\ unread \subseteq document
  /\ \A k \in DOMAIN triples :
       /\ IsSequence(triples[k]) /\ triples[k] # << >> /\ Distinct(triples[k])
       /\ \A o \in Elements(triples[k]) : \E st \in document \ unread : << st.s, st.p >> = k /\ st.o = o
  /\ \A st \in document \ unread :
       st.o \in Elements(Objects(st.s, st.p)) \/ Error("syntax", st) \in errors

(* Where the parser is.                                                    *)
Built == phase \in {"report", "returned", "thrown"}

Progress ==
  /\ phase \in {"read", "build", "report", "returned", "thrown"}
  /\ next \in 1 .. Len(Names) + 1
  /\ phase = "read" => maps = << >> /\ refs = {} /\ next = 1 /\ \A e \in errors : e.what = "syntax"
  /\ phase # "read" => unread = {}
  /\ Built => next = Len(Names) + 1

(* A triples map is what its name says in the store, and once references   *)
(* are resolved, with its parents.                                         *)
MapAt(m) ==
  IF Built THEN MapResolved(TriplesMapOf(maps[m].id), m) ELSE TriplesMapOf(maps[m].id)

MapsBuilt ==
  /\ IsSequence(maps)
  /\ \A m \in DOMAIN maps : maps[m] = MapAt(m)
  /\ \A m \in DOMAIN maps : \E k \in 1 .. next - 1 : maps[m].id = Names[k] /\ IsTriplesMap(Names[k])
  /\ \A k \in 1 .. next - 1 : IsTriplesMap(Names[k]) => \E m \in DOMAIN maps : maps[m].id = Names[k]

(* The references are those of the maps, and what is wrong was noted.      *)
FaultsNoted ==
  /\ refs = UNION { MapRefs(maps[m].id, m) : m \in DOMAIN maps }
  /\ \A m \in DOMAIN maps : MapErrors(maps[m].id) \subseteq errors
  /\ \A e \in errors : e.what = "object map" => Strategy(e.about) = "unknown"
  /\ Built => \A r \in refs : Position(r.parent) = 0 => Error("parent", r.parent) \in errors

IInv == StoreKept /\ Progress /\ MapsBuilt /\ FaultsNoted

-----------------------------------------------------------------------------
(* What the store answers.                                                 *)
LEMMA ObjectsFacts ==
  ASSUME StoreKept, NEW s, NEW p
  PROVE  /\ IsSequence(Objects(s, p)) /\ Distinct(Objects(s, p))
         /\ \A o \in Elements(Objects(s, p)) : \E st \in document \ unread : st.s = s /\ st.p = p /\ st.o = o
<1>1. CASE << s, p >> \in DOMAIN triples
  <2>1. Objects(s, p) = triples[<< s, p >>]
    BY <1>1 DEF Objects
  <2> QED
    BY <1>1, <2>1 DEF StoreKept
<1>2. CASE << s, p >> \notin DOMAIN triples
  <2>1. Objects(s, p) = << >>
    BY <1>2 DEF Objects
  <2> QED
    BY <2>1 DEF IsSequence, Distinct, Elements
<1> QED
  BY <1>1, <1>2

(* Kinds of objects that a text tells apart.                               *)
Telling == {{"uri"}, {"literal"}, {"uri", "blank"}}

LEMMA TextTells ==
  ASSUME StoreKept, NEW kinds \in Telling,
         NEW t \in document, NEW u \in document, t.o.is \in kinds, u.o.is \in kinds, t.o.text = u.o.text
  PROVE  t.o = u.o
<1>1. IsStatement(t) /\ IsStatement(u)
  BY DocumentsAssumption DEF StoreKept
<1>2. t.o = [is |-> t.o.is, text |-> t.o.text] /\ u.o = [is |-> u.o.is, text |-> u.o.text]
  <2>1. \A x : IsStatement(x) => x.o = [is |-> x.o.is, text |-> x.o.text]
    <3> SUFFICES ASSUME NEW x, IsStatement(x) PROVE x.o = [is |-> x.o.is, text |-> x.o.text]
      OBVIOUS
    <3> DEFINE o == [is |-> x.o.is, text |-> x.o.text]
    <3>1. x = [s |-> x.s, p |-> x.p, o |-> o]
      BY DEF IsStatement
    <3> HIDE DEF o
    <3>2. x.o = o
      BY <3>1
    <3> QED
      BY <3>2 DEF o
  <2> QED
    BY <1>1, <2>1
<1>3. t.o.is = u.o.is
  BY DocumentsAssumption DEF StoreKept, Telling
<1> QED
  BY <1>2, <1>3

LEMMA TextsFacts ==
  ASSUME StoreKept, NEW s, NEW p, NEW kinds
  PROVE  /\ IsSequence(Texts(s, p, kinds))
         /\ \A x : x \in Elements(Texts(s, p, kinds)) <=>
                    \E o \in Elements(Objects(s, p)) : o.is \in kinds /\ x = o.text
         /\ kinds \in Telling => Distinct(Texts(s, p, kinds))
<1> DEFINE objects == Objects(s, p)
           P == { i \in DOMAIN objects : objects[i].is \in kinds }
           chosen == Chosen(objects, P)
<1>1. IsSequence(objects) /\ Distinct(objects) /\ P \in SUBSET DOMAIN objects
  BY ObjectsFacts
<1>2. IsSequence(chosen) /\ Elements(chosen) = { objects[i] : i \in P } /\ Distinct(chosen)
  BY <1>1, ChosenFacts
<1>3. Texts(s, p, kinds) = [i \in DOMAIN chosen |-> chosen[i].text]
  BY DEF Texts
<1>4. \A o : o \in Elements(chosen) <=> o \in Elements(objects) /\ o.is \in kinds
  BY <1>2 DEF Elements
<1> HIDE DEF chosen
<1>5. IsSequence(Texts(s, p, kinds)) /\ DOMAIN Texts(s, p, kinds) = DOMAIN chosen
  <2>1. DOMAIN Texts(s, p, kinds) = DOMAIN chosen
        /\ Texts(s, p, kinds) = [i \in DOMAIN Texts(s, p, kinds) |-> Texts(s, p, kinds)[i]]
    BY <1>3
  <2> QED
    BY <1>2, <2>1, Mapped
<1>6. \A x : x \in Elements(Texts(s, p, kinds)) <=> \E o \in Elements(chosen) : x = o.text
  BY <1>3 DEF Elements
<1>7. ASSUME kinds \in Telling
      PROVE  Distinct(Texts(s, p, kinds))
  <2> SUFFICES ASSUME NEW i \in DOMAIN chosen, NEW j \in DOMAIN chosen, chosen[i].text = chosen[j].text
               PROVE  i = j
    BY <1>3, <1>5 DEF Distinct
  <2>1. chosen[i] \in Elements(chosen) /\ chosen[j] \in Elements(chosen)
    BY DEF Elements
  <2>2. PICK t \in document : t.o = chosen[i] /\ t.o.is \in kinds
    BY <1>4, <2>1, ObjectsFacts
  <2>3. PICK u \in document : u.o = chosen[j] /\ u.o.is \in kinds
    BY <1>4, <2>1, ObjectsFacts
  <2>4. t.o = u.o
    BY <1>7, <2>2, <2>3, TextTells
  <2> QED
    BY <1>2, <2>2, <2>3, <2>4 DEF Distinct
<1> QED
  BY <1>4, <1>5, <1>6, <1>7

(* The store does not change once it is read.                              *)
LEMMA SameQueries ==
  ASSUME triples' = triples
  PROVE  /\ \A s, p : Objects(s, p)' = Objects(s, p) /\ FirstNode(s, p)' = FirstNode(s, p)
                     /\ Nodes(s, p)' = Nodes(s, p)
                     /\ FirstLiteral(s, p)' = FirstLiteral(s, p) /\ FirstUri(s, p)' = FirstUri(s, p)
         /\ \A s, p, kinds : Texts(s, p, kinds)' = Texts(s, p, kinds)
<1>1. \A s, p : Objects(s, p)' = Objects(s, p)
  BY DEF Objects
<1>2. \A s, p, kinds : Texts(s, p, kinds)' = Texts(s, p, kinds)
  BY <1>1 DEF Texts
<1>3. \A s, p : FirstNode(s, p)' = FirstNode(s, p)
  BY <1>1 DEF FirstNode
<1> QED
  BY <1>1, <1>2, <1>3 DEF Nodes, FirstLiteral, FirstUri

LEMMA SameTermMaps ==
  ASSUME triples' = triples
  PROVE  \A n : /\ Strategy(n)' = Strategy(n) /\ TermMapOf(n)' = TermMapOf(n)
                /\ \A type : ExplicitType(n, type)' = ExplicitType(n, type)
                /\ ColumnValue(n)' = ColumnValue(n) /\ TemplateValue(n)' = TemplateValue(n)
<1>1. \A n : Strategy(n)' = Strategy(n)
  BY SameQueries DEF Strategy
<1>2. \A n : \A type : ExplicitType(n, type)' = ExplicitType(n, type)
  BY SameQueries DEF ExplicitType
<1>3. \A n : ColumnValue(n)' = ColumnValue(n) /\ TemplateValue(n)' = TemplateValue(n)
  BY <1>2, SameQueries DEF ColumnValue, TemplateValue
<1>4. \A n, value : Tagged(n, value)' = Tagged(n, value)
  BY SameQueries DEF Tagged
<1>5. \A n : TermMapOf(n)' = TermMapOf(n)
  BY <1>1, <1>3, <1>4, SameQueries DEF TermMapOf
<1> QED
  BY <1>1, <1>2, <1>3, <1>5

LEMMA SameParts ==
  ASSUME triples' = triples
  PROVE  \A n : /\ SubjectMapOf(n)' = SubjectMapOf(n) /\ SubjectErrors(n)' = SubjectErrors(n)
                /\ GraphMapsOf(n)' = GraphMapsOf(n)
                /\ PomOfNode(n)' = PomOfNode(n) /\ PomErrors(n)' = PomErrors(n)
                /\ TableOf(n)' = TableOf(n)
                /\ \A m, p : PomRefs(n, m, p)' = PomRefs(n, m, p)
                /\ \A p : StrayRefs(n, p)' = StrayRefs(n, p)
<1>1. \A nodes : Known(nodes)' = Known(nodes) /\ Unknown(nodes)' = Unknown(nodes)
  BY SameTermMaps DEF Known, Unknown
<1>2. \A nodes : MapsOf(nodes)' = MapsOf(nodes)
  BY <1>1, SameTermMaps DEF MapsOf
<1>3. \A s, p : Shortcuts(s, p)' = Shortcuts(s, p)
  BY SameQueries DEF Shortcuts
<1>4. \A n : GraphMapsOf(n)' = GraphMapsOf(n)
  BY <1>2, <1>3, SameQueries DEF GraphMapsOf
<1>5. \A n : GraphErrors(n)' = GraphErrors(n)
  BY <1>1, SameQueries DEF GraphErrors
<1>6. \A n : SubjectValue(n)' = SubjectValue(n)
  BY SameQueries, SameTermMaps DEF SubjectValue
<1>7. \A n : SubjectMapOf(n)' = SubjectMapOf(n)
  BY <1>6 DEF SubjectMapOf
<1>8. \A n : SubjectErrors(n)' = SubjectErrors(n)
  BY <1>5, <1>6, SameTermMaps DEF SubjectErrors
<1>9. \A n : JoinsOf(n)' = JoinsOf(n)
  BY SameQueries DEF JoinsOf
<1>10. \A n : ObjectMapOf(n)' = ObjectMapOf(n)
  <2>1. \A n : RegularMapOf(n)' = RegularMapOf(n)
    BY SameQueries, SameTermMaps DEF RegularMapOf
  <2> SUFFICES ASSUME NEW n PROVE ObjectMapOf(n)' = ObjectMapOf(n)
    OBVIOUS
  <2>2. Strategy(n)' = Strategy(n) /\ RegularMapOf(n)' = RegularMapOf(n) /\ JoinsOf(n)' = JoinsOf(n)
    BY <1>9, <2>1, SameTermMaps
  <2> QED
    BY <2>2 DEF ObjectMapOf
<1>11. \A n : ObjectShortcuts(n)' = ObjectShortcuts(n)
  BY <1>3 DEF ObjectShortcuts
<1>12. \A n : PomOfNode(n)' = PomOfNode(n)
  BY <1>1, <1>2, <1>3, <1>4, <1>10, <1>11, SameQueries DEF PomOfNode
<1>13. \A n : PomErrors(n)' = PomErrors(n)
  BY <1>1, <1>5, SameQueries DEF PomErrors
<1>14. \A n, place : Reference(n, place)' = Reference(n, place)
  BY SameQueries DEF Reference
<1>15. \A n, m, p : PomRefs(n, m, p)' = PomRefs(n, m, p)
  BY <1>1, <1>11, <1>14, SameQueries, SameTermMaps DEF PomRefs
<1>16. \A n, p : StrayRefs(n, p)' = StrayRefs(n, p)
  BY <1>14, SameQueries, SameTermMaps DEF StrayRefs
<1>17. \A n : TableOf(n)' = TableOf(n)
  BY SameQueries DEF TableOf
<1> QED
  BY <1>4, <1>7, <1>8, <1>12, <1>13, <1>15, <1>16, <1>17

LEMMA SameMaps ==
  ASSUME triples' = triples
  PROVE  \A name : /\ IsTriplesMap(name)' = IsTriplesMap(name)
                   /\ TriplesMapOf(name)' = TriplesMapOf(name)
                   /\ MapErrors(name)' = MapErrors(name)
                   /\ \A m : MapRefs(name, m)' = MapRefs(name, m)
<1>1. \A name : IsTriplesMap(name)' = IsTriplesMap(name)
  BY DEF IsTriplesMap
<1>2. \A name : TriplesMapOf(name)' = TriplesMapOf(name)
  BY SameQueries, SameParts DEF TriplesMapOf
<1>3. \A name : MapErrors(name)' = MapErrors(name)
  BY SameQueries, SameParts, ZenonT(30) DEF MapErrors
<1>4. \A name, m : MapRefs(name, m)' = MapRefs(name, m)
  BY SameQueries, SameParts, SMTT(30) DEF MapRefs
<1> QED
  BY <1>1, <1>2, <1>3, <1>4

-----------------------------------------------------------------------------
(* The invariant is inductive.                                             *)
LEMMA InitIInv == Init => IInv
<1> SUFFICES ASSUME Init PROVE IInv
  OBVIOUS
<1>1. StoreKept
  <2>1. DOMAIN triples = {} /\ document \ unread = {}
    BY DEF Init
  <2> QED
    BY <2>1 DEF Init, StoreKept
<1>2. Progress
  <2>1. Len(Names) \in Nat
    BY DocumentsAssumption, SequenceFacts
  <2> QED
    BY <2>1 DEF Init, Progress, Built
<1>3. DOMAIN maps = {} /\ refs = {} /\ errors = {} /\ next = 1 /\ ~Built
  BY DEF Init, Built
<1>4. MapsBuilt
  <2>1. IsSequence(maps)
    BY DEF Init, IsSequence
  <2> QED
    BY <1>3, <2>1 DEF MapsBuilt
<1>5. FaultsNoted
  BY <1>3 DEF FaultsNoted
<1> QED
  BY <1>1, <1>2, <1>4, <1>5 DEF IInv

(* Statements are told apart by what they say.                             *)
LEMMA StatementTells ==
  ASSUME StoreKept, NEW t \in document, NEW u \in document, t.s = u.s, t.p = u.p, t.o = u.o
  PROVE  t = u
<1>1. \A x : IsStatement(x) => x = [s |-> x.s, p |-> x.p, o |-> x.o]
  <2> SUFFICES ASSUME NEW x, IsStatement(x) PROVE x = [s |-> x.s, p |-> x.p, o |-> x.o]
    OBVIOUS
  <2> DEFINE o == [is |-> x.o.is, text |-> x.o.text]
  <2>1. x = [s |-> x.s, p |-> x.p, o |-> o]
    BY DEF IsStatement
  <2> HIDE DEF o
  <2>2. x.o = o
    BY <2>1
  <2> QED
    BY <2>1, <2>2
<1>2. IsStatement(t) /\ IsStatement(u)
  BY DocumentsAssumption DEF StoreKept
<1> QED
  BY <1>1, <1>2

LEMMA StatementStored == ASSUME StoreKept, Statement PROVE StoreKept'
<1>1. PICK st \in unread :
        /\ triples' = [k \in DOMAIN triples \cup {<< st.s, st.p >>} |->
                         IF k = << st.s, st.p >> THEN Append(Objects(st.s, st.p), st.o) ELSE triples[k]]
        /\ unread' = unread \ {st}
  BY DEF Statement
<1> DEFINE key == << st.s, st.p >>
           os == Objects(st.s, st.p)
<1>2. document' = document /\ errors' = errors /\ st \in document
  BY DEF Statement, StoreKept
<1>3. document \ unread' = (document \ unread) \cup {st} /\ st \notin document \ unread
  BY <1>1, <1>2
<1>4. DOMAIN triples' = DOMAIN triples \cup {key} /\ triples'[key] = Append(os, st.o)
  BY <1>1
<1>5. \A k \in DOMAIN triples : k # key => triples'[k] = triples[k]
  BY <1>1
<1>6. IsSequence(os) /\ Distinct(os)
      /\ \A o \in Elements(os) : \E t \in document \ unread : t.s = st.s /\ t.p = st.p /\ t.o = o
  BY ObjectsFacts
<1>7. st.o \notin Elements(os)
  <2> SUFFICES ASSUME st.o \in Elements(os) PROVE FALSE
    OBVIOUS
  <2>1. PICK t \in document \ unread : t.s = st.s /\ t.p = st.p /\ t.o = st.o
    BY <1>6
  <2>2. t = st
    BY <1>2, <2>1, StatementTells
  <2> QED
    BY <1>3, <2>2
<1>8. /\ IsSequence(Append(os, st.o))
      /\ DOMAIN Append(os, st.o) = DOMAIN os \cup {Len(os) + 1} /\ Len(os) + 1 \notin DOMAIN os
      /\ \A i \in DOMAIN os : Append(os, st.o)[i] = os[i]
      /\ Append(os, st.o)[Len(os) + 1] = st.o
  BY <1>6, OneMore
<1> HIDE DEF os
<1>9. \A o : o \in Elements(Append(os, st.o)) <=> o \in Elements(os) \/ o = st.o
  BY <1>8 DEF Elements
<1>10. Distinct(Append(os, st.o)) /\ Append(os, st.o) # << >>
  <2>1. \A i \in DOMAIN os : os[i] # st.o
    BY <1>7 DEF Elements
  <2>2. Distinct(Append(os, st.o))
    BY <1>6, <1>8, <2>1 DEF Distinct
  <2>3. DOMAIN Append(os, st.o) # {} /\ DOMAIN << >> = {}
    BY <1>8
  <2> QED
    BY <2>2, <2>3
<1>11. ASSUME NEW k \in DOMAIN triples'
       PROVE  /\ IsSequence(triples'[k]) /\ triples'[k] # << >> /\ Distinct(triples'[k])
              /\ \A o \in Elements(triples'[k]) : \E t \in document \ unread' : << t.s, t.p >> = k /\ t.o = o
  <2>1. CASE k = key
    BY <1>3, <1>4, <1>6, <1>8, <1>9, <1>10, <2>1
  <2>2. CASE k # key
    BY <1>3, <1>4, <1>5, <2>2 DEF StoreKept
  <2> QED
    BY <2>1, <2>2
<1>12. ASSUME NEW s, NEW p, NEW o \in Elements(Objects(s, p))
       PROVE  o \in Elements(Objects(s, p)')
  <2>1. CASE << s, p >> = key
    <3>1. s = st.s /\ p = st.p /\ Objects(s, p)' = Append(os, st.o) /\ Objects(s, p) = os
      BY <1>4, <2>1 DEF Objects, os
    <3> QED
      BY <1>9, <1>12, <3>1
  <2>2. CASE << s, p >> # key
    BY <1>4, <1>5, <1>12, <2>2 DEF Objects
  <2> QED
    BY <2>1, <2>2
<1>13. st.o \in Elements(Objects(st.s, st.p)')
  <2>1. Objects(st.s, st.p)' = Append(os, st.o)
    BY <1>4 DEF Objects
  <2> QED
    BY <1>9, <2>1
<1>14. \A t \in document \ unread' : t.o \in Elements(Objects(t.s, t.p)') \/ Error("syntax", t) \in errors'
  BY <1>2, <1>3, <1>12, <1>13 DEF StoreKept
<1>15. document' \in Documents /\ unread' \subseteq document'
  BY <1>1, <1>2 DEF StoreKept
<1>16. \A s : Elements(s)' = Elements(s)
  OBVIOUS
<1> QED
  BY <1>2, <1>11, <1>14, <1>15 DEF StoreKept, Distinct, Elements, IsSequence, Error

(* The other steps leave the store as it is, or lose a statement.          *)
LEMMA StoreStays ==
  ASSUME StoreKept, [Next]_vars, ~Statement
  PROVE  StoreKept'
<1>1. document' = document /\ triples' = triples /\ errors \subseteq errors' /\ unread' \subseteq unread
  BY DEF Next, SyntaxError, EndOfText, BuildTriplesMap, ResolveParents, Report, vars
<1>2. \A st \in unread \ unread' : Error("syntax", st) \in errors'
  BY DEF Next, SyntaxError, EndOfText, BuildTriplesMap, ResolveParents, Report, vars
<1>3. \A s, p : Objects(s, p)' = Objects(s, p)
  BY <1>1, SameQueries
<1>4. \A st \in document \ unread' :
        st.o \in Elements(Objects(st.s, st.p)') \/ Error("syntax", st) \in errors'
  BY <1>1, <1>2, <1>3 DEF StoreKept
<1>5. document' \in Documents /\ unread' \subseteq document'
  BY <1>1 DEF StoreKept
<1>6. ASSUME NEW k \in DOMAIN triples
      PROVE  \A o \in Elements(triples[k]) : \E st \in document \ unread' : << st.s, st.p >> = k /\ st.o = o
  BY <1>1 DEF StoreKept
<1> QED
  BY <1>1, <1>4, <1>5, <1>6 DEF StoreKept, Distinct, Elements, IsSequence, Error

LEMMA StepProgress == ASSUME Progress, [Next]_vars PROVE Progress'
<1>1. Len(Names) \in Nat
  BY DocumentsAssumption, SequenceFacts
<1>2. CASE Statement
  BY <1>2 DEF Statement, Progress, Built
<1>3. CASE SyntaxError
  BY <1>3 DEF SyntaxError, Progress, Built, Error
<1>4. CASE EndOfText
  BY <1>4 DEF EndOfText, Progress, Built
<1>5. CASE BuildTriplesMap
  BY <1>1, <1>5 DEF BuildTriplesMap, Progress, Built
<1>6. CASE ResolveParents
  BY <1>1, <1>6 DEF ResolveParents, Progress, Built
<1>7. CASE Report
  BY <1>7 DEF Report, Progress, Built
<1>8. CASE UNCHANGED vars
  BY <1>8 DEF vars, Progress, Built
<1> QED
  BY <1>2, <1>3, <1>4, <1>5, <1>6, <1>7, <1>8 DEF Next

(* Resolving references changes nothing else of a triples map.             *)
LEMMA PomResolvedFacts ==
  ASSUME NEW preds, NEW objs, NEW graphs, NEW m, NEW p
  PROVE  PomResolved([preds |-> preds, objs |-> objs, graphs |-> graphs], m, p) =
           [preds |-> preds, objs |-> [o \in DOMAIN objs |-> ObjectResolved(objs[o], << m, p, o >>)],
            graphs |-> graphs]
<1> DEFINE pom == [preds |-> preds, objs |-> objs, graphs |-> graphs]
           resolved == [o \in DOMAIN objs |-> ObjectResolved(objs[o], << m, p, o >>)]
<1>1. pom.objs = objs
  OBVIOUS
<1>2. PomResolved(pom, m, p)
        = [pom EXCEPT !.objs = [o \in DOMAIN pom.objs |-> ObjectResolved(pom.objs[o], << m, p, o >>)]]
  BY DEF PomResolved
<1>3. [o \in DOMAIN pom.objs |-> ObjectResolved(pom.objs[o], << m, p, o >>)] = resolved
  BY <1>1
<1> HIDE DEF resolved
<1>4. [pom EXCEPT !.objs = resolved] = [preds |-> preds, objs |-> resolved, graphs |-> graphs]
  OBVIOUS
<1>5. PomResolved(pom, m, p) = [preds |-> preds, objs |-> resolved, graphs |-> graphs]
  BY <1>2, <1>3, <1>4
<1> QED
  BY <1>5 DEF resolved

LEMMA MapResolvedFacts ==
  ASSUME NEW id, NEW table, NEW subject, NEW classes, NEW graphs, NEW poms, NEW m
  PROVE  MapResolved([id |-> id, table |-> table, subject |-> subject, classes |-> classes,
                      graphs |-> graphs, poms |-> poms], m) =
           [id |-> id, table |-> table, subject |-> subject, classes |-> classes, graphs |-> graphs,
            poms |-> [p \in DOMAIN poms |-> PomResolved(poms[p], m, p)]]
BY DEF MapResolved

LEMMA ResolvedFacts ==
  ASSUME NEW name, NEW m
  PROVE  LET tm == TriplesMapOf(name)
             rm == MapResolved(TriplesMapOf(name), m)
         IN  /\ tm.id = name /\ rm.id = name
             /\ rm.table = tm.table /\ rm.subject = tm.subject /\ rm.classes = tm.classes
             /\ rm.graphs = tm.graphs
             /\ rm.poms = [p \in DOMAIN tm.poms |-> PomResolved(tm.poms[p], m, p)]
<1>1. PICK table, subject, classes, graphs, poms :
        TriplesMapOf(name) = [id |-> name, table |-> table, subject |-> subject, classes |-> classes,
                              graphs |-> graphs, poms |-> poms]
  BY DEF TriplesMapOf
<1>2. MapResolved(TriplesMapOf(name), m) =
        [id |-> name, table |-> table, subject |-> subject, classes |-> classes, graphs |-> graphs,
         poms |-> [p \in DOMAIN poms |-> PomResolved(poms[p], m, p)]]
  BY <1>1, MapResolvedFacts
<1> QED
  BY <1>1, <1>2

(* Positions are those of names.                                           *)
LEMMA SamePositions ==
  ASSUME DOMAIN maps' = DOMAIN maps, \A m \in DOMAIN maps : maps'[m].id = maps[m].id, refs' = refs
  PROVE  /\ \A name : Position(name)' = Position(name)
         /\ \A pom, m, p : PomResolved(pom, m, p)' = PomResolved(pom, m, p)
         /\ \A tm, m : MapResolved(tm, m)' = MapResolved(tm, m)
<1>1. \A name : { i \in DOMAIN maps' : maps'[i].id = name } = { i \in DOMAIN maps : maps[i].id = name }
  OBVIOUS
<1>2. \A name : Position(name)' = Position(name)
  BY <1>1 DEF Position
<1>3. \A om, place : ObjectResolved(om, place)' = ObjectResolved(om, place)
  <2>1. \A place : Awaited(place)' = Awaited(place)
    BY DEF Awaited
  <2> QED
    BY <1>2, <2>1 DEF ObjectResolved
<1>4. \A pom, m, p : PomResolved(pom, m, p)' = PomResolved(pom, m, p)
  BY <1>3 DEF PomResolved
<1>5. \A tm, m : MapResolved(tm, m)' = MapResolved(tm, m)
  BY <1>4 DEF MapResolved
<1> QED
  BY <1>2, <1>4, <1>5

LEMMA SameMapAt ==
  ASSUME triples' = triples, Built' <=> Built, refs' = refs,
         DOMAIN maps' = DOMAIN maps, \A m \in DOMAIN maps : maps'[m].id = maps[m].id
  PROVE  \A m \in DOMAIN maps : MapAt(m)' = MapAt(m)
<1> SUFFICES ASSUME NEW m \in DOMAIN maps PROVE MapAt(m)' = MapAt(m)
  OBVIOUS
<1>1. TriplesMapOf(maps[m].id)' = TriplesMapOf(maps[m].id)
  BY SameMaps
<1>2. MapResolved(TriplesMapOf(maps[m].id), m)' = MapResolved(TriplesMapOf(maps[m].id), m)
  BY <1>1, SamePositions
<1> QED
  BY <1>1, <1>2 DEF MapAt

(* What is noted about an object map is that it is of no kind.             *)
LEMMA ErrorIs == ASSUME NEW w, NEW a PROVE Error(w, a).what = w /\ Error(w, a).about = a
BY DEF Error

LEMMA GraphErrorsAre == ASSUME NEW n, NEW x \in GraphErrors(n) PROVE x.what = "graph map"
<1>1. PICK a : x = Error("graph map", a)
  BY DEF GraphErrors
<1> QED
  BY <1>1, ErrorIs

LEMMA SubjectErrorsAre == ASSUME NEW n, NEW x \in SubjectErrors(n) PROVE x.what # "object map"
<1>1. CASE x \in GraphErrors(n)
  BY <1>1, GraphErrorsAre
<1>2. CASE x \notin GraphErrors(n)
  <2>1. PICK a : x = Error("literal subject", a)
    BY <1>2 DEF SubjectErrors
  <2>2. x.what = "literal subject"
    BY <2>1, ErrorIs
  <2> QED
    BY <2>2
<1> QED
  BY <1>1, <1>2

LEMMA ObjectMapErrors ==
  ASSUME NEW name, NEW e \in MapErrors(name), e.what = "object map"
  PROVE  Strategy(e.about) = "unknown"
<1>1. PICK n : e \in PomErrors(n)
  <2>1. CASE \E a : e = Error("logical table", a)
    <3>1. PICK a : e = Error("logical table", a)
      BY <2>1
    <3>2. e.what = "logical table"
      BY <3>1, ErrorIs
    <3> QED
      BY <3>2
  <2>2. CASE \E n : e \in SubjectErrors(n)
    BY <2>2, SubjectErrorsAre
  <2>3. CASE \E n : e \in PomErrors(n)
    BY <2>3
  <2> QED
    BY <2>1, <2>2, <2>3, Zenon DEF MapErrors
<1>2. PICK o \in Unknown(Nodes(n, "objectMap")) : e = Error("object map", o)
  <2>1. e \notin GraphErrors(n)
    BY GraphErrorsAre
  <2> QED
    BY <1>1, <2>1 DEF PomErrors
<1>3. PICK i \in DOMAIN Nodes(n, "objectMap") : /\ Strategy(Nodes(n, "objectMap")[i]) = "unknown"
                                             /\ o = Nodes(n, "objectMap")[i]
  BY <1>2 DEF Unknown
<1>4. Strategy(o) = "unknown"
  BY <1>3
<1>5. e.about = o
  BY <1>2, ErrorIs
<1> QED
  BY <1>4, <1>5

(* A triples map is built of the next name.                                *)
LEMMA MapAppended ==
  ASSUME IInv, BuildTriplesMap, IsTriplesMap(Names[next])
  PROVE  /\ IsSequence(maps')
         /\ DOMAIN maps' = DOMAIN maps \cup {Len(maps) + 1} /\ Len(maps) + 1 \notin DOMAIN maps
         /\ \A m \in DOMAIN maps : maps'[m] = maps[m]
         /\ maps'[Len(maps) + 1] = TriplesMapOf(Names[next])
         /\ maps'[Len(maps) + 1].id = Names[next]
<1>1. maps' = Append(maps, TriplesMapOf(Names[next]))
  BY DEF BuildTriplesMap
<1>2. IsSequence(maps)
  BY DEF IInv, MapsBuilt
<1>3. TriplesMapOf(Names[next]).id = Names[next]
  BY ResolvedFacts
<1> QED
  BY <1>1, <1>2, <1>3, OneMore

(* References are resolved in place.                                       *)
LEMMA MapsResolved ==
  ASSUME IInv, ResolveParents
  PROVE  /\ DOMAIN maps' = DOMAIN maps /\ IsSequence(maps')
         /\ \A m \in DOMAIN maps : maps'[m].id = maps[m].id /\ maps'[m] = MapAt(m)'
<1>1. maps' = [m \in DOMAIN maps |-> MapResolved(maps[m], m)] /\ refs' = refs /\ triples' = triples
      /\ ~Built /\ Built'
  BY DEF ResolveParents, Built
<1>2. DOMAIN maps' = DOMAIN maps
  BY <1>1
<1>3. IsSequence(maps')
  <2>1. maps' = [m \in DOMAIN maps' |-> maps'[m]]
    BY <1>1
  <2> QED
    BY <1>2, <2>1, Mapped DEF IInv, MapsBuilt
<1>4. ASSUME NEW m \in DOMAIN maps
      PROVE  maps[m] = TriplesMapOf(maps[m].id) /\ maps'[m] = MapResolved(TriplesMapOf(maps[m].id), m)
  BY <1>1 DEF IInv, MapsBuilt, MapAt
<1>5. \A m \in DOMAIN maps : maps'[m].id = maps[m].id
  <2> SUFFICES ASSUME NEW m \in DOMAIN maps PROVE maps'[m].id = maps[m].id
    OBVIOUS
  <2>1. maps'[m] = MapResolved(TriplesMapOf(maps[m].id), m)
    BY <1>4
  <2>2. MapResolved(TriplesMapOf(maps[m].id), m).id = maps[m].id
    BY ResolvedFacts
  <2> QED
    BY <2>1, <2>2
<1>6. ASSUME NEW m \in DOMAIN maps
      PROVE  maps'[m] = MapAt(m)'
  <2>1. TriplesMapOf(maps[m].id)' = TriplesMapOf(maps[m].id)
    BY <1>1, <1>5, SameMaps
  <2>2. MapResolved(TriplesMapOf(maps[m].id), m)' = MapResolved(TriplesMapOf(maps[m].id), m)
    BY <1>1, <1>2, <1>5, <2>1, SamePositions
  <2>3. MapAt(m)' = MapResolved(TriplesMapOf(maps[m].id), m)'
    BY <1>1 DEF MapAt
  <2> QED
    BY <1>4, <2>2, <2>3
<1> QED
  BY <1>2, <1>3, <1>5, <1>6

(* In the other steps the maps and their references stay.                  *)
LEMMA MapsStay ==
  ASSUME IInv, [Next]_vars, ~BuildTriplesMap, ~ResolveParents
  PROVE  /\ maps' = maps /\ refs' = refs /\ next' = next /\ errors \subseteq errors'
         /\ Built' <=> Built
         /\ triples' = triples \/ (DOMAIN maps = {} /\ next = 1 /\ phase = "read" /\ errors' = errors)
         /\ \A e \in errors' \ errors : e.what = "syntax"
<1>1. DOMAIN << >> = {}
  OBVIOUS
<1>2. CASE Statement
  BY <1>1, <1>2 DEF Statement, Built, IInv, Progress
<1>3. CASE SyntaxError
  <2>1. PICK st : errors' = errors \cup {Error("syntax", st)}
    BY <1>3 DEF SyntaxError
  <2>2. Error("syntax", st).what = "syntax"
    BY ErrorIs
  <2> QED
    BY <1>3, <2>1, <2>2 DEF SyntaxError, Built
<1>4. CASE EndOfText
  BY <1>4 DEF EndOfText, Built
<1>5. CASE Report
  BY <1>5 DEF Report, Built
<1>6. CASE UNCHANGED vars
  BY <1>6 DEF vars, Built
<1> QED
  BY <1>2, <1>3, <1>4, <1>5, <1>6 DEF Next

LEMMA StepMapsBuilt == ASSUME IInv, [Next]_vars PROVE MapsBuilt'
<1>1. CASE BuildTriplesMap /\ IsTriplesMap(Names[next])
  <2> DEFINE new == Len(maps) + 1
  <2>1. /\ IsSequence(maps')
        /\ DOMAIN maps' = DOMAIN maps \cup {new} /\ new \notin DOMAIN maps
        /\ \A m \in DOMAIN maps : maps'[m] = maps[m]
        /\ maps'[new] = TriplesMapOf(Names[next]) /\ maps'[new].id = Names[next]
    BY <1>1, MapAppended
  <2>2. triples' = triples /\ next' = next + 1 /\ ~Built /\ ~Built' /\ next \in Nat /\ next >= 1
    BY <1>1, DocumentsAssumption, SequenceFacts DEF BuildTriplesMap, Built, IInv, Progress
  <2>3. \A m \in DOMAIN maps' : MapAt(m)' = TriplesMapOf(maps'[m].id)
    BY <2>2, SameMaps DEF MapAt
  <2>4. \A m \in DOMAIN maps' : maps'[m] = MapAt(m)'
    <3>1. \A m \in DOMAIN maps : maps[m] = TriplesMapOf(maps[m].id)
      BY <2>2 DEF IInv, MapsBuilt, MapAt
    <3>2. maps'[new] = TriplesMapOf(maps'[new].id)
      BY <2>1
    <3> HIDE DEF new
    <3> QED
      BY <2>1, <2>3, <3>1, <3>2
  <2>5. 1 .. next' - 1 = (1 .. next - 1) \cup {next}
    BY <2>2
  <2>6. \A name : IsTriplesMap(name)' = IsTriplesMap(name)
    BY <2>2, SameMaps
  <2> HIDE DEF new
  <2>7. \A m \in DOMAIN maps' : \E k \in 1 .. next' - 1 : maps'[m].id = Names[k] /\ IsTriplesMap(Names[k])
    BY <1>1, <2>1, <2>5 DEF IInv, MapsBuilt
  <2>8. \A k \in 1 .. next' - 1 : IsTriplesMap(Names[k]) => \E m \in DOMAIN maps' : maps'[m].id = Names[k]
    BY <2>1, <2>5 DEF IInv, MapsBuilt
  <2>9. \A k : IsTriplesMap(Names[k])' = IsTriplesMap(Names[k])
    BY <2>6
  <2>10. IsSequence(maps)'
    BY <2>1 DEF IsSequence
  <2> QED
    BY <2>4, <2>7, <2>8, <2>9, <2>10 DEF MapsBuilt
<1>2. CASE BuildTriplesMap /\ ~IsTriplesMap(Names[next])
  <2>1. maps' = maps /\ refs' = refs /\ triples' = triples /\ next' = next + 1 /\ ~Built /\ ~Built'
        /\ next \in Nat /\ next >= 1
    BY <1>2, DocumentsAssumption, SequenceFacts DEF BuildTriplesMap, Built, IInv, Progress
  <2>2. \A m \in DOMAIN maps : MapAt(m)' = MapAt(m)
    BY <2>1, SameMapAt
  <2>3. 1 .. next' - 1 = (1 .. next - 1) \cup {next}
    BY <2>1
  <2>4. \A k : IsTriplesMap(Names[k])' = IsTriplesMap(Names[k])
    BY <2>1, SameMaps
  <2> QED
    BY <1>2, <2>1, <2>2, <2>3, <2>4 DEF IInv, MapsBuilt, IsSequence
<1>3. CASE ResolveParents
  <2>1. /\ DOMAIN maps' = DOMAIN maps /\ IsSequence(maps')
        /\ \A m \in DOMAIN maps : maps'[m].id = maps[m].id /\ maps'[m] = MapAt(m)'
    BY <1>3, MapsResolved
  <2>2. triples' = triples /\ next' = next
    BY <1>3 DEF ResolveParents
  <2>3. \A k : IsTriplesMap(Names[k])' = IsTriplesMap(Names[k])
    BY <2>2, SameMaps
  <2>4. IsSequence(maps)'
    BY <2>1 DEF IsSequence
  <2> QED
    BY <2>1, <2>2, <2>3, <2>4 DEF IInv, MapsBuilt
<1>4. CASE ~BuildTriplesMap /\ ~ResolveParents
  <2>1. maps' = maps /\ refs' = refs /\ next' = next /\ (Built' <=> Built)
        /\ (triples' = triples \/ (DOMAIN maps = {} /\ next = 1))
    BY <1>4, MapsStay
  <2>2. IsSequence(maps)'
    BY <2>1 DEF IInv, MapsBuilt, IsSequence
  <2>3. CASE triples' = triples
    <3>1. \A m \in DOMAIN maps : MapAt(m)' = MapAt(m)
      BY <2>1, <2>3, SameMapAt
    <3>2. \A k : IsTriplesMap(Names[k])' = IsTriplesMap(Names[k])
      BY <2>3, SameMaps
    <3> QED
      BY <2>1, <2>2, <3>1, <3>2 DEF IInv, MapsBuilt
  <2>4. CASE DOMAIN maps = {} /\ next = 1
    BY <2>1, <2>2, <2>4 DEF MapsBuilt
  <2> QED
    BY <2>1, <2>3, <2>4
<1> QED
  BY <1>1, <1>2, <1>3, <1>4

LEMMA StepFaultsNoted == ASSUME IInv, [Next]_vars PROVE FaultsNoted'
<1>1. CASE BuildTriplesMap /\ IsTriplesMap(Names[next])
  <2> DEFINE new == Len(maps) + 1
             name == Names[next]
  <2>1. /\ DOMAIN maps' = DOMAIN maps \cup {new}
        /\ \A m \in DOMAIN maps : maps'[m] = maps[m]
        /\ maps'[new].id = name
    BY <1>1, MapAppended
  <2>2. triples' = triples /\ ~Built' /\ refs' = refs \cup MapRefs(name, new)
        /\ errors' = errors \cup MapErrors(name)
    BY <1>1 DEF BuildTriplesMap, Built
  <2> HIDE DEF new, name
  <2>3. \A m \in DOMAIN maps' : MapRefs(maps[m].id, m)' = MapRefs(maps'[m].id, m)
                             /\ MapErrors(maps[m].id)' = MapErrors(maps'[m].id)
    BY <2>2, SameMaps
  <2>4. refs' = UNION { MapRefs(maps'[m].id, m) : m \in DOMAIN maps' }
    <3>1. \A r : r \in refs' <=> \E m \in DOMAIN maps' : r \in MapRefs(maps'[m].id, m)
      BY <2>1, <2>2 DEF IInv, FaultsNoted
    <3> QED
      BY <3>1
  <2>5. \A m \in DOMAIN maps' : MapErrors(maps'[m].id) \subseteq errors'
    BY <2>1, <2>2 DEF IInv, FaultsNoted
  <2>6. \A e \in errors' : e.what = "object map" => Strategy(e.about)' = "unknown"
    <3>1. \A e \in errors' : e.what = "object map" => Strategy(e.about) = "unknown"
      BY <2>2, ObjectMapErrors DEF IInv, FaultsNoted
    <3> QED
      BY <2>2, <3>1, SameTermMaps
  <2> QED
    BY <2>2, <2>3, <2>4, <2>5, <2>6 DEF FaultsNoted
<1>2. CASE BuildTriplesMap /\ ~IsTriplesMap(Names[next])
  <2>1. maps' = maps /\ refs' = refs /\ triples' = triples /\ errors' = errors /\ ~Built'
    BY <1>2 DEF BuildTriplesMap, Built
  <2>2. \A m \in DOMAIN maps : MapRefs(maps[m].id, m)' = MapRefs(maps[m].id, m)
                            /\ MapErrors(maps[m].id)' = MapErrors(maps[m].id)
    BY <2>1, SameMaps
  <2>3. \A e \in errors' : e.what = "object map" => Strategy(e.about)' = "unknown"
    BY <2>1, SameTermMaps DEF IInv, FaultsNoted
  <2> QED
    BY <2>1, <2>2, <2>3 DEF IInv, FaultsNoted
<1>3. CASE ResolveParents
  <2>1. DOMAIN maps' = DOMAIN maps /\ \A m \in DOMAIN maps : maps'[m].id = maps[m].id
    BY <1>3, MapsResolved
  <2>2. /\ refs' = refs /\ triples' = triples
        /\ errors' = errors \cup { Error("parent", r.parent) : r \in { q \in refs : Position(q.parent) = 0 } }
    BY <1>3 DEF ResolveParents
  <2>3. \A m \in DOMAIN maps : MapRefs(maps[m].id, m)' = MapRefs(maps[m].id, m)
                            /\ MapErrors(maps[m].id)' = MapErrors(maps[m].id)
    BY <2>1, <2>2, SameMaps
  <2>4. \A r \in refs : Position(r.parent)' = 0 => Error("parent", r.parent) \in errors'
    <3> SUFFICES ASSUME NEW r \in refs, Position(r.parent)' = 0 PROVE Error("parent", r.parent) \in errors'
      OBVIOUS
    <3>1. Position(r.parent) = 0
      BY <2>1, <2>2, SamePositions
    <3> QED
      BY <2>2, <3>1
  <2>5. ASSUME NEW e \in errors', e.what = "object map"
        PROVE  Strategy(e.about)' = "unknown"
    <3>1. e \in errors
      <4> SUFFICES ASSUME e \notin errors PROVE FALSE
        OBVIOUS
      <4>1. PICK r : e = Error("parent", r.parent)
        BY <2>2
      <4>2. e.what = "parent"
        BY <4>1, ErrorIs
      <4> QED
        BY <2>5, <4>2
    <3> QED
      BY <2>2, <2>5, <3>1, SameTermMaps DEF IInv, FaultsNoted
  <2>6. \A m \in DOMAIN maps : MapErrors(maps[m].id) \subseteq errors'
    BY <2>2 DEF IInv, FaultsNoted
  <2>7. refs' = UNION { MapRefs(maps[m].id, m)' : m \in DOMAIN maps' }
    <3>1. \A r : r \in refs' <=> \E m \in DOMAIN maps' : r \in MapRefs(maps[m].id, m)'
      BY <2>1, <2>2, <2>3 DEF IInv, FaultsNoted
    <3> QED
      BY <3>1
  <2>8. \A r : Error("parent", r.parent)' = Error("parent", r.parent)
    BY DEF Error
  <2> QED
    BY <2>1, <2>2, <2>3, <2>4, <2>5, <2>6, <2>7, <2>8 DEF FaultsNoted
<1>4. CASE ~BuildTriplesMap /\ ~ResolveParents
  <2>1. maps' = maps /\ refs' = refs /\ errors \subseteq errors' /\ (Built' <=> Built)
        /\ (triples' = triples \/ (DOMAIN maps = {} /\ phase = "read" /\ errors' = errors))
        /\ \A e \in errors' \ errors : e.what = "syntax"
    BY <1>4, MapsStay
  <2>2. \A e \in errors' : e.what = "object map" => Strategy(e.about)' = "unknown"
    <3>1. CASE triples' = triples
      BY <2>1, <3>1, SameTermMaps DEF IInv, FaultsNoted
    <3>2. CASE phase = "read" /\ errors' = errors
      BY <3>2 DEF IInv, Progress
    <3> QED
      BY <2>1, <3>1, <3>2
  <2>3. \A m \in DOMAIN maps : MapRefs(maps[m].id, m)' = MapRefs(maps[m].id, m)
                            /\ MapErrors(maps[m].id)' = MapErrors(maps[m].id)
    BY <2>1, SameMaps
  <2>4. \A r \in refs : Position(r.parent)' = Position(r.parent)
    BY <2>1, SamePositions
  <2>5. \A r : Error("parent", r.parent)' = Error("parent", r.parent)
    BY DEF Error
  <2>6. refs' = UNION { MapRefs(maps[m].id, m)' : m \in DOMAIN maps' }
    <3>1. \A r : r \in refs' <=> \E m \in DOMAIN maps' : r \in MapRefs(maps[m].id, m)'
      BY <2>1, <2>3 DEF IInv, FaultsNoted
    <3> QED
      BY <3>1
  <2>7. \A m \in DOMAIN maps' : MapErrors(maps[m].id)' \subseteq errors'
    BY <2>1, <2>3 DEF IInv, FaultsNoted
  <2>8. Built' => \A r \in refs' : Position(r.parent)' = 0 => Error("parent", r.parent) \in errors'
    BY <2>1, <2>4 DEF IInv, FaultsNoted
  <2> QED
    BY <2>2, <2>5, <2>6, <2>7, <2>8 DEF FaultsNoted
<1> QED
  BY <1>1, <1>2, <1>3, <1>4

LEMMA StepIInv == ASSUME IInv, [Next]_vars PROVE IInv'
<1>1. StoreKept'
  BY StatementStored, StoreStays DEF IInv
<1>2. Progress'
  BY StepProgress DEF IInv
<1> QED
  BY <1>1, <1>2, StepMapsBuilt, StepFaultsNoted DEF IInv

(* The invariant holds of every behaviour.                                 *)
LEMMA AlwaysIInv == Spec => []IInv
<1>1. IInv /\ [Next]_vars => IInv'
  BY StepIInv
<1> QED
  BY <1>1, InitIInv, PTL DEF Spec

-----------------------------------------------------------------------------
(***************************************************************************)
(* What is built is well formed.                                           *)
(***************************************************************************)
LEMMA NoneIsSequence == IsSequence(<< >>)
BY DEF IsSequence

LEMMA KnownFacts ==
  ASSUME NEW nodes, IsSequence(nodes)
  PROVE  /\ IsSequence(Known(nodes))
         /\ Elements(Known(nodes)) = { n \in Elements(nodes) : Strategy(n) # "unknown" }
         /\ Distinct(nodes) => Distinct(Known(nodes))
<1> DEFINE P == { k \in DOMAIN nodes : Strategy(nodes[k]) # "unknown" }
<1>1. P \in SUBSET DOMAIN nodes
  OBVIOUS
<1>2. Known(nodes) = Chosen(nodes, P)
  BY DEF Known
<1>3. \A n : n \in { nodes[i] : i \in P } <=> n \in Elements(nodes) /\ Strategy(n) # "unknown"
  BY DEF Elements
<1> HIDE DEF P
<1>4. IsSequence(Known(nodes)) /\ Elements(Known(nodes)) = { nodes[i] : i \in P }
      /\ (Distinct(nodes) => Distinct(Known(nodes)))
  BY <1>1, <1>2, ChosenFacts
<1>5. { nodes[i] : i \in P } = { n \in Elements(nodes) : Strategy(n) # "unknown" }
  BY <1>3
<1> QED
  BY <1>4, <1>5

LEMMA MapsOfFacts ==
  ASSUME NEW nodes, IsSequence(nodes)
  PROVE  /\ IsSequence(MapsOf(nodes)) /\ Len(MapsOf(nodes)) = Len(Known(nodes))
         /\ DOMAIN MapsOf(nodes) = DOMAIN Known(nodes)
         /\ \A i \in DOMAIN Known(nodes) : MapsOf(nodes)[i] = TermMapOf(Known(nodes)[i])
<1>1. IsSequence(Known(nodes))
  BY KnownFacts
<1>2. MapsOf(nodes) = [i \in DOMAIN Known(nodes) |-> TermMapOf(Known(nodes)[i])]
  BY DEF MapsOf
<1>3. /\ MapsOf(nodes) = [i \in DOMAIN MapsOf(nodes) |-> MapsOf(nodes)[i]]
      /\ DOMAIN MapsOf(nodes) = DOMAIN Known(nodes)
  BY <1>2
<1>4. IsSequence(MapsOf(nodes)) /\ Len(MapsOf(nodes)) = Len(Known(nodes))
  BY <1>1, <1>3, Mapped
<1> QED
  BY <1>2, <1>3, <1>4

LEMMA ShortcutsFacts ==
  ASSUME StoreKept, NEW s, NEW p
  PROVE  LET uris == Texts(s, p, {"uri"})
         IN  /\ IsSequence(Shortcuts(s, p)) /\ Len(Shortcuts(s, p)) = Len(uris)
             /\ DOMAIN Shortcuts(s, p) = DOMAIN uris
             /\ \A i \in DOMAIN uris : Shortcuts(s, p)[i] = Constant("iri", uris[i])
<1> DEFINE uris == Texts(s, p, {"uri"})
<1>1. IsSequence(uris)
  BY TextsFacts
<1>2. Shortcuts(s, p) = [i \in DOMAIN uris |-> Constant("iri", uris[i])]
  BY DEF Shortcuts
<1> HIDE DEF uris
<1>3. /\ Shortcuts(s, p) = [i \in DOMAIN Shortcuts(s, p) |-> Shortcuts(s, p)[i]]
      /\ DOMAIN Shortcuts(s, p) = DOMAIN uris
  BY <1>2
<1>4. IsSequence(Shortcuts(s, p)) /\ Len(Shortcuts(s, p)) = Len(uris)
  BY <1>1, <1>3, Mapped
<1>5. \A i \in DOMAIN uris : Shortcuts(s, p)[i] = Constant("iri", uris[i])
  BY <1>2
<1> QED
  BY <1>3, <1>4, <1>5 DEF uris

(* A list of shortcuts and of term maps: predicates and graphs.            *)
TermMaps(s, shortcut, p) == Shortcuts(s, shortcut) \o MapsOf(Nodes(s, p))

LEMMA TermMapsFacts ==
  ASSUME StoreKept, NEW s, NEW shortcut, NEW p
  PROVE  LET list  == TermMaps(s, shortcut, p)
             uris  == Texts(s, shortcut, {"uri"})
             known == Known(Nodes(s, p))
         IN  /\ IsSequence(list) /\ Len(list) = Len(uris) + Len(known)
             /\ \A i \in DOMAIN uris : i \in DOMAIN list /\ list[i] = Constant("iri", uris[i])
             /\ \A i \in DOMAIN known : Len(uris) + i \in DOMAIN list /\ list[Len(uris) + i] = TermMapOf(known[i])
<1> DEFINE a == Shortcuts(s, shortcut)
           b == MapsOf(Nodes(s, p))
           uris  == Texts(s, shortcut, {"uri"})
           known == Known(Nodes(s, p))
<1>1. IsSequence(a) /\ Len(a) = Len(uris) /\ DOMAIN a = DOMAIN uris
      /\ \A i \in DOMAIN uris : a[i] = Constant("iri", uris[i])
  BY ShortcutsFacts
<1>2. IsSequence(Nodes(s, p))
  BY TextsFacts DEF Nodes
<1>3. IsSequence(b) /\ Len(b) = Len(known) /\ DOMAIN b = DOMAIN known
      /\ \A i \in DOMAIN known : b[i] = TermMapOf(known[i])
  BY <1>2, MapsOfFacts
<1>4. TermMaps(s, shortcut, p) = a \o b
  BY DEF TermMaps
<1> HIDE DEF a, b, uris, known
<1>5. /\ IsSequence(a \o b) /\ Len(a \o b) = Len(a) + Len(b)
      /\ \A i \in DOMAIN a : i \in DOMAIN (a \o b) /\ (a \o b)[i] = a[i]
      /\ \A i \in DOMAIN b : Len(a) + i \in DOMAIN (a \o b) /\ (a \o b)[Len(a) + i] = b[i]
  BY <1>1, <1>3, Concatenated
<1>6. /\ IsSequence(TermMaps(s, shortcut, p)) /\ Len(TermMaps(s, shortcut, p)) = Len(uris) + Len(known)
      /\ \A i \in DOMAIN uris : /\ i \in DOMAIN TermMaps(s, shortcut, p)
                               /\ TermMaps(s, shortcut, p)[i] = Constant("iri", uris[i])
      /\ \A i \in DOMAIN known : Len(uris) + i \in DOMAIN TermMaps(s, shortcut, p)
                              /\ TermMaps(s, shortcut, p)[Len(uris) + i] = TermMapOf(known[i])
  BY <1>1, <1>3, <1>4, <1>5
<1> QED
  BY <1>6 DEF uris, known

(* An object is a reference that awaits its parent, or is none.            *)
Awaiting(om) == \E joins : om = [rom |-> TRUE, parent |-> 0, joins |-> joins]
Regular(om)  == \E map : om = [rom |-> FALSE, map |-> map]

LEMMA ObjectMapFacts ==
  ASSUME NEW node
  PROVE  /\ Strategy(node) = "reference" =>
              ObjectMapOf(node) = [rom |-> TRUE, parent |-> 0, joins |-> JoinsOf(node)]
         /\ Strategy(node) # "reference" =>
              ObjectMapOf(node) = [rom |-> FALSE, map |-> RegularMapOf(node)]
BY DEF ObjectMapOf

LEMMA ObjectKinds ==
  ASSUME NEW node
  PROVE  IF Strategy(node) = "reference" THEN Awaiting(ObjectMapOf(node)) ELSE Regular(ObjectMapOf(node))
<1>1. CASE Strategy(node) = "reference"
  <2>1. ObjectMapOf(node) = [rom |-> TRUE, parent |-> 0, joins |-> JoinsOf(node)]
    BY <1>1, ObjectMapFacts
  <2>2. Awaiting(ObjectMapOf(node))
    BY <2>1 DEF Awaiting
  <2> QED
    BY <1>1, <2>2
<1>2. CASE Strategy(node) # "reference"
  <2>1. ObjectMapOf(node) = [rom |-> FALSE, map |-> RegularMapOf(node)]
    BY <1>2, ObjectMapFacts
  <2>2. Regular(ObjectMapOf(node))
    BY <2>1 DEF Regular
  <2> QED
    BY <1>2, <2>2
<1> QED
  BY <1>1, <1>2

LEMMA ObjectResolvedFacts ==
  ASSUME NEW om, NEW place
  PROVE  /\ Regular(om) => om.rom = FALSE /\ ObjectResolved(om, place) = om
         /\ Awaiting(om) =>
              /\ om.rom = TRUE /\ om.parent = 0 /\ ObjectResolved(om, place).rom = TRUE
              /\ ObjectResolved(om, place).parent = Position(Awaited(place).parent)
              /\ ObjectResolved(om, place).joins = om.joins
<1>1. ASSUME Regular(om)
      PROVE  om.rom = FALSE /\ ObjectResolved(om, place) = om
  <2>1. PICK map : om = [rom |-> FALSE, map |-> map]
    BY <1>1 DEF Regular
  <2>2. om.rom = FALSE
    BY <2>1
  <2> QED
    BY <2>2 DEF ObjectResolved
<1>2. ASSUME Awaiting(om)
      PROVE  /\ om.rom = TRUE /\ om.parent = 0 /\ ObjectResolved(om, place).rom = TRUE
             /\ ObjectResolved(om, place).parent = Position(Awaited(place).parent)
             /\ ObjectResolved(om, place).joins = om.joins
  <2> DEFINE i == Position(Awaited(place).parent)
  <2>1. PICK joins : om = [rom |-> TRUE, parent |-> 0, joins |-> joins]
    BY <1>2 DEF Awaiting
  <2>2. om.rom = TRUE /\ om.parent = 0 /\ om.joins = joins
    BY <2>1
  <2>3. ObjectResolved(om, place) = [om EXCEPT !.parent = i]
    BY <2>2 DEF ObjectResolved
  <2> HIDE DEF i
  <2>4. [om EXCEPT !.parent = i] = [rom |-> TRUE, parent |-> i, joins |-> joins]
    <3>1. ASSUME NEW t, NEW z, NEW k
          PROVE  [[rom |-> t, parent |-> z, joins |-> joins] EXCEPT !.parent = k]
                   = [rom |-> t, parent |-> k, joins |-> joins]
      OBVIOUS
    <3> QED
      BY <2>1, <3>1, Zenon
  <2>5. /\ ObjectResolved(om, place).rom /\ ObjectResolved(om, place).parent = i
        /\ ObjectResolved(om, place).joins = joins
    BY <2>3, <2>4
  <2> QED
    BY <2>2, <2>5 DEF i
<1> QED
  BY <1>1, <1>2

(* The objects of a predicate-object map.                                  *)
LEMMA ObjectsOfPom ==
  ASSUME StoreKept, NEW n
  PROVE  LET objs  == PomOfNode(n).objs
             uris  == Texts(n, "object", {"uri"})
             known == Known(Nodes(n, "objectMap"))
         IN  /\ IsSequence(objs) /\ Len(objs) = Len(uris) + Len(known)
             /\ Len(ObjectShortcuts(n)) = Len(uris)
             /\ \A i \in DOMAIN uris : /\ i \in DOMAIN objs /\ Regular(objs[i])
                                      /\ objs[i] = [rom |-> FALSE, map |-> Constant("iri", uris[i])]
             /\ \A i \in DOMAIN known : Len(uris) + i \in DOMAIN objs /\ objs[Len(uris) + i] = ObjectMapOf(known[i])
             /\ \A o \in DOMAIN objs : o \in DOMAIN uris \/ \E i \in DOMAIN known : o = Len(uris) + i
<1> DEFINE a == ObjectShortcuts(n)
           known == Known(Nodes(n, "objectMap"))
           b == [i \in DOMAIN known |-> ObjectMapOf(known[i])]
           constants == Shortcuts(n, "object")
           uris == Texts(n, "object", {"uri"})
<1>1. PomOfNode(n).objs = a \o b
  BY DEF PomOfNode
<1>2. IsSequence(constants) /\ Len(constants) = Len(uris) /\ DOMAIN constants = DOMAIN uris
      /\ \A i \in DOMAIN uris : constants[i] = Constant("iri", uris[i])
  BY ShortcutsFacts
<1>3. a = [i \in DOMAIN constants |-> [rom |-> FALSE, map |-> constants[i]]]
  BY DEF ObjectShortcuts
<1>4. IsSequence(known)
  BY TextsFacts, KnownFacts DEF Nodes
<1> HIDE DEF a, constants, uris, known
<1>5. IsSequence(a) /\ Len(a) = Len(uris) /\ DOMAIN a = DOMAIN uris
  <2>1. DOMAIN a = DOMAIN constants /\ a = [i \in DOMAIN a |-> a[i]]
    BY <1>3
  <2> QED
    BY <1>2, <2>1, Mapped
<1>6. \A i \in DOMAIN uris : a[i] = [rom |-> FALSE, map |-> Constant("iri", uris[i])]
  BY <1>2, <1>3
<1>7. \A i \in DOMAIN known : b[i] = ObjectMapOf(known[i])
  OBVIOUS
<1>8. IsSequence(b) /\ Len(b) = Len(known) /\ DOMAIN b = DOMAIN known
  <2>1. DOMAIN b = DOMAIN known /\ b = [i \in DOMAIN b |-> b[i]]
    OBVIOUS
  <2> HIDE DEF b
  <2> QED
    BY <1>4, <2>1, Mapped
<1> HIDE DEF b
<1>9. /\ IsSequence(a \o b) /\ Len(a \o b) = Len(a) + Len(b)
      /\ \A i \in DOMAIN a : i \in DOMAIN (a \o b) /\ (a \o b)[i] = a[i]
      /\ \A i \in DOMAIN b : Len(a) + i \in DOMAIN (a \o b) /\ (a \o b)[Len(a) + i] = b[i]
  BY <1>5, <1>8, Concatenated
<1>10. \A k \in DOMAIN (a \o b) : k \in DOMAIN a \/ \E i \in DOMAIN b : k = Len(a) + i
  BY <1>5, <1>8, Concatenated, Zenon
<1>11. \A i \in DOMAIN uris : i \in DOMAIN (a \o b) /\ (a \o b)[i] = [rom |-> FALSE, map |-> Constant("iri", uris[i])]
  BY <1>5, <1>6, <1>9
<1>12. \A i \in DOMAIN uris : Regular((a \o b)[i])
  BY <1>11 DEF Regular
<1>13. \A i \in DOMAIN known : Len(uris) + i \in DOMAIN (a \o b) /\ (a \o b)[Len(uris) + i] = ObjectMapOf(known[i])
  BY <1>5, <1>7, <1>8, <1>9
<1> DEFINE objs == PomOfNode(n).objs
<1>14. Len(ObjectShortcuts(n)) = Len(uris)
  BY <1>5 DEF a
<1>15. objs = a \o b
  BY <1>1
<1> HIDE DEF objs
<1>16. IsSequence(objs) /\ Len(objs) = Len(uris) + Len(known)
  BY <1>5, <1>8, <1>9, <1>15
<1>17. \A i \in DOMAIN uris : /\ i \in DOMAIN objs /\ Regular(objs[i])
                            /\ objs[i] = [rom |-> FALSE, map |-> Constant("iri", uris[i])]
  BY <1>11, <1>12, <1>15
<1>18. \A i \in DOMAIN known : Len(uris) + i \in DOMAIN objs /\ objs[Len(uris) + i] = ObjectMapOf(known[i])
  BY <1>13, <1>15
<1>19. \A o \in DOMAIN objs : o \in DOMAIN uris \/ \E i \in DOMAIN known : o = Len(uris) + i
  BY <1>5, <1>8, <1>10, <1>15
<1> QED
  BY <1>14, <1>16, <1>17, <1>18, <1>19, Zenon DEF objs, uris, known

(* The predicate-object maps of a name.                                    *)
PomNodes(name) == Nodes(name, "predicateObjectMap")

LEMMA BuiltMap ==
  ASSUME NEW name
  PROVE  LET tm == TriplesMapOf(name)
             subject == FirstNode(name, "subjectMap")
             table == FirstNode(name, "logicalTable")
         IN  /\ tm.table = IF table = EmptyText THEN NoTable ELSE TableOf(table)
             /\ tm.subject = IF subject = EmptyText THEN Value("absent", "iri", "", << >>) ELSE SubjectMapOf(subject)
             /\ tm.classes = IF subject = EmptyText THEN << >> ELSE Texts(subject, "class", {"uri"})
             /\ tm.graphs = IF subject = EmptyText THEN << >> ELSE GraphMapsOf(subject)
             /\ tm.poms = [i \in DOMAIN PomNodes(name) |-> PomOfNode(PomNodes(name)[i])]
BY DEF TriplesMapOf, PomNodes

LEMMA MapIs ==
  ASSUME IInv, NEW m \in DOMAIN maps
  PROVE  LET tm == TriplesMapOf(maps[m].id)
         IN  /\ maps[m].table = tm.table /\ maps[m].subject = tm.subject
             /\ maps[m].classes = tm.classes /\ maps[m].graphs = tm.graphs
             /\ IsSequence(maps[m].poms) /\ Len(maps[m].poms) = Len(PomNodes(maps[m].id))
             /\ DOMAIN maps[m].poms = DOMAIN PomNodes(maps[m].id)
             /\ \A p \in DOMAIN PomNodes(maps[m].id) :
                  maps[m].poms[p] = IF Built THEN PomResolved(PomOfNode(PomNodes(maps[m].id)[p]), m, p)
                                    ELSE PomOfNode(PomNodes(maps[m].id)[p])
<1> DEFINE name == maps[m].id
           tm == TriplesMapOf(name)
           nodes == PomNodes(name)
<1>1. maps[m] = IF Built THEN MapResolved(tm, m) ELSE tm
  BY DEF IInv, MapsBuilt, MapAt
<1>2. tm.poms = [i \in DOMAIN nodes |-> PomOfNode(nodes[i])]
  BY BuiltMap
<1>3. /\ MapResolved(tm, m).table = tm.table /\ MapResolved(tm, m).subject = tm.subject
      /\ MapResolved(tm, m).classes = tm.classes /\ MapResolved(tm, m).graphs = tm.graphs
      /\ MapResolved(tm, m).poms = [p \in DOMAIN tm.poms |-> PomResolved(tm.poms[p], m, p)]
  BY ResolvedFacts
<1>4. IsSequence(nodes)
  BY TextsFacts DEF IInv, Nodes, PomNodes
<1> HIDE DEF tm, nodes, name
<1>5. DOMAIN maps[m].poms = DOMAIN nodes /\ maps[m].poms = [p \in DOMAIN maps[m].poms |-> maps[m].poms[p]]
  <2>1. CASE Built
    <3>1. maps[m].poms = [p \in DOMAIN tm.poms |-> PomResolved(tm.poms[p], m, p)]
      BY <1>1, <1>3, <2>1
    <3> QED
      BY <1>2, <3>1
  <2>2. CASE ~Built
    <3>1. maps[m].poms = tm.poms
      BY <1>1, <2>2
    <3> QED
      BY <1>2, <3>1
  <2> QED
    BY <2>1, <2>2
<1>6. ASSUME NEW p \in DOMAIN nodes
      PROVE  maps[m].poms[p] = IF Built THEN PomResolved(PomOfNode(nodes[p]), m, p) ELSE PomOfNode(nodes[p])
  <2>1. tm.poms[p] = PomOfNode(nodes[p]) /\ p \in DOMAIN tm.poms
    BY <1>2
  <2>2. Built => maps[m].poms = [q \in DOMAIN tm.poms |-> PomResolved(tm.poms[q], m, q)]
    BY <1>1, <1>3
  <2>3. ~Built => maps[m].poms = tm.poms
    BY <1>1
  <2> QED
    BY <2>1, <2>2, <2>3
<1>7. IsSequence(maps[m].poms) /\ Len(maps[m].poms) = Len(nodes)
  BY <1>4, <1>5, Mapped
<1>8. /\ maps[m].table = tm.table /\ maps[m].subject = tm.subject
      /\ maps[m].classes = tm.classes /\ maps[m].graphs = tm.graphs
  BY <1>1, <1>3
<1> QED
  BY <1>5, <1>6, <1>7, <1>8, Zenon DEF tm, nodes, name

LEMMA PomIs ==
  ASSUME IInv, NEW m \in DOMAIN maps, NEW p \in DOMAIN PomNodes(maps[m].id)
  PROVE  LET pom  == maps[m].poms[p]
             node == PomNodes(maps[m].id)[p]
         IN  /\ pom.preds = TermMaps(node, "predicate", "predicateMap")
             /\ pom.graphs = TermMaps(node, "graph", "graphMap")
             /\ IsSequence(pom.objs) /\ Len(pom.objs) = Len(PomOfNode(node).objs)
             /\ DOMAIN pom.objs = DOMAIN PomOfNode(node).objs
             /\ \A o \in DOMAIN pom.objs :
                  pom.objs[o] = IF Built THEN ObjectResolved(PomOfNode(node).objs[o], << m, p, o >>)
                                ELSE PomOfNode(node).objs[o]
<1> DEFINE pom == maps[m].poms[p]
           node == PomNodes(maps[m].id)[p]
           objs == PomOfNode(node).objs
           preds == TermMaps(node, "predicate", "predicateMap")
           graphs == TermMaps(node, "graph", "graphMap")
<1>1. PomOfNode(node) = [preds |-> preds, objs |-> objs, graphs |-> graphs]
  BY DEF PomOfNode, TermMaps, GraphMapsOf
<1>2. pom = IF Built THEN PomResolved(PomOfNode(node), m, p) ELSE PomOfNode(node)
  BY MapIs
<1>3. IsSequence(objs)
  BY ObjectsOfPom DEF IInv
<1> HIDE DEF objs, preds, graphs, node, pom
<1>4. PomResolved(PomOfNode(node), m, p) =
        [preds |-> preds, objs |-> [o \in DOMAIN objs |-> ObjectResolved(objs[o], << m, p, o >>)], graphs |-> graphs]
  BY <1>1, PomResolvedFacts
<1>5. pom.preds = preds /\ pom.graphs = graphs
      /\ pom.objs = IF Built THEN [o \in DOMAIN objs |-> ObjectResolved(objs[o], << m, p, o >>)] ELSE objs
  <2>1. CASE Built
    <3>1. pom = [preds |-> preds,
                 objs |-> [o \in DOMAIN objs |-> ObjectResolved(objs[o], << m, p, o >>)], graphs |-> graphs]
      BY <1>2, <1>4, <2>1
    <3> QED
      BY <2>1, <3>1
  <2>2. CASE ~Built
    <3>1. pom = [preds |-> preds, objs |-> objs, graphs |-> graphs]
      BY <1>1, <1>2, <2>2
    <3> QED
      BY <2>2, <3>1
  <2> QED
    BY <2>1, <2>2
<1>6. DOMAIN pom.objs = DOMAIN objs /\ pom.objs = [o \in DOMAIN pom.objs |-> pom.objs[o]]
  <2>1. objs = [o \in DOMAIN objs |-> objs[o]]
    BY <1>3 DEF IsSequence
  <2> QED
    BY <1>5, <2>1
<1>7. IsSequence(pom.objs) /\ Len(pom.objs) = Len(objs)
  BY <1>3, <1>6, Mapped
<1>8. \A o \in DOMAIN pom.objs : pom.objs[o] = IF Built THEN ObjectResolved(objs[o], << m, p, o >>) ELSE objs[o]
  BY <1>5, <1>6
<1> QED
  BY <1>5, <1>6, <1>7, <1>8, Zenon DEF objs, preds, graphs, node, pom

LEMMA PositionFacts ==
  ASSUME IInv, NEW name
  PROVE  /\ Position(name) \in 0 .. Len(maps)
         /\ IF Position(name) = 0 THEN \A m \in DOMAIN maps : maps[m].id # name
            ELSE Position(name) \in DOMAIN maps /\ maps[Position(name)].id = name
<1> DEFINE found == { i \in DOMAIN maps : maps[i].id = name }
<1>1. Len(maps) \in Nat /\ DOMAIN maps = 1 .. Len(maps)
  BY SequenceFacts DEF IInv, MapsBuilt
<1>2. found \in SUBSET (1 .. Len(maps))
  BY <1>1
<1>3. found # {} => FirstOf(found) \in found
  BY <1>1, <1>2, FirstOfFacts
<1>4. found = {} => FirstOf(found) = 0
  BY DEF FirstOf
<1>5. Position(name) = FirstOf(found)
  BY DEF Position
<1>6. CASE found = {}
  <2>1. \A m \in DOMAIN maps : maps[m].id # name
    BY <1>6
  <2>2. Position(name) = 0
    BY <1>4, <1>5, <1>6
  <2> QED
    BY <1>1, <2>1, <2>2
<1>7. CASE found # {}
  <2>1. Position(name) \in found
    BY <1>3, <1>5, <1>7
  <2>2. Position(name) \in DOMAIN maps /\ maps[Position(name)].id = name
    BY <2>1
  <2>3. Position(name) \in 1 .. Len(maps)
    BY <1>1, <2>2
  <2> HIDE DEF found
  <2>4. Position(name) \in 0 .. Len(maps) /\ Position(name) # 0
    BY <1>1, <2>3
  <2> QED
    BY <2>2, <2>4
<1> QED
  BY <1>6, <1>7

(* Every object of a map is regular or a reference with some parent.       *)
LEMMA ObjectIs ==
  ASSUME IInv, NEW m \in DOMAIN maps, NEW p \in DOMAIN PomNodes(maps[m].id),
         NEW o \in DOMAIN maps[m].poms[p].objs
  PROVE  LET om == maps[m].poms[p].objs[o]
             was == PomOfNode(PomNodes(maps[m].id)[p]).objs[o]
         IN  /\ Regular(was) \/ Awaiting(was)
             /\ Regular(was) => om.rom = FALSE /\ om = was
             /\ Awaiting(was) =>
                  /\ om.rom = TRUE /\ om.joins = was.joins
                  /\ om.parent = IF Built THEN Position(Awaited(<< m, p, o >>).parent) ELSE 0
<1> DEFINE node == PomNodes(maps[m].id)[p]
           uris == Texts(node, "object", {"uri"})
           known == Known(Nodes(node, "objectMap"))
           was == PomOfNode(node).objs[o]
           om == maps[m].poms[p].objs[o]
<1>1. o \in DOMAIN PomOfNode(node).objs /\ om = IF Built THEN ObjectResolved(was, << m, p, o >>) ELSE was
  BY PomIs
<1>2. Regular(was) \/ Awaiting(was)
  <2>1. /\ \A i \in DOMAIN uris : Regular(PomOfNode(node).objs[i])
        /\ \A i \in DOMAIN known : PomOfNode(node).objs[Len(uris) + i] = ObjectMapOf(known[i])
        /\ o \in DOMAIN uris \/ \E i \in DOMAIN known : o = Len(uris) + i
    BY <1>1, ObjectsOfPom DEF IInv
  <2>2. CASE o \in DOMAIN uris
    BY <2>1, <2>2
  <2>3. CASE o \notin DOMAIN uris
    <3>1. PICK i \in DOMAIN known : o = Len(uris) + i
      BY <2>1, <2>3
    <3>2. was = ObjectMapOf(known[i])
      BY <2>1, <3>1
    <3>3. Regular(ObjectMapOf(known[i])) \/ Awaiting(ObjectMapOf(known[i]))
      BY ObjectKinds
    <3> QED
      BY <3>2, <3>3
  <2> QED
    BY <2>2, <2>3
<1> HIDE DEF was, om
<1>3. ASSUME Regular(was)
      PROVE  om.rom = FALSE /\ om = was
  <2>1. was.rom = FALSE /\ ObjectResolved(was, << m, p, o >>) = was
    BY <1>3, ObjectResolvedFacts
  <2>2. om = was
    BY <1>1, <2>1
  <2> QED
    BY <2>1, <2>2
<1>4. ASSUME Awaiting(was)
      PROVE  /\ om.rom = TRUE /\ om.joins = was.joins
             /\ om.parent = IF Built THEN Position(Awaited(<< m, p, o >>).parent) ELSE 0
  <2>1. /\ was.rom = TRUE /\ was.parent = 0 /\ ObjectResolved(was, << m, p, o >>).rom = TRUE
        /\ ObjectResolved(was, << m, p, o >>).parent = Position(Awaited(<< m, p, o >>).parent)
        /\ ObjectResolved(was, << m, p, o >>).joins = was.joins
    BY <1>4, ObjectResolvedFacts
  <2>2. CASE Built
    <3>1. om = ObjectResolved(was, << m, p, o >>)
      BY <1>1, <2>2
    <3> QED
      BY <2>1, <2>2, <3>1
  <2>3. CASE ~Built
    <3>1. om = was
      BY <1>1, <2>3
    <3> QED
      BY <2>1, <2>3, <3>1
  <2> QED
    BY <2>2, <2>3
<1> QED
  BY <1>2, <1>3, <1>4 DEF was, om

(* Where a reference with a place is.                                      *)
ReferenceIn(r, m, p, i) ==
  /\ m \in DOMAIN maps /\ p \in DOMAIN PomNodes(maps[m].id)
  /\ LET node  == PomNodes(maps[m].id)[p]
         known == Known(Nodes(node, "objectMap"))
     IN  /\ i \in DOMAIN known /\ Strategy(known[i]) = "reference"
         /\ r = Reference(known[i], << m, p, Len(Texts(node, "object", {"uri"})) + i >>)

LEMMA ReferenceIs ==
  ASSUME IInv, NEW r \in refs, r.place # << >>
  PROVE  \E m, p, i : ReferenceIn(r, m, p, i)
<1>1. PICK m \in DOMAIN maps : r \in MapRefs(maps[m].id, m)
  BY DEF IInv, FaultsNoted
<1>2. \A n, q : r \notin StrayRefs(n, q)
  <2> SUFFICES ASSUME NEW n, NEW q, r \in StrayRefs(n, q) PROVE FALSE
    OBVIOUS
  <2>1. PICK i : r = Reference(Nodes(n, q)[i], << >>)
    BY DEF StrayRefs
  <2>2. r.place = << >>
    BY <2>1 DEF Reference
  <2> QED
    BY <2>2
<1> DEFINE nodes == PomNodes(maps[m].id)
<1>3. PICK p \in DOMAIN nodes : r \in PomRefs(nodes[p], m, p)
  BY <1>1, <1>2, Zenon DEF MapRefs, PomNodes
<1> DEFINE node == nodes[p]
           known == Known(Nodes(node, "objectMap"))
           uris == Texts(node, "object", {"uri"})
<1>4. Len(ObjectShortcuts(node)) = Len(uris)
  BY ObjectsOfPom DEF IInv
<1>5. PICK i \in DOMAIN known : Strategy(known[i]) = "reference"
                            /\ r = Reference(known[i], << m, p, Len(ObjectShortcuts(node)) + i >>)
  BY <1>3, Zenon DEF PomRefs
<1> HIDE DEF known, uris, node, nodes
<1>6. r = Reference(known[i], << m, p, Len(uris) + i >>)
  BY <1>4, <1>5
<1>7. ReferenceIn(r, m, p, i)
  BY <1>3, <1>5, <1>6, Zenon DEF ReferenceIn, known, uris, node, nodes
<1> QED
  BY <1>7

(* The object map that a reference awaits its parent for.                  *)
LEMMA ReferenceAt ==
  ASSUME IInv, NEW r \in refs, r.place # << >>
  PROVE  /\ r.place = << r.place[1], r.place[2], r.place[3] >>
         /\ r.place[1] \in DOMAIN maps
         /\ r.place[2] \in DOMAIN PomNodes(maps[r.place[1]].id)
         /\ r.place[3] \in DOMAIN maps[r.place[1]].poms[r.place[2]].objs
         /\ Awaiting(PomOfNode(PomNodes(maps[r.place[1]].id)[r.place[2]]).objs[r.place[3]])
<1>1. PICK m, p, i : ReferenceIn(r, m, p, i)
  BY ReferenceIs
<1> DEFINE node == PomNodes(maps[m].id)[p]
           known == Known(Nodes(node, "objectMap"))
           before == Len(Texts(node, "object", {"uri"}))
<1>2. m \in DOMAIN maps /\ p \in DOMAIN PomNodes(maps[m].id)
  BY <1>1 DEF ReferenceIn
<1>3. i \in DOMAIN known /\ Strategy(known[i]) = "reference" /\ r = Reference(known[i], << m, p, before + i >>)
  BY <1>1 DEF ReferenceIn
<1>4. r.place = << m, p, before + i >>
  BY <1>3 DEF Reference
<1>5. before + i \in DOMAIN PomOfNode(node).objs /\ PomOfNode(node).objs[before + i] = ObjectMapOf(known[i])
  BY <1>3, ObjectsOfPom DEF IInv
<1>6. Awaiting(ObjectMapOf(known[i]))
  BY <1>3, ObjectKinds
<1>7. before + i \in DOMAIN maps[m].poms[p].objs
  BY <1>2, <1>5, PomIs
<1>8. Awaiting(PomOfNode(node).objs[before + i])
  BY <1>5, <1>6
<1> HIDE DEF before
<1>9. r.place[1] = m /\ r.place[2] = p /\ r.place[3] = before + i
  BY <1>4
<1> QED
  BY <1>2, <1>4, <1>7, <1>8, <1>9

(* The parts of a map are vectors.                                         *)
LEMMA MapVectors ==
  ASSUME IInv, NEW m \in DOMAIN maps
  PROVE  IsSequence(maps[m].classes) /\ IsSequence(maps[m].graphs) /\ IsSequence(maps[m].poms)
<1> DEFINE name == maps[m].id
           subject == FirstNode(name, "subjectMap")
<1>1. /\ maps[m].classes = IF subject = EmptyText THEN << >> ELSE Texts(subject, "class", {"uri"})
      /\ maps[m].graphs = IF subject = EmptyText THEN << >> ELSE GraphMapsOf(subject)
  BY MapIs, BuiltMap
<1>2. IsSequence(Texts(subject, "class", {"uri"}))
  BY TextsFacts DEF IInv
<1>3. IsSequence(GraphMapsOf(subject))
  <2>1. GraphMapsOf(subject) = TermMaps(subject, "graph", "graphMap")
    BY DEF GraphMapsOf, TermMaps
  <2>2. IsSequence(TermMaps(subject, "graph", "graphMap"))
    BY TermMapsFacts DEF IInv
  <2> QED
    BY <2>1, <2>2
<1>4. IsSequence(maps[m].poms)
  BY MapIs
<1> HIDE DEF subject
<1> QED
  BY <1>1, <1>2, <1>3, <1>4, NoneIsSequence

LEMMA PomWellBuilt ==
  ASSUME IInv, NEW m \in DOMAIN maps, NEW p \in DOMAIN maps[m].poms
  PROVE  PomWellFormed(maps, maps[m].poms[p])
<1>1. p \in DOMAIN PomNodes(maps[m].id)
  BY MapIs
<1> DEFINE pom == maps[m].poms[p]
           node == PomNodes(maps[m].id)[p]
<1>2. pom.preds = TermMaps(node, "predicate", "predicateMap") /\ pom.graphs = TermMaps(node, "graph", "graphMap")
      /\ IsSequence(pom.objs)
  BY <1>1, PomIs
<1>3. IsSequence(TermMaps(node, "predicate", "predicateMap")) /\ IsSequence(TermMaps(node, "graph", "graphMap"))
  BY TermMapsFacts DEF IInv
<1>4. ASSUME NEW o \in DOMAIN pom.objs
      PROVE  pom.objs[o].rom \in BOOLEAN /\ (pom.objs[o].rom => pom.objs[o].parent \in 0 .. Len(maps))
  <2> DEFINE om == pom.objs[o]
             was == PomOfNode(node).objs[o]
  <2>1. /\ Regular(was) \/ Awaiting(was)
        /\ Regular(was) => om.rom = FALSE /\ om = was
        /\ Awaiting(was) => /\ om.rom = TRUE
                            /\ om.parent = IF Built THEN Position(Awaited(<< m, p, o >>).parent) ELSE 0
    BY <1>1, ObjectIs
  <2> HIDE DEF was, om
  <2>2. CASE Regular(was)
    BY <2>1, <2>2 DEF om
  <2>3. CASE Awaiting(was)
    <3>1. om.parent \in 0 .. Len(maps)
      <4>1. Len(maps) \in Nat
        BY SequenceFacts DEF IInv, MapsBuilt
      <4>2. 0 \in 0 .. Len(maps)
        BY <4>1
      <4> QED
        BY <2>1, <2>3, <4>2, PositionFacts
    <3> QED
      BY <2>1, <2>3, <3>1 DEF om
  <2> QED
    BY <2>1, <2>2, <2>3
<1> HIDE DEF pom
<1>5. PomWellFormed(maps, pom)
  BY <1>2, <1>3, <1>4 DEF PomWellFormed
<1> QED
  BY <1>5 DEF pom

(* What is built is a mapping as the executor takes it, and a reference    *)
(* awaits its parent at a referencing object map, of whatever size the     *)
(* document is and in whatever order it was read.                          *)
THEOREM TypeCorrect == Spec => []TypeOK
<1>1. ASSUME IInv
      PROVE  TypeOK
  <2>1. unread \subseteq document
    BY <1>1 DEF IInv, StoreKept
  <2>2. \A m \in DOMAIN maps : MapWellFormed(maps, maps[m])
    BY <1>1, MapVectors, PomWellBuilt DEF MapWellFormed
  <2>3. ASSUME NEW r \in refs, r.place # << >>
        PROVE  LET objs == maps[r.place[1]].poms[r.place[2]].objs
               IN  r.place[3] \in DOMAIN objs /\ objs[r.place[3]].rom
    <3> DEFINE om == maps[r.place[1]].poms[r.place[2]].objs[r.place[3]]
    <3>1. om.rom = TRUE
      BY <1>1, <2>3, ReferenceAt, ObjectIs, Zenon
    <3>2. r.place[3] \in DOMAIN maps[r.place[1]].poms[r.place[2]].objs
      BY <1>1, <2>3, ReferenceAt
    <3> QED
      BY <3>1, <3>2
  <2>4. next \in 1 .. Len(Names) + 1 /\ phase \in {"read", "build", "report", "returned", "thrown"}
    BY <1>1 DEF IInv, Progress
  <2> QED
    BY <2>1, <2>2, <2>3, <2>4 DEF TypeOK
<1>2. IInv => TypeOK
  BY <1>1
<1> QED
  BY <1>2, AlwaysIInv, PTL

-----------------------------------------------------------------------------
(***************************************************************************)
(* What is missing in a mapping has an error.                              *)
(***************************************************************************)
(* A place awaits one parent.                                              *)
LEMMA OneReference ==
  ASSUME IInv, NEW r \in refs, NEW q \in refs, r.place # << >>, r.place = q.place
  PROVE  r = q
<1>1. PICK m, p, i : ReferenceIn(r, m, p, i)
  BY ReferenceIs
<1>2. q.place # << >>
  OBVIOUS
<1>3. PICK mq, pq, iq : ReferenceIn(q, mq, pq, iq)
  BY <1>2, ReferenceIs
<1>4. m = mq /\ p = pq
  BY <1>1, <1>3 DEF ReferenceIn, Reference
<1> DEFINE node == PomNodes(maps[m].id)[p]
           known == Known(Nodes(node, "objectMap"))
           before == Len(Texts(node, "object", {"uri"}))
<1>5. i \in DOMAIN known /\ r = Reference(known[i], << m, p, before + i >>)
      /\ iq \in DOMAIN known /\ q = Reference(known[iq], << m, p, before + iq >>)
  BY <1>1, <1>3, <1>4 DEF ReferenceIn
<1>6. DOMAIN known = 1 .. Len(known) /\ Len(known) \in Nat /\ before \in Nat
  BY KnownFacts, TextsFacts, SequenceFacts DEF IInv, Nodes
<1> HIDE DEF known, before
<1>7. before + i = before + iq
  BY <1>5 DEF Reference
<1>8. i = iq
  BY <1>5, <1>6, <1>7
<1> QED
  BY <1>5, <1>8

LEMMA ParentGaps == ASSUME IInv, Built PROVE ParentGapsReported
<1> SUFFICES ASSUME NEW r \in refs, r.place # << >>,
                    maps[r.place[1]].poms[r.place[2]].objs[r.place[3]].parent = 0
             PROVE  Error("parent", r.parent) \in errors
  BY DEF ParentGapsReported
<1>1. /\ r.place = << r.place[1], r.place[2], r.place[3] >>
      /\ r.place[1] \in DOMAIN maps
      /\ r.place[2] \in DOMAIN PomNodes(maps[r.place[1]].id)
      /\ r.place[3] \in DOMAIN maps[r.place[1]].poms[r.place[2]].objs
      /\ Awaiting(PomOfNode(PomNodes(maps[r.place[1]].id)[r.place[2]]).objs[r.place[3]])
  BY ReferenceAt
<1>2. maps[r.place[1]].poms[r.place[2]].objs[r.place[3]].parent
        = Position(Awaited(<< r.place[1], r.place[2], r.place[3] >>).parent)
  BY <1>1, ObjectIs
<1>3. Awaited(r.place) = r
  <2>1. Awaited(r.place) \in refs /\ Awaited(r.place).place = r.place
    BY DEF Awaited
  <2> QED
    BY <2>1, OneReference
<1>4. Position(r.parent) = 0
  BY <1>1, <1>2, <1>3
<1> QED
  BY <1>4 DEF IInv, FaultsNoted

LEMMA TableGaps == ASSUME IInv, NEW m \in DOMAIN maps PROVE TableGapReported(maps[m])
<1> DEFINE name == maps[m].id
           node == FirstNode(name, "logicalTable")
<1>1. maps[m].table = IF node = EmptyText THEN NoTable ELSE TableOf(node)
  BY MapIs, BuiltMap
<1>2. ASSUME maps[m].table = NoTable, node # EmptyText
      PROVE  Error("logical table", node) \in errors
  <2>1. node \in { x \in {node} \ {EmptyText} : TableOf(x) = NoTable }
    BY <1>1, <1>2
  <2>2. Error("logical table", node) \in MapErrors(name)
    BY <2>1, Zenon DEF MapErrors
  <2> QED
    BY <2>2 DEF IInv, FaultsNoted
<1> QED
  BY <1>2 DEF TableGapReported

(* Nodes of a kind and nodes of none are all nodes.                        *)
LEMMA KnownCount ==
  ASSUME NEW nodes, IsSequence(nodes), Distinct(nodes)
  PROVE  Len(Known(nodes)) + Cardinality({ n \in Elements(nodes) : Strategy(n) = "unknown" })
           = Cardinality(Elements(nodes))
<1> DEFINE known == { n \in Elements(nodes) : Strategy(n) # "unknown" }
           unknown == { n \in Elements(nodes) : Strategy(n) = "unknown" }
<1>1. IsFiniteSet(Elements(nodes))
  BY Counted
<1>2. Len(Known(nodes)) = Cardinality(known)
  BY KnownFacts, Counted
<1>3. known \in SUBSET Elements(nodes) /\ unknown \in SUBSET Elements(nodes)
      /\ known \cup unknown = Elements(nodes) /\ known \cap unknown = {}
  OBVIOUS
<1> HIDE DEF known, unknown
<1>4. IsFiniteSet(known) /\ IsFiniteSet(unknown) /\ Cardinality(known) \in Nat /\ Cardinality(unknown) \in Nat
  BY <1>1, <1>3, FS_Subset, FS_CardinalityType
<1>5. Cardinality(known \cup unknown) = Cardinality(known) + Cardinality(unknown) - Cardinality(known \cap unknown)
  BY <1>4, FS_Union
<1>6. Cardinality(known \cap unknown) = 0
  BY <1>3, FS_EmptySet
<1>7. Cardinality(Elements(nodes)) = Cardinality(known) + Cardinality(unknown)
  BY <1>3, <1>4, <1>5, <1>6
<1> QED
  BY <1>2, <1>7 DEF unknown

LEMMA ObjectGaps == ASSUME IInv, NEW m \in DOMAIN maps PROVE ObjectGapsReported(maps[m])
<1> DEFINE name == maps[m].id
           pomNodes == PomNodes(name)
<1> SUFFICES ASSUME NEW p \in DOMAIN maps[m].poms
             PROVE  LET said   == Elements(Nodes(pomNodes[p], "objectMap"))
                        faulty == { n \in said : Error("object map", n) \in errors }
                    IN  Len(maps[m].poms[p].objs) + Cardinality(faulty)
                          = Cardinality(said) + Len(Texts(pomNodes[p], "object", {"uri"}))
  BY Zenon DEF ObjectGapsReported, PomNodes
<1> DEFINE node == pomNodes[p]
           nodes == Nodes(node, "objectMap")
           uris == Texts(node, "object", {"uri"})
           said == Elements(nodes)
           faulty == { n \in said : Error("object map", n) \in errors }
           unknown == { n \in said : Strategy(n) = "unknown" }
<1>1. p \in DOMAIN pomNodes
  BY MapIs
<1>2. IsSequence(nodes) /\ Distinct(nodes) /\ IsSequence(uris)
  BY TextsFacts DEF IInv, Nodes, Telling
<1>3. Len(maps[m].poms[p].objs) = Len(uris) + Len(Known(nodes))
  <2>1. Len(maps[m].poms[p].objs) = Len(PomOfNode(node).objs)
    BY <1>1, PomIs
  <2>2. Len(PomOfNode(node).objs) = Len(uris) + Len(Known(nodes))
    BY ObjectsOfPom DEF IInv
  <2> QED
    BY <2>1, <2>2
<1>4. ASSUME NEW n \in said, Strategy(n) = "unknown"
      PROVE  Error("object map", n) \in errors
  <2>1. n \in Unknown(nodes)
    BY <1>4 DEF Unknown, Elements
  <2>2. Error("object map", n) \in PomErrors(node)
    BY <2>1, Zenon DEF PomErrors
  <2>3. PomErrors(node) \subseteq MapErrors(name)
    BY <1>1, Zenon DEF MapErrors, PomNodes
  <2> QED
    BY <2>2, <2>3 DEF IInv, FaultsNoted
<1>5. ASSUME NEW n \in said, Error("object map", n) \in errors
      PROVE  Strategy(n) = "unknown"
  <2>1. Error("object map", n).what = "object map" /\ Error("object map", n).about = n
    BY ErrorIs
  <2> QED
    BY <1>5, <2>1 DEF IInv, FaultsNoted
<1>6. faulty = unknown
  BY <1>4, <1>5
<1>7. Len(Known(nodes)) + Cardinality(unknown) = Cardinality(said)
  BY <1>2, KnownCount
<1>8. Len(Known(nodes)) \in Nat /\ Len(uris) \in Nat /\ Cardinality(unknown) \in Nat
  <2>1. IsFiniteSet(said) /\ unknown \in SUBSET said
    BY <1>2, Counted
  <2> QED
    BY <1>2, <2>1, KnownFacts, SequenceFacts, FS_Subset, FS_CardinalityType
<1> HIDE DEF unknown, faulty, said, uris, nodes
<1>9. Len(maps[m].poms[p].objs) + Cardinality(faulty) = Cardinality(said) + Len(uris)
  BY <1>3, <1>6, <1>7, <1>8
<1> QED
  BY <1>9 DEF faulty, said, uris, nodes

(* Whatever the document, the order and the statements lost, each part     *)
(* that a mapping lacks is named by an error: a parent that is no triples  *)
(* map, a logical table and an object map of no kind.                      *)
THEOREM GapsHaveErrors == Spec => []GapsAreReported
<1>1. ASSUME IInv
      PROVE  GapsAreReported
  <2>1. phase \in {"report", "returned"} => ParentGapsReported
    BY <1>1, ParentGaps DEF Built
  <2> QED
    BY <1>1, <2>1, TableGaps, ObjectGaps DEF GapsAreReported
<1>2. IInv => GapsAreReported
  BY <1>1
<1> QED
  BY <1>2, AlwaysIInv, PTL

-----------------------------------------------------------------------------
(***************************************************************************)
(* A document that is read whole and says one thing is returned as it is.  *)
(***************************************************************************)
Whole == /\ IInv /\ unread = {} /\ Built
         /\ \A e \in errors : e.what # "syntax"
         /\ Proper(document)

(* The store says what the document says.                                  *)
LEMMA StoredIsSaid ==
  ASSUME Whole, NEW s, NEW p, NEW st \in document, st.s = s, st.p = p
  PROVE  st.o \in Elements(Objects(s, p))
<1>1. Error("syntax", st) \notin errors
  BY ErrorIs DEF Whole
<1>2. st \in document \ unread
  BY DEF Whole
<1>3. st.o \in Elements(Objects(st.s, st.p)) \/ Error("syntax", st) \in errors
  BY <1>2 DEF Whole, IInv, StoreKept
<1> QED
  BY <1>1, <1>3

LEMMA SaidIs ==
  ASSUME NEW s, NEW p, NEW kinds, NEW x
  PROVE  x \in Said(s, p, kinds) <=> \E st \in document : st.s = s /\ st.p = p /\ st.o.is \in kinds /\ x = st.o.text
BY DEF Said, SaidIn

LEMMA TextsAreSaid ==
  ASSUME Whole, NEW s, NEW p, NEW kinds
  PROVE  /\ IsSequence(Texts(s, p, kinds)) /\ Elements(Texts(s, p, kinds)) = Said(s, p, kinds)
         /\ kinds \in Telling => /\ Distinct(Texts(s, p, kinds))
                               /\ IsFiniteSet(Said(s, p, kinds))
                               /\ Len(Texts(s, p, kinds)) = Cardinality(Said(s, p, kinds))
<1>1. StoreKept
  BY DEF Whole, IInv
<1>2. ASSUME NEW x \in Elements(Texts(s, p, kinds))
      PROVE  x \in Said(s, p, kinds)
  <2>1. PICK o \in Elements(Objects(s, p)) : o.is \in kinds /\ x = o.text
    BY <1>1, <1>2, TextsFacts
  <2>2. PICK st \in document : st.s = s /\ st.p = p /\ st.o = o
    BY <1>1, ObjectsFacts
  <2> QED
    BY <2>1, <2>2, SaidIs
<1>3. ASSUME NEW x \in Said(s, p, kinds)
      PROVE  x \in Elements(Texts(s, p, kinds))
  <2>1. PICK st \in document : st.s = s /\ st.p = p /\ st.o.is \in kinds /\ x = st.o.text
    BY SaidIs
  <2>2. st.o \in Elements(Objects(s, p))
    BY <2>1, StoredIsSaid
  <2> QED
    BY <1>1, <2>1, <2>2, TextsFacts
<1>4. Elements(Texts(s, p, kinds)) = Said(s, p, kinds)
  BY <1>2, <1>3
<1>5. IsSequence(Texts(s, p, kinds)) /\ (kinds \in Telling => Distinct(Texts(s, p, kinds)))
  BY <1>1, TextsFacts
<1> QED
  BY <1>4, <1>5, Counted

(* The first of several texts.                                             *)
LEMMA FirstIsSaid ==
  ASSUME Whole, NEW s, NEW p, NEW kinds
  PROVE  /\ Texts(s, p, kinds) = << >> <=> Said(s, p, kinds) = {}
         /\ Said(s, p, kinds) # {} => /\ Texts(s, p, kinds)[1] \in Said(s, p, kinds)
                                     /\ First(Texts(s, p, kinds)) \in Said(s, p, kinds)
         /\ Said(s, p, kinds) = {} => First(Texts(s, p, kinds)) = EmptyText
<1> DEFINE texts == Texts(s, p, kinds)
<1>1. IsSequence(texts) /\ Elements(texts) = Said(s, p, kinds)
  BY TextsAreSaid
<1>2. Len(texts) \in Nat /\ DOMAIN texts = 1 .. Len(texts)
  BY <1>1, SequenceFacts
<1> HIDE DEF texts
<1>3. Said(s, p, kinds) # {} => 1 \in DOMAIN texts /\ texts # << >>
  <2> SUFFICES ASSUME Said(s, p, kinds) # {} PROVE 1 \in DOMAIN texts /\ texts # << >>
    OBVIOUS
  <2>1. PICK i \in DOMAIN texts : TRUE
    BY <1>1 DEF Elements
  <2>2. 1 \in DOMAIN texts
    BY <1>2, <2>1
  <2> QED
    BY <2>2
<1>4. Said(s, p, kinds) = {} => texts = << >>
  <2> SUFFICES ASSUME Said(s, p, kinds) = {} PROVE texts = << >>
    OBVIOUS
  <2>1. DOMAIN texts = {}
    BY <1>1 DEF Elements
  <2>2. texts \in Seq({ texts[i] : i \in DOMAIN texts }) /\ Len(texts) = 0
    BY <1>1, <1>2, <2>1 DEF IsSequence
  <2> QED
    BY <2>2
<1>5. 1 \in DOMAIN texts => texts[1] \in Said(s, p, kinds)
  BY <1>1 DEF Elements
<1>6. First(texts) = IF texts = << >> THEN EmptyText ELSE texts[1]
  BY DEF First
<1>7. /\ texts = << >> <=> Said(s, p, kinds) = {}
      /\ Said(s, p, kinds) # {} => texts[1] \in Said(s, p, kinds) /\ First(texts) \in Said(s, p, kinds)
      /\ Said(s, p, kinds) = {} => First(texts) = EmptyText
  BY <1>3, <1>4, <1>5, <1>6
<1> QED
  BY <1>7 DEF texts

(* No text is empty but that of a constant literal.                        *)
LEMMA NotEmpty ==
  ASSUME Whole, NEW s, NEW p, NEW kinds, p # "constant" \/ "literal" \notin kinds
  PROVE  EmptyText \notin Said(s, p, kinds)
<1> SUFFICES ASSUME EmptyText \in Said(s, p, kinds) PROVE FALSE
  OBVIOUS
<1>1. PICK st \in document : st.s = s /\ st.p = p /\ st.o.is \in kinds /\ EmptyText = st.o.text
  BY SaidIs
<1> QED
  BY <1>1 DEF Whole, Proper, TextProper

LEMMA LiteralIsSaid ==
  ASSUME Whole, NEW s, NEW p, p # "constant"
  PROVE  /\ FirstLiteral(s, p) = EmptyText <=> Said(s, p, {"literal"}) = {}
         /\ Said(s, p, {"literal"}) # {} => FirstLiteral(s, p) \in Said(s, p, {"literal"})
BY FirstIsSaid, NotEmpty DEF FirstLiteral

LEMMA UriIsSaid ==
  ASSUME Whole, NEW s, NEW p
  PROVE  /\ FirstUri(s, p) = EmptyText <=> Said(s, p, {"uri"}) = {}
         /\ Said(s, p, {"uri"}) # {} => FirstUri(s, p) \in Said(s, p, {"uri"})
<1>1. "literal" \notin {"uri"}
  OBVIOUS
<1> QED
  BY <1>1, FirstIsSaid, NotEmpty DEF FirstUri

LEMMA NodeIsSaid ==
  ASSUME Whole, NEW s, NEW p \in {"logicalTable", "subjectMap"}
  PROVE  /\ FirstNode(s, p) = EmptyText <=> Said(s, p, {"uri", "blank"}) = {}
         /\ Said(s, p, {"uri", "blank"}) # {} => FirstNode(s, p) \in Said(s, p, {"uri", "blank"})
<1> DEFINE objects == Objects(s, p)
<1>1. /\ IsSequence(objects)
      /\ \A o \in Elements(objects) : \E st \in document : st.s = s /\ st.p = p /\ st.o = o
  BY ObjectsFacts DEF Whole, IInv
<1>2. Len(objects) \in Nat /\ DOMAIN objects = 1 .. Len(objects)
  BY <1>1, SequenceFacts
<1> HIDE DEF objects
<1>3. \A st \in document : st.s = s /\ st.p = p => st.o.is \in {"uri", "blank"} /\ st.o.text # EmptyText
  <2> SUFFICES ASSUME NEW st \in document, st.s = s, st.p = p
               PROVE  st.o.is \in {"uri", "blank"} /\ st.o.text # EmptyText
    OBVIOUS
  <2>1. IsStatement(st) /\ TextProper(st)
    BY DocumentsAssumption DEF Whole, IInv, StoreKept, Proper
  <2>2. st.o.is \in {"uri", "blank", "literal"}
    BY <2>1 DEF IsStatement
  <2>3. st.o.is # "literal" /\ st.o.text # EmptyText
    BY <2>1 DEF TextProper
  <2> QED
    BY <2>2, <2>3
<1>4. CASE objects = << >>
  <2>1. Said(s, p, {"uri", "blank"}) = {}
    <3> SUFFICES ASSUME NEW x \in Said(s, p, {"uri", "blank"}) PROVE FALSE
      OBVIOUS
    <3>1. PICK st \in document : st.s = s /\ st.p = p
      BY SaidIs
    <3>2. st.o \in Elements(objects)
      BY <3>1, StoredIsSaid DEF objects
    <3> QED
      BY <1>4, <3>2 DEF Elements
  <2>2. FirstNode(s, p) = EmptyText
    BY <1>4 DEF FirstNode, objects
  <2> QED
    BY <2>1, <2>2
<1>5. CASE objects # << >>
  <2>1. 1 \in DOMAIN objects
    <3> SUFFICES ASSUME 1 \notin DOMAIN objects PROVE FALSE
      OBVIOUS
    <3>1. Len(objects) = 0
      BY <1>2
    <3>2. objects \in Seq({ objects[i] : i \in DOMAIN objects })
      BY <1>1 DEF IsSequence
    <3> QED
      BY <1>5, <3>1, <3>2
  <2>2. objects[1] \in Elements(objects)
    BY <2>1 DEF Elements
  <2>3. PICK st \in document : st.s = s /\ st.p = p /\ st.o = objects[1]
    BY <1>1, <2>2
  <2>4. objects[1].is \in {"uri", "blank"} /\ objects[1].text # EmptyText
    BY <1>3, <2>3
  <2>5. FirstNode(s, p) = objects[1].text
    <3>1. FirstNode(s, p) = IF objects = << >> THEN EmptyText
                            ELSE IF objects[1].is = "literal" THEN EmptyText ELSE objects[1].text
      BY DEF FirstNode, objects
    <3>2. objects[1].is # "literal"
      BY <2>4
    <3> QED
      BY <1>5, <3>1, <3>2
  <2>6. objects[1].text \in Said(s, p, {"uri", "blank"})
    BY <2>3, <2>4, SaidIs
  <2> QED
    BY <2>4, <2>5, <2>6
<1> QED
  BY <1>4, <1>5

(* What a node says decides its value strategy.                            *)
LEMMA StrategyIs ==
  ASSUME Whole, NEW n
  PROVE  Strategy(n) =
           IF Said(n, "column", {"literal"}) # {} THEN "column"
           ELSE IF Said(n, "template", {"literal"}) # {} THEN "template"
           ELSE IF Said(n, "constant", {"uri"}) # {} THEN "iri"
           ELSE IF Said(n, "constant", {"literal"}) # {} THEN "literal"
           ELSE IF Said(n, "parentTriplesMap", {"uri"}) # {} THEN "reference"
           ELSE "unknown"
<1>1. /\ FirstLiteral(n, "column") = EmptyText <=> Said(n, "column", {"literal"}) = {}
      /\ FirstLiteral(n, "template") = EmptyText <=> Said(n, "template", {"literal"}) = {}
  <2>1. "column" # "constant" /\ "template" # "constant"
    OBVIOUS
  <2> QED
    BY <2>1, LiteralIsSaid
<1>2. FirstUri(n, "parentTriplesMap") = EmptyText <=> Said(n, "parentTriplesMap", {"uri"}) = {}
  BY UriIsSaid
<1>3. /\ Texts(n, "constant", {"uri"}) = << >> <=> Said(n, "constant", {"uri"}) = {}
      /\ Texts(n, "constant", {"literal"}) = << >> <=> Said(n, "constant", {"literal"}) = {}
  BY FirstIsSaid
<1> QED
  BY <1>1, <1>2, <1>3 DEF Strategy

LEMMA DescribedIs == ASSUME Whole, NEW n PROVE Described(n) <=> Strategy(n) # "unknown"
<1>1. \A p : Said(n, p, {"uri", "literal"}) # {} <=> Said(n, p, {"uri"}) # {} \/ Said(n, p, {"literal"}) # {}
  <2> SUFFICES ASSUME NEW p
               PROVE  Said(n, p, {"uri", "literal"}) # {} <=> Said(n, p, {"uri"}) # {} \/ Said(n, p, {"literal"}) # {}
    OBVIOUS
  <2>1. \A x : x \in Said(n, p, {"uri", "literal"}) <=> x \in Said(n, p, {"uri"}) \/ x \in Said(n, p, {"literal"})
    BY SaidIs
  <2> QED
    BY <2>1
<1>2. Said(n, "column", {"uri"}) = {} /\ Said(n, "template", {"uri"}) = {}
      /\ Said(n, "parentTriplesMap", {"literal"}) = {}
  <2>1. \A st \in document : TextProper(st)
    BY DEF Whole, Proper
  <2> QED
    BY <2>1 DEF TextProper, Said, SaidIn
<1>3. Described(n) <=> \/ Said(n, "column", {"uri", "literal"}) # {}
                       \/ Said(n, "template", {"uri", "literal"}) # {}
                       \/ Said(n, "constant", {"uri", "literal"}) # {}
                       \/ Said(n, "parentTriplesMap", {"uri", "literal"}) # {}
  BY DEF Described
<1>4. Described(n) <=> \/ Said(n, "column", {"literal"}) # {}
                       \/ Said(n, "template", {"literal"}) # {}
                       \/ Said(n, "constant", {"uri"}) # {}
                       \/ Said(n, "constant", {"literal"}) # {}
                       \/ Said(n, "parentTriplesMap", {"uri"}) # {}
  BY <1>1, <1>2, <1>3
<1> QED
  BY <1>4, StrategyIs

(* The term type that a node says.                                         *)
LEMMA TypeIs ==
  ASSUME Whole, NEW n, NEW default
  PROVE  /\ Said(n, "termType", {"uri"}) = {} => ExplicitType(n, default) = default
         /\ Said(n, "termType", {"uri"}) # {} => ExplicitType(n, default) \in Said(n, "termType", {"uri"})
<1> DEFINE types == Said(n, "termType", {"uri"})
<1>1. FirstUri(n, "termType") = EmptyText <=> types = {}
  BY UriIsSaid
<1>2. types # {} => FirstUri(n, "termType") \in types
  BY UriIsSaid
<1>3. types \subseteq TermTypes
  <2> SUFFICES ASSUME NEW x \in types PROVE x \in TermTypes
    OBVIOUS
  <2>1. PICK st \in document : st.p = "termType" /\ x = st.o.text
    BY SaidIs
  <2>2. TextProper(st)
    BY DEF Whole, Proper
  <2> QED
    BY <2>1, <2>2 DEF TextProper
<1>4. ExplicitType(n, default) = IF FirstUri(n, "termType") \in TermTypes THEN FirstUri(n, "termType") ELSE default
  BY DEF ExplicitType
<1> HIDE DEF types
<1>5. /\ types = {} => ExplicitType(n, default) = default
      /\ types # {} => ExplicitType(n, default) \in types
  BY <1>1, <1>2, <1>3, <1>4, TextsAssumption
<1> QED
  BY <1>5 DEF types

LEMMA TagsAre ==
  ASSUME Whole, NEW n
  PROVE  /\ Agrees(Tag(FirstLiteral(n, "language")), Said(n, "language", {"literal"}))
         /\ Agrees(Tag(FirstUri(n, "datatype")), Said(n, "datatype", {"uri"}))
<1>1. "language" # "constant"
  OBVIOUS
<1>2. Agrees(Tag(FirstLiteral(n, "language")), Said(n, "language", {"literal"}))
  BY <1>1, LiteralIsSaid DEF Agrees, Tag
<1>3. Agrees(Tag(FirstUri(n, "datatype")), Said(n, "datatype", {"uri"}))
  BY UriIsSaid DEF Agrees, Tag
<1> QED
  BY <1>2, <1>3

(* The parts of a term map.                                                *)
Parts(kind, type, text, cols, lang, dt) ==
  [kind |-> kind, type |-> type, text |-> text, cols |-> cols, lang |-> lang, dt |-> dt]

LEMMA PartsAre ==
  ASSUME NEW kind, NEW type, NEW text, NEW cols, NEW lang, NEW dt
  PROVE  LET tm == Parts(kind, type, text, cols, lang, dt)
         IN  /\ tm.kind = kind /\ tm.type = type /\ tm.text = text /\ tm.cols = cols
             /\ tm.lang = lang /\ tm.dt = dt
BY DEF Parts

LEMMA Retyped ==
  ASSUME NEW kind, NEW type, NEW text, NEW cols, NEW lang, NEW dt, NEW other
  PROVE  [Parts(kind, type, text, cols, lang, dt) EXCEPT !.type = other] = Parts(kind, other, text, cols, lang, dt)
BY DEF Parts

LEMMA TaggedIs ==
  ASSUME NEW n, NEW kind, NEW type, NEW text, NEW cols
  PROVE  Tagged(n, Value(kind, type, text, cols)) =
           Parts(kind, type, text, cols, Tag(FirstLiteral(n, "language")), Tag(FirstUri(n, "datatype")))
<1>1. ASSUME NEW v, NEW l, NEW d
      PROVE  [v EXCEPT !.lang = l, !.dt = d] = [[v EXCEPT !.lang = l] EXCEPT !.dt = d]
  OBVIOUS
<1>2. ASSUME NEW l
      PROVE  [Parts(kind, type, text, cols, NoTag, NoTag) EXCEPT !.lang = l] = Parts(kind, type, text, cols, l, NoTag)
  BY DEF Parts
<1>3. ASSUME NEW l, NEW d
      PROVE  [Parts(kind, type, text, cols, l, NoTag) EXCEPT !.dt = d] = Parts(kind, type, text, cols, l, d)
  BY DEF Parts
<1>4. Value(kind, type, text, cols) = Parts(kind, type, text, cols, NoTag, NoTag)
  BY DEF Value, Parts
<1> DEFINE l == Tag(FirstLiteral(n, "language"))
           d == Tag(FirstUri(n, "datatype"))
           value == Value(kind, type, text, cols)
<1>5. Tagged(n, value) = [value EXCEPT !.lang = l, !.dt = d]
  BY DEF Tagged
<1> HIDE DEF l, d, value
<1>6. [value EXCEPT !.lang = l, !.dt = d] = [[value EXCEPT !.lang = l] EXCEPT !.dt = d]
  BY <1>1
<1>7. [value EXCEPT !.lang = l] = Parts(kind, type, text, cols, l, NoTag)
  BY <1>2, <1>4 DEF value
<1>8. Tagged(n, value) = Parts(kind, type, text, cols, l, d)
  BY <1>3, <1>5, <1>6, <1>7
<1> QED
  BY <1>8 DEF l, d, value

(* A template is its segments and its columns.                             *)
LEMMA TemplateIs ==
  ASSUME Whole, NEW n, Said(n, "template", {"literal"}) # {}
  PROVE  << FirstLiteral(n, "template")[1], FirstLiteral(n, "template")[2] >> \in Said(n, "template", {"literal"})
<1>1. "template" # "constant"
  OBVIOUS
<1>2. FirstLiteral(n, "template") \in Said(n, "template", {"literal"})
  BY <1>1, LiteralIsSaid
<1>3. PICK st \in document : st.p = "template" /\ st.o.is = "literal" /\ FirstLiteral(n, "template") = st.o.text
  BY <1>2, SaidIs
<1>4. TextProper(st)
  BY DEF Whole, Proper
<1>5. st.o.text = << st.o.text[1], st.o.text[2] >>
  BY <1>3, <1>4 DEF TextProper
<1> QED
  BY <1>2, <1>3, <1>5

(* Kinds and parts of the term map of a node.                              *)
LEMMA TermMapIs ==
  ASSUME Whole, NEW n
  PROVE  LET tm == TermMapOf(n)
             lang == Tag(FirstLiteral(n, "language"))
             dt == Tag(FirstUri(n, "datatype"))
         IN  /\ Strategy(n) = "column" =>
                  tm = Parts("column", ExplicitType(n, "iri"), "", << FirstLiteral(n, "column") >>, lang, dt)
             /\ Strategy(n) = "template" =>
                  tm = Parts("template", ExplicitType(n, "iri"),
                             FirstLiteral(n, "template")[1], FirstLiteral(n, "template")[2], lang, dt)
             /\ Strategy(n) = "iri" => tm = Constant("iri", Texts(n, "constant", {"uri"})[1])
             /\ Strategy(n) = "literal" => tm = Constant("literal", FirstLiteral(n, "constant"))
<1>1. ASSUME Strategy(n) = "column"
      PROVE  TermMapOf(n) = Parts("column", ExplicitType(n, "iri"), "", << FirstLiteral(n, "column") >>,
                            Tag(FirstLiteral(n, "language")), Tag(FirstUri(n, "datatype")))
  <2>1. TermMapOf(n) = Tagged(n, ColumnValue(n))
    BY <1>1 DEF TermMapOf
  <2>2. ColumnValue(n) = Value("column", ExplicitType(n, "iri"), "", << FirstLiteral(n, "column") >>)
    BY DEF ColumnValue
  <2> QED
    BY <2>1, <2>2, TaggedIs
<1>2. ASSUME Strategy(n) = "template"
      PROVE  TermMapOf(n) = Parts("template", ExplicitType(n, "iri"),
                            FirstLiteral(n, "template")[1], FirstLiteral(n, "template")[2],
                            Tag(FirstLiteral(n, "language")), Tag(FirstUri(n, "datatype")))
  <2>1. TermMapOf(n) = Tagged(n, TemplateValue(n))
    BY <1>2 DEF TermMapOf
  <2>2. TemplateValue(n) = Value("template", ExplicitType(n, "iri"),
                                 FirstLiteral(n, "template")[1], FirstLiteral(n, "template")[2])
    BY DEF TemplateValue
  <2> QED
    BY <2>1, <2>2, TaggedIs
<1>3. Strategy(n) = "iri" => TermMapOf(n) = Constant("iri", Texts(n, "constant", {"uri"})[1])
  BY DEF TermMapOf
<1>4. Strategy(n) = "literal" => TermMapOf(n) = Constant("literal", FirstLiteral(n, "constant"))
  BY DEF TermMapOf
<1> QED
  BY <1>1, <1>2, <1>3, <1>4

(* A constant of a node.                                                   *)
LEMMA ConstantIs ==
  ASSUME Whole, NEW n, NEW type, NEW text, NEW default
  PROVE  /\ type = "iri" /\ text \in Said(n, "constant", {"uri"}) => SaidOf(Constant(type, text), n, default)
         /\ type = "literal" /\ text \in Said(n, "constant", {"literal"}) => SaidOf(Constant(type, text), n, default)
         /\ TagsSaidOf(Constant(type, text), n)
         /\ Constant(type, text).kind = "constant"
<1> DEFINE tm == Constant(type, text)
<1>1. tm.kind = "constant" /\ tm.type = type /\ tm.text = text
  BY DEF Constant, Value
<1> HIDE DEF tm
<1>2. TagsSaidOf(tm, n)
  BY <1>1 DEF TagsSaidOf
<1>3. type = "iri" /\ text \in Said(n, "constant", {"uri"}) => SaidOf(tm, n, default)
  BY <1>1 DEF SaidOf
<1>4. type = "literal" /\ text \in Said(n, "constant", {"literal"}) => SaidOf(tm, n, default)
  BY <1>1 DEF SaidOf
<1> QED
  BY <1>1, <1>2, <1>3, <1>4 DEF tm

(* A column or a template of a node, with its type and its tags.           *)
LEMMA ValueSaid ==
  ASSUME Whole, NEW n, NEW type, NEW text, NEW cols, NEW default,
         Said(n, "termType", {"uri"}) = {} => type = default,
         Said(n, "termType", {"uri"}) # {} => type \in Said(n, "termType", {"uri"})
  PROVE  LET tm(kind) == Parts(kind, type, text, cols, Tag(FirstLiteral(n, "language")), Tag(FirstUri(n, "datatype")))
         IN  /\ cols[1] \in Said(n, "column", {"literal"}) =>
                  SaidOf(tm("column"), n, default) /\ TagsSaidOf(tm("column"), n)
             /\ << text, cols >> \in Said(n, "template", {"literal"}) =>
                  SaidOf(tm("template"), n, default) /\ TagsSaidOf(tm("template"), n)
<1> DEFINE tm(kind) == Parts(kind, type, text, cols, Tag(FirstLiteral(n, "language")), Tag(FirstUri(n, "datatype")))
<1>1. ASSUME NEW kind
      PROVE  /\ tm(kind).kind = kind /\ tm(kind).type = type /\ tm(kind).text = text /\ tm(kind).cols = cols
             /\ tm(kind).lang = Tag(FirstLiteral(n, "language")) /\ tm(kind).dt = Tag(FirstUri(n, "datatype"))
  BY PartsAre
<1> HIDE DEF tm
<1>2. ASSUME NEW kind
      PROVE  TagsSaidOf(tm(kind), n)
  BY <1>1, TagsAre DEF TagsSaidOf
<1>3. cols[1] \in Said(n, "column", {"literal"}) => SaidOf(tm("column"), n, default)
  BY <1>1 DEF SaidOf
<1>4. << text, cols >> \in Said(n, "template", {"literal"}) => SaidOf(tm("template"), n, default)
  BY <1>1 DEF SaidOf
<1> QED
  BY <1>2, <1>3, <1>4 DEF tm

LEMMA ColumnIs ==
  ASSUME Whole, NEW n, Said(n, "column", {"literal"}) # {}
  PROVE  << FirstLiteral(n, "column") >>[1] \in Said(n, "column", {"literal"})
<1>1. "column" # "constant"
  OBVIOUS
<1> QED
  BY <1>1, LiteralIsSaid

LEMMA ConstantsAre ==
  ASSUME Whole, NEW n
  PROVE  /\ Strategy(n) = "iri" => Texts(n, "constant", {"uri"})[1] \in Said(n, "constant", {"uri"})
         /\ Strategy(n) = "literal" => FirstLiteral(n, "constant") \in Said(n, "constant", {"literal"})
<1>1. Strategy(n) = "iri" => Said(n, "constant", {"uri"}) # {}
  BY StrategyIs
<1>2. Strategy(n) = "literal" => Said(n, "constant", {"literal"}) # {}
  BY StrategyIs
<1> QED
  BY <1>1, <1>2, FirstIsSaid DEF FirstLiteral

LEMMA TermMapSaid ==
  ASSUME Whole, NEW n, Strategy(n) # "unknown", Strategy(n) # "reference"
  PROVE  IsTermMapOf(TermMapOf(n), n)
<1>1. /\ Said(n, "termType", {"uri"}) = {} => ExplicitType(n, "iri") = "iri"
      /\ Said(n, "termType", {"uri"}) # {} => ExplicitType(n, "iri") \in Said(n, "termType", {"uri"})
  BY TypeIs
<1>2. CASE Strategy(n) = "column"
  <2>1. << FirstLiteral(n, "column") >>[1] \in Said(n, "column", {"literal"})
    <3>1. Said(n, "column", {"literal"}) # {}
      BY <1>2, StrategyIs
    <3> QED
      BY <3>1, ColumnIs
  <2>2. TermMapOf(n) = Parts("column", ExplicitType(n, "iri"), "", << FirstLiteral(n, "column") >>,
                            Tag(FirstLiteral(n, "language")), Tag(FirstUri(n, "datatype")))
    BY <1>2, TermMapIs
  <2> QED
    BY <1>1, <2>1, <2>2, ValueSaid, Zenon DEF IsTermMapOf
<1>3. CASE Strategy(n) = "template"
  <2>1. << FirstLiteral(n, "template")[1], FirstLiteral(n, "template")[2] >> \in Said(n, "template", {"literal"})
    <3>1. Said(n, "template", {"literal"}) # {}
      BY <1>3, StrategyIs
    <3> QED
      BY <3>1, TemplateIs
  <2>2. TermMapOf(n) = Parts("template", ExplicitType(n, "iri"),
                            FirstLiteral(n, "template")[1], FirstLiteral(n, "template")[2],
                            Tag(FirstLiteral(n, "language")), Tag(FirstUri(n, "datatype")))
    BY <1>3, TermMapIs
  <2> QED
    BY <1>1, <2>1, <2>2, ValueSaid, Zenon DEF IsTermMapOf
<1>4. CASE Strategy(n) = "iri"
  <2>1. TermMapOf(n) = Constant("iri", Texts(n, "constant", {"uri"})[1])
    BY <1>4, TermMapIs
  <2> QED
    BY <1>4, <2>1, ConstantsAre, ConstantIs, ZenonT(30) DEF IsTermMapOf
<1>5. CASE Strategy(n) = "literal"
  <2>1. TermMapOf(n) = Constant("literal", FirstLiteral(n, "constant"))
    BY <1>5, TermMapIs
  <2> QED
    BY <1>5, <2>1, ConstantsAre, ConstantIs, ZenonT(30) DEF IsTermMapOf
<1> QED
  BY <1>2, <1>3, <1>4, <1>5, StrategyIs

(* An object from a column is a literal by default.                        *)
LEMMA RegularSaid ==
  ASSUME Whole, NEW n, Strategy(n) # "unknown", Strategy(n) # "reference"
  PROVE  LET tm == RegularMapOf(n)
         IN  SaidOf(tm, n, IF tm.kind = "column" THEN "literal" ELSE "iri") /\ TagsSaidOf(tm, n)
<1> DEFINE types == Said(n, "termType", {"uri"})
           lang == Tag(FirstLiteral(n, "language"))
           dt == Tag(FirstUri(n, "datatype"))
           cols == << FirstLiteral(n, "column") >>
           none == ""
           column(type) == Parts("column", type, none, cols, lang, dt)
<1>1. CASE Strategy(n) = "column"
  <2> DEFINE type == IF types = {} THEN "literal" ELSE ExplicitType(n, "iri")
  <2>1. << FirstLiteral(n, "column") >>[1] \in Said(n, "column", {"literal"})
    <3>1. Said(n, "column", {"literal"}) # {}
      BY <1>1, StrategyIs
    <3> QED
      BY <3>1, ColumnIs
  <2>2. TermMapOf(n) = column(ExplicitType(n, "iri"))
    BY <1>1, TermMapIs
  <2>3. FirstUri(n, "termType") = EmptyText <=> types = {}
    BY UriIsSaid
  <2>4. types # {} => ExplicitType(n, "iri") \in types
    BY TypeIs
  <2>5. RegularMapOf(n) = column(type)
    <3>1. CASE types = {}
      <4>1. RegularMapOf(n) = [TermMapOf(n) EXCEPT !.type = "literal"]
        BY <1>1, <2>3, <3>1 DEF RegularMapOf
      <4> HIDE DEF none, lang, dt, cols
      <4>2. [column(ExplicitType(n, "iri")) EXCEPT !.type = "literal"] = column("literal")
        BY Retyped
      <4> HIDE DEF column
      <4>3. RegularMapOf(n) = column("literal")
        BY <2>2, <4>1, <4>2
      <4>4. type = "literal"
        BY <3>1
      <4> HIDE DEF type, column
      <4> QED
        BY <4>3, <4>4
    <3>2. CASE types # {}
      <4>1. RegularMapOf(n) = TermMapOf(n)
        BY <2>3, <3>2 DEF RegularMapOf
      <4>2. type = ExplicitType(n, "iri")
        BY <3>2
      <4> HIDE DEF type, column
      <4> QED
        BY <2>2, <4>1, <4>2
    <3> QED
      BY <3>1, <3>2
  <2>6. (types = {} => type = "literal") /\ (types # {} => type \in types)
    BY <2>4
  <2>7. column(type).kind = "column"
    <3> HIDE DEF none, cols, lang, dt
    <3> QED
      BY PartsAre
  <2> HIDE DEF type
  <2>8. SaidOf(column(type), n, "literal") /\ TagsSaidOf(column(type), n)
    BY <2>1, <2>6, ValueSaid, Zenon
  <2> QED
    BY <2>5, <2>7, <2>8
<1>2. CASE Strategy(n) # "column"
  <2>1. RegularMapOf(n) = TermMapOf(n)
    BY <1>2 DEF RegularMapOf
  <2>2. TermMapOf(n).kind # "column"
    <3>1. CASE Strategy(n) = "template"
      <4>1. PICK type, text, cs, l, d :
              TermMapOf(n) = Parts("template", type, text, cs, l, d)
        BY <3>1, TermMapIs, Zenon
      <4>2. TermMapOf(n).kind = "template"
        BY <4>1, PartsAre
      <4> QED
        BY <4>2
    <3>2. CASE Strategy(n) = "iri"
      <4>1. TermMapOf(n) = Constant("iri", Texts(n, "constant", {"uri"})[1])
        BY <3>2, TermMapIs
      <4>2. TermMapOf(n).kind = "constant"
        BY <4>1, ConstantIs
      <4> QED
        BY <4>2
    <3>3. CASE Strategy(n) = "literal"
      <4>1. TermMapOf(n) = Constant("literal", FirstLiteral(n, "constant"))
        BY <3>3, TermMapIs
      <4>2. TermMapOf(n).kind = "constant"
        BY <4>1, ConstantIs
      <4> QED
        BY <4>2
    <3> QED
      BY <1>2, <3>1, <3>2, <3>3, StrategyIs
  <2>3. SaidOf(TermMapOf(n), n, "iri") /\ TagsSaidOf(TermMapOf(n), n)
    BY TermMapSaid DEF IsTermMapOf
  <2> QED
    BY <2>1, <2>2, <2>3
<1> QED
  BY <1>1, <1>2

(* The nodes that are described are those of a known kind, each once.      *)
LEMMA KnownIsDescribed ==
  ASSUME Whole, NEW s, NEW p
  PROVE  LET known == Known(Nodes(s, p))
         IN  /\ IsSequence(known) /\ Elements(known) = DescribedBy(s, p)
             /\ Len(known) = Cardinality(DescribedBy(s, p))
<1> DEFINE nodes == Nodes(s, p)
           known == Known(nodes)
<1>1. IsSequence(nodes) /\ Elements(nodes) = Said(s, p, {"uri", "blank"}) /\ Distinct(nodes)
  BY TextsAreSaid DEF Nodes, Telling
<1> HIDE DEF nodes
<1>2. /\ IsSequence(known) /\ Elements(known) = { n \in Elements(nodes) : Strategy(n) # "unknown" }
      /\ Distinct(known)
  BY <1>1, KnownFacts
<1>3. \A n : n \in DescribedBy(s, p) <=> n \in Said(s, p, {"uri", "blank"}) /\ Strategy(n) # "unknown"
  BY DescribedIs DEF DescribedBy
<1>4. Elements(known) = DescribedBy(s, p)
  BY <1>1, <1>2, <1>3
<1>5. Len(known) = Cardinality(DescribedBy(s, p))
  BY <1>2, <1>4, Counted
<1> QED
  BY <1>2, <1>4, <1>5 DEF nodes

LEMMA NoReference ==
  ASSUME Whole, NEW s, NEW p \in {"predicateMap", "graphMap", "subjectMap"},
         NEW n \in Said(s, p, {"uri", "blank"})
  PROVE  Said(n, "parentTriplesMap", {"uri"}) = {} /\ Strategy(n) # "reference"
<1>1. PICK st \in document : st.p = p /\ st.o.is \in {"uri", "blank"} /\ n = st.o.text
  BY SaidIs
<1>2. ReferenceProper(document, st) /\ st.o.is # "literal"
  BY <1>1 DEF Whole, Proper
<1>3. Said(n, "parentTriplesMap", {"uri"}) = {}
  BY <1>1, <1>2 DEF ReferenceProper, Said
<1> QED
  BY <1>3, StrategyIs

(* Predicates and graphs are listed as they are said.                      *)
LEMMA TermMapsSaid ==
  ASSUME Whole, NEW s, NEW shortcut, NEW p \in {"predicateMap", "graphMap"}
  PROVE  Lists(TermMaps(s, shortcut, p), s, shortcut, p, IsIri, IsTermMapOf)
<1> DEFINE list  == TermMaps(s, shortcut, p)
           uris  == Texts(s, shortcut, {"uri"})
           known == Known(Nodes(s, p))
<1>1. /\ Len(list) = Len(uris) + Len(known)
      /\ \A i \in DOMAIN uris : i \in DOMAIN list /\ list[i] = Constant("iri", uris[i])
      /\ \A i \in DOMAIN known : Len(uris) + i \in DOMAIN list /\ list[Len(uris) + i] = TermMapOf(known[i])
  BY TermMapsFacts DEF Whole, IInv
<1>2. Elements(uris) = Said(s, shortcut, {"uri"}) /\ Len(uris) = Cardinality(Said(s, shortcut, {"uri"}))
  BY TextsAreSaid DEF Telling
<1>3. Elements(known) = DescribedBy(s, p) /\ Len(known) = Cardinality(DescribedBy(s, p))
  BY KnownIsDescribed
<1> HIDE DEF list, uris, known
<1>4. Len(list) = Cardinality(Said(s, shortcut, {"uri"})) + Cardinality(DescribedBy(s, p))
  BY <1>1, <1>2, <1>3
<1>5. ASSUME NEW u \in Said(s, shortcut, {"uri"})
      PROVE  \E i \in DOMAIN list : IsIri(list[i], u)
  <2>1. PICK i \in DOMAIN uris : uris[i] = u
    BY <1>2 DEF Elements
  <2>2. i \in DOMAIN list /\ IsIri(list[i], u)
    BY <1>1, <2>1 DEF IsIri
  <2> QED
    BY <2>2
<1>6. ASSUME NEW n \in DescribedBy(s, p)
      PROVE  \E i \in DOMAIN list : IsTermMapOf(list[i], n)
  <2>1. PICK i \in DOMAIN known : known[i] = n
    BY <1>3 DEF Elements
  <2>2. Strategy(n) # "unknown" /\ Strategy(n) # "reference"
    BY DescribedIs, NoReference DEF DescribedBy
  <2>3. IsTermMapOf(TermMapOf(n), n)
    BY <2>2, TermMapSaid
  <2>4. Len(uris) + i \in DOMAIN list /\ IsTermMapOf(list[Len(uris) + i], n)
    BY <1>1, <2>1, <2>3
  <2> QED
    BY <2>4
<1> QED
  BY <1>4, <1>5, <1>6 DEF Lists, list

(* The join conditions of a reference.                                     *)
LEMMA JoinsSaid ==
  ASSUME Whole, NEW n
  PROVE  LET nodes == Said(n, "joinCondition", {"uri", "blank"})
         IN  /\ Len(JoinsOf(n)) = Cardinality(nodes)
             /\ \A c \in nodes :
                  Said(c, "child", {"literal"}) \X Said(c, "parent", {"literal"}) \cap Elements(JoinsOf(n)) # {}
<1> DEFINE conditions == Nodes(n, "joinCondition")
           joins == JoinsOf(n)
           pair(c) == << FirstLiteral(c, "child"), FirstLiteral(c, "parent") >>
<1>1. IsSequence(conditions) /\ Elements(conditions) = Said(n, "joinCondition", {"uri", "blank"})
      /\ Len(conditions) = Cardinality(Said(n, "joinCondition", {"uri", "blank"}))
  BY TextsAreSaid DEF Nodes, Telling
<1>2. joins = [i \in DOMAIN conditions |-> pair(conditions[i])]
  BY DEF JoinsOf
<1> HIDE DEF conditions, joins, pair
<1>3. DOMAIN joins = DOMAIN conditions /\ joins = [i \in DOMAIN joins |-> joins[i]]
  BY <1>2
<1>4. Len(joins) = Len(conditions)
  BY <1>1, <1>3, Mapped
<1>5. ASSUME NEW c \in Said(n, "joinCondition", {"uri", "blank"})
      PROVE  Said(c, "child", {"literal"}) \X Said(c, "parent", {"literal"}) \cap Elements(joins) # {}
  <2>1. PICK i \in DOMAIN conditions : conditions[i] = c
    BY <1>1 DEF Elements
  <2>2. joins[i] = pair(c) /\ i \in DOMAIN joins
    BY <1>2, <2>1
  <2>3. pair(c) \in Elements(joins)
    BY <2>2 DEF Elements
  <2>4. PICK st \in document : st.p = "joinCondition" /\ st.o.is \in {"uri", "blank"} /\ c = st.o.text
    BY SaidIs
  <2>5. JoinProper(document, st) /\ st.o.is # "literal"
    BY <2>4 DEF Whole, Proper
  <2>6. Said(c, "child", {"literal"}) # {} /\ Said(c, "parent", {"literal"}) # {}
    BY <2>4, <2>5 DEF JoinProper, Said
  <2>7. "child" # "constant" /\ "parent" # "constant"
    OBVIOUS
  <2>8. /\ FirstLiteral(c, "child") \in Said(c, "child", {"literal"})
        /\ FirstLiteral(c, "parent") \in Said(c, "parent", {"literal"})
    BY <2>6, <2>7, LiteralIsSaid
  <2>9. pair(c) \in Said(c, "child", {"literal"}) \X Said(c, "parent", {"literal"})
    BY <2>8 DEF pair
  <2> QED
    BY <2>3, <2>9
<1> QED
  BY <1>1, <1>4, <1>5 DEF joins

(* A reference gets the parent that its node names.                        *)
LEMMA ParentSaid ==
  ASSUME Whole, NEW m \in DOMAIN maps, NEW p \in DOMAIN PomNodes(maps[m].id),
         NEW i \in DOMAIN Known(Nodes(PomNodes(maps[m].id)[p], "objectMap")),
         Strategy(Known(Nodes(PomNodes(maps[m].id)[p], "objectMap"))[i]) = "reference"
  PROVE  LET node == PomNodes(maps[m].id)[p]
             n == Known(Nodes(node, "objectMap"))[i]
         IN  /\ FirstUri(n, "parentTriplesMap") \in Said(n, "parentTriplesMap", {"uri"})
             /\ Awaited(<< m, p, Len(Texts(node, "object", {"uri"})) + i >>).parent = FirstUri(n, "parentTriplesMap")
<1> DEFINE name == maps[m].id
           node == PomNodes(name)[p]
           known == Known(Nodes(node, "objectMap"))
           n == known[i]
           o == Len(Texts(node, "object", {"uri"})) + i
           r == Reference(n, << m, p, o >>)
<1>1. FirstUri(n, "parentTriplesMap") \in Said(n, "parentTriplesMap", {"uri"})
  BY StrategyIs, UriIsSaid
<1>2. r \in PomRefs(node, m, p)
  <2>1. Len(ObjectShortcuts(node)) = Len(Texts(node, "object", {"uri"}))
    BY ObjectsOfPom DEF Whole, IInv
  <2>2. PomRefs(node, m, p) = { Reference(known[k], << m, p, Len(ObjectShortcuts(node)) + k >>)
                                  : k \in { j \in DOMAIN known : Strategy(known[j]) = "reference" } }
    BY DEF PomRefs
  <2> HIDE DEF known, node
  <2>3. r = Reference(known[i], << m, p, Len(ObjectShortcuts(node)) + i >>)
    BY <2>1
  <2>4. i \in { j \in DOMAIN known : Strategy(known[j]) = "reference" }
    BY DEF known, node
  <2> HIDE DEF r
  <2> QED
    BY <2>2, <2>3, <2>4
<1>3. PomRefs(node, m, p) \subseteq MapRefs(name, m)
  <2> HIDE DEF r, o, n, known
  <2> SUFFICES ASSUME NEW x \in PomRefs(node, m, p) PROVE x \in MapRefs(name, m)
    OBVIOUS
  <2>1. \E k \in DOMAIN Nodes(name, "predicateObjectMap") :
          x \in PomRefs(Nodes(name, "predicateObjectMap")[k], m, k)
    BY DEF PomNodes
  <2> HIDE DEF node, name
  <2> QED
    BY <2>1 DEF MapRefs
<1>4. r \in refs
  BY <1>2, <1>3 DEF Whole, IInv, FaultsNoted
<1>5. r.place = << m, p, o >> /\ r.parent = FirstUri(n, "parentTriplesMap") /\ r.place # << >>
  BY DEF Reference
<1> HIDE DEF r, o, n
<1>6. Awaited(r.place) \in refs /\ Awaited(r.place).place = r.place
  BY <1>4 DEF Awaited
<1>7. Awaited(r.place) = r
  BY <1>4, <1>5, <1>6, OneReference DEF Whole
<1>8. Awaited(<< m, p, o >>).parent = FirstUri(n, "parentTriplesMap")
  BY <1>5, <1>7
<1> QED
  BY <1>1, <1>8 DEF o, n

(* Objects are listed as they are said, with their parents.                *)
LEMMA ObjectsSaid ==
  ASSUME Whole, NEW m \in DOMAIN maps, NEW p \in DOMAIN PomNodes(maps[m].id)
  PROVE  Lists(maps[m].poms[p].objs, PomNodes(maps[m].id)[p], "object", "objectMap", IsObjectIri, IsObjectOf)
<1> DEFINE node == PomNodes(maps[m].id)[p]
           objs == maps[m].poms[p].objs
           was == PomOfNode(node).objs
           uris == Texts(node, "object", {"uri"})
           known == Known(Nodes(node, "objectMap"))
<1>1. IInv /\ Built
  BY DEF Whole
<1>2. /\ Len(was) = Len(uris) + Len(known)
      /\ \A i \in DOMAIN uris : /\ i \in DOMAIN was /\ Regular(was[i])
                               /\ was[i] = [rom |-> FALSE, map |-> Constant("iri", uris[i])]
      /\ \A i \in DOMAIN known : Len(uris) + i \in DOMAIN was /\ was[Len(uris) + i] = ObjectMapOf(known[i])
  BY <1>1, ObjectsOfPom DEF IInv
<1>3. Len(objs) = Len(was) /\ DOMAIN objs = DOMAIN was
  BY <1>1, PomIs
<1>4. ASSUME NEW o \in DOMAIN objs
      PROVE  /\ Regular(was[o]) => objs[o] = was[o]
             /\ Awaiting(was[o]) => /\ objs[o].rom = TRUE /\ objs[o].joins = was[o].joins
                                   /\ objs[o].parent = Position(Awaited(<< m, p, o >>).parent)
  BY <1>1, ObjectIs
<1>5. Elements(uris) = Said(node, "object", {"uri"}) /\ Len(uris) = Cardinality(Said(node, "object", {"uri"}))
  BY TextsAreSaid DEF Telling
<1>6. Elements(known) = DescribedBy(node, "objectMap") /\ Len(known) = Cardinality(DescribedBy(node, "objectMap"))
  BY KnownIsDescribed
<1>7. \A i \in DOMAIN known : Strategy(known[i]) = "reference" =>
        /\ FirstUri(known[i], "parentTriplesMap") \in Said(known[i], "parentTriplesMap", {"uri"})
        /\ Awaited(<< m, p, Len(uris) + i >>).parent = FirstUri(known[i], "parentTriplesMap")
  BY ParentSaid
<1> HIDE DEF node, objs, was, uris, known
<1>8. Len(objs) = Cardinality(Said(node, "object", {"uri"})) + Cardinality(DescribedBy(node, "objectMap"))
  BY <1>2, <1>3, <1>5, <1>6
<1>9. ASSUME NEW u \in Said(node, "object", {"uri"})
      PROVE  \E i \in DOMAIN objs : IsObjectIri(objs[i], u)
  <2>1. PICK i \in DOMAIN uris : uris[i] = u
    BY <1>5 DEF Elements
  <2>2. i \in DOMAIN objs /\ objs[i] = [rom |-> FALSE, map |-> Constant("iri", u)]
    BY <1>2, <1>3, <1>4, <2>1
  <2>3. IsObjectIri(objs[i], u)
    BY <2>2 DEF IsObjectIri, IsIri
  <2> QED
    BY <2>2, <2>3
<1>10. ASSUME NEW n \in DescribedBy(node, "objectMap")
       PROVE  \E i \in DOMAIN objs : IsObjectOf(objs[i], n)
  <2>1. PICK i \in DOMAIN known : known[i] = n
    BY <1>6 DEF Elements
  <2> DEFINE o == Len(uris) + i
             om == objs[o]
  <2>2. o \in DOMAIN objs /\ was[o] = ObjectMapOf(n)
    BY <1>2, <1>3, <2>1
  <2>3. CASE Strategy(n) = "reference"
    <3>1. was[o] = [rom |-> TRUE, parent |-> 0, joins |-> JoinsOf(n)]
      BY <2>2, <2>3, ObjectMapFacts
    <3>2. was[o].joins = JoinsOf(n) /\ Awaiting(was[o])
      <4>1. Awaiting(was[o])
        BY <3>1 DEF Awaiting
      <4>2. was[o].joins = JoinsOf(n)
        BY <3>1
      <4> QED
        BY <4>1, <4>2
    <3>3. om.rom = TRUE /\ om.joins = JoinsOf(n) /\ om.parent = Position(FirstUri(n, "parentTriplesMap"))
          /\ FirstUri(n, "parentTriplesMap") \in Said(n, "parentTriplesMap", {"uri"})
      BY <1>4, <1>7, <2>1, <2>2, <2>3, <3>2
    <3> HIDE DEF om
    <3>4. IF om.parent = 0 THEN \A k \in DOMAIN maps : maps[k].id # FirstUri(n, "parentTriplesMap")
          ELSE maps[om.parent].id = FirstUri(n, "parentTriplesMap")
      BY <1>1, <3>3, PositionFacts
    <3>5. /\ Len(om.joins) = Cardinality(Said(n, "joinCondition", {"uri", "blank"}))
          /\ \A c \in Said(n, "joinCondition", {"uri", "blank"}) :
               Said(c, "child", {"literal"}) \X Said(c, "parent", {"literal"}) \cap Elements(om.joins) # {}
      BY <3>3, JoinsSaid
    <3>6. IsReferenceOf(om, n)
      BY <3>3, <3>4, <3>5, Zenon DEF IsReferenceOf
    <3>7. IsObjectOf(om, n)
      BY <3>3, <3>6 DEF IsObjectOf
    <3> QED
      BY <2>2, <3>7 DEF om
  <2>4. CASE Strategy(n) # "reference"
    <3>1. was[o] = [rom |-> FALSE, map |-> RegularMapOf(n)]
      BY <2>2, <2>4, ObjectMapFacts
    <3>2. Regular(was[o])
      BY <3>1 DEF Regular
    <3>3. om = [rom |-> FALSE, map |-> RegularMapOf(n)]
      BY <1>4, <2>2, <3>1, <3>2
    <3> HIDE DEF om
    <3>4. om.rom = FALSE /\ om.map = RegularMapOf(n)
      BY <3>3
    <3>5. Strategy(n) # "unknown"
      BY DescribedIs DEF DescribedBy
    <3>6. SaidOf(om.map, n, IF om.map.kind = "column" THEN "literal" ELSE "iri") /\ TagsSaidOf(om.map, n)
      BY <2>4, <3>4, <3>5, RegularSaid
    <3>7. IsObjectOf(om, n)
      BY <3>4, <3>6 DEF IsObjectOf
    <3> QED
      BY <2>2, <3>7 DEF om
  <2> QED
    BY <2>3, <2>4
<1> QED
  BY <1>8, <1>9, <1>10 DEF Lists, node, objs

LEMMA PomSaid ==
  ASSUME Whole, NEW m \in DOMAIN maps, NEW p \in DOMAIN PomNodes(maps[m].id)
  PROVE  IsPomOf(maps[m].poms[p], PomNodes(maps[m].id)[p])
<1> DEFINE node == PomNodes(maps[m].id)[p]
           pom == maps[m].poms[p]
<1>1. pom.preds = TermMaps(node, "predicate", "predicateMap") /\ pom.graphs = TermMaps(node, "graph", "graphMap")
  BY PomIs DEF Whole
<1>2. Lists(pom.objs, node, "object", "objectMap", IsObjectIri, IsObjectOf)
  BY ObjectsSaid
<1>3. Lists(TermMaps(node, "predicate", "predicateMap"), node, "predicate", "predicateMap", IsIri, IsTermMapOf)
  BY TermMapsSaid
<1>4. Lists(TermMaps(node, "graph", "graphMap"), node, "graph", "graphMap", IsIri, IsTermMapOf)
  BY TermMapsSaid
<1> HIDE DEF node, pom
<1>5. IsPomOf(pom, node)
  BY <1>1, <1>2, <1>3, <1>4 DEF IsPomOf
<1> QED
  BY <1>5 DEF node, pom

(* A subject map is not a literal, whatever its node says.                 *)
LEMMA SubjectRetyped ==
  ASSUME NEW node, NEW kind, NEW type, NEW text, NEW cols, NEW lang, NEW dt,
         SubjectValue(node) = Parts(kind, type, text, cols, lang, dt)
  PROVE  SubjectMapOf(node) = Parts(kind, IF type = "literal" THEN "iri" ELSE type, text, cols, lang, dt)
<1> DEFINE value == SubjectValue(node)
           other == IF value.type = "literal" THEN "iri" ELSE value.type
<1>1. SubjectMapOf(node) = [value EXCEPT !.type = other]
  BY DEF SubjectMapOf
<1>2. value.type = type
  BY PartsAre
<1>3. other = IF type = "literal" THEN "iri" ELSE type
  BY <1>2
<1> HIDE DEF other, value
<1>4. [Parts(kind, type, text, cols, lang, dt) EXCEPT !.type = other] = Parts(kind, other, text, cols, lang, dt)
  BY Retyped
<1>5. SubjectMapOf(node) = Parts(kind, other, text, cols, lang, dt)
  BY <1>1, <1>4 DEF value
<1> QED
  BY <1>3, <1>5

(* What a subject node may say.                                            *)
LEMMA SubjectNodeIs ==
  ASSUME Whole, NEW s, NEW node \in Said(s, "subjectMap", {"uri", "blank"})
  PROVE  LET types == Said(node, "termType", {"uri"})
         IN  /\ Said(node, "constant", {"literal"}) = {} /\ Said(node, "parentTriplesMap", {"uri"}) = {}
             /\ Said(node, "constant", {"uri"}) # {} => "literal" \notin types
             /\ ExplicitType(node, "iri") = "literal" <=> types = {"literal"}
<1> DEFINE types == Said(node, "termType", {"uri"})
<1>1. PICK st \in document : st.p = "subjectMap" /\ node = st.o.text
  BY SaidIs
<1>2. \A u \in document : u.s = node /\ u.p = "constant" => u.o.is = "uri" /\ "literal" \notin types
  BY <1>1 DEF Whole, Proper, SubjectProper, Said
<1>3. Said(node, "constant", {"literal"}) = {}
  <2> SUFFICES ASSUME NEW x \in Said(node, "constant", {"literal"}) PROVE FALSE
    OBVIOUS
  <2>1. PICK u \in document : u.s = node /\ u.p = "constant" /\ u.o.is \in {"literal"}
    BY SaidIs
  <2> QED
    BY <1>2, <2>1
<1>4. Said(node, "constant", {"uri"}) # {} => "literal" \notin types
  <2> SUFFICES ASSUME NEW x \in Said(node, "constant", {"uri"}) PROVE "literal" \notin types
    OBVIOUS
  <2>1. PICK u \in document : u.s = node /\ u.p = "constant"
    BY SaidIs
  <2> QED
    BY <1>2, <2>1
<1>5. Said(node, "parentTriplesMap", {"uri"}) = {}
  BY NoReference
<1>6. \A x, y \in types : x = y
  <2> SUFFICES ASSUME NEW x \in types, NEW y \in types PROVE x = y
    OBVIOUS
  <2>1. PICK t \in document : t.s = node /\ t.p = "termType" /\ x = t.o.text
    BY SaidIs
  <2>2. PICK u \in document : u.s = node /\ u.p = "termType" /\ y = u.o.text
    BY SaidIs
  <2>3. t = u
    BY <2>1, <2>2 DEF Whole, Proper
  <2> QED
    BY <2>1, <2>2, <2>3
<1>7. /\ types = {} => ExplicitType(node, "iri") = "iri"
      /\ types # {} => ExplicitType(node, "iri") \in types
  BY TypeIs
<1> HIDE DEF types
<1>8. ExplicitType(node, "iri") = "literal" <=> types = {"literal"}
  BY <1>6, <1>7
<1> QED
  BY <1>3, <1>4, <1>5, <1>8 DEF types

(* A column or a template without tags.                                    *)
LEMMA UntaggedSaid ==
  ASSUME NEW n, NEW type, NEW text, NEW cols, NEW lang, NEW dt,
         Said(n, "termType", {"uri"}) = {} => type = "iri",
         Said(n, "termType", {"uri"}) # {} => type \in Said(n, "termType", {"uri"})
  PROVE  /\ cols[1] \in Said(n, "column", {"literal"}) =>
              SaidOf(Parts("column", type, text, cols, lang, dt), n, "iri")
         /\ << text, cols >> \in Said(n, "template", {"literal"}) =>
              SaidOf(Parts("template", type, text, cols, lang, dt), n, "iri")
<1> DEFINE tm(kind) == Parts(kind, type, text, cols, lang, dt)
<1>1. ASSUME NEW kind
      PROVE  tm(kind).kind = kind /\ tm(kind).type = type /\ tm(kind).text = text /\ tm(kind).cols = cols
  BY PartsAre
<1> HIDE DEF tm
<1>2. cols[1] \in Said(n, "column", {"literal"}) => SaidOf(tm("column"), n, "iri")
  BY <1>1 DEF SaidOf
<1>3. << text, cols >> \in Said(n, "template", {"literal"}) => SaidOf(tm("template"), n, "iri")
  BY <1>1 DEF SaidOf
<1> QED
  BY <1>2, <1>3 DEF tm

(* The type of a subject that its node calls a literal is noted and taken  *)
(* for an IRI; any other is kept.                                          *)
LEMMA SubjectTyped ==
  ASSUME Whole, NEW s, NEW node \in Said(s, "subjectMap", {"uri", "blank"}),
         NEW kind, NEW text, NEW cols,
         SubjectValue(node) = Value(kind, ExplicitType(node, "iri"), text, cols)
  PROVE  (IF Said(node, "termType", {"uri"}) = {"literal"}
            THEN [SubjectMapOf(node) EXCEPT !.type = "literal"] ELSE SubjectMapOf(node))
           = Parts(kind, ExplicitType(node, "iri"), text, cols, NoTag, NoTag)
<1> DEFINE type == ExplicitType(node, "iri")
<1>1. SubjectValue(node) = Parts(kind, type, text, cols, NoTag, NoTag)
  BY DEF Value, Parts
<1>2. type = "literal" <=> Said(node, "termType", {"uri"}) = {"literal"}
  BY SubjectNodeIs
<1> HIDE DEF type
<1>3. SubjectMapOf(node) = Parts(kind, IF type = "literal" THEN "iri" ELSE type, text, cols, NoTag, NoTag)
  BY <1>1, SubjectRetyped
<1>4. CASE type = "literal"
  <2>1. SubjectMapOf(node) = Parts(kind, "iri", text, cols, NoTag, NoTag)
    BY <1>3, <1>4
  <2>2. [Parts(kind, "iri", text, cols, NoTag, NoTag) EXCEPT !.type = "literal"]
          = Parts(kind, "literal", text, cols, NoTag, NoTag)
    BY Retyped
  <2> QED
    BY <1>2, <1>4, <2>1, <2>2 DEF type
<1>5. CASE type # "literal"
  BY <1>2, <1>3, <1>5 DEF type
<1> QED
  BY <1>4, <1>5

(* The subject map is what its node says, or has no value.                 *)
LEMMA SubjectValueSaid ==
  ASSUME Whole, NEW s, NEW node \in Said(s, "subjectMap", {"uri", "blank"})
  PROVE  IF Described(node)
           THEN SaidOf(IF Said(node, "termType", {"uri"}) = {"literal"}
                         THEN [SubjectMapOf(node) EXCEPT !.type = "literal"] ELSE SubjectMapOf(node), node, "iri")
           ELSE SubjectMapOf(node).kind = "none"
<1> DEFINE types == Said(node, "termType", {"uri"})
           tm == IF types = {"literal"} THEN [SubjectMapOf(node) EXCEPT !.type = "literal"] ELSE SubjectMapOf(node)
           type == ExplicitType(node, "iri")
           none == ""
<1>1. (types = {} => type = "iri") /\ (types # {} => type \in types)
  BY TypeIs
<1>2. /\ FirstLiteral(node, "column") = EmptyText <=> Said(node, "column", {"literal"}) = {}
      /\ FirstLiteral(node, "template") = EmptyText <=> Said(node, "template", {"literal"}) = {}
  <2>1. "column" # "constant" /\ "template" # "constant"
    OBVIOUS
  <2> QED
    BY <2>1, LiteralIsSaid
<1>3. FirstUri(node, "constant") = EmptyText <=> Said(node, "constant", {"uri"}) = {}
  BY UriIsSaid
<1>4. CASE Said(node, "template", {"literal"}) # {}
  <2> DEFINE text == FirstLiteral(node, "template")[1]
             cols == FirstLiteral(node, "template")[2]
  <2>1. SubjectValue(node) = Value("template", type, text, cols)
    BY <1>2, <1>4 DEF SubjectValue, TemplateValue
  <2>2. << text, cols >> \in Said(node, "template", {"literal"})
    BY <1>4, TemplateIs
  <2>3. Described(node)
    BY <1>4, DescribedIs, StrategyIs
  <2> HIDE DEF text, cols
  <2>4. tm = Parts("template", type, text, cols, NoTag, NoTag)
    BY <2>1, SubjectTyped
  <2>5. SaidOf(Parts("template", type, text, cols, NoTag, NoTag), node, "iri")
    BY <1>1, <2>2, UntaggedSaid
  <2> HIDE DEF tm, type
  <2>6. SaidOf(tm, node, "iri")
    BY <2>4, <2>5
  <2> QED
    BY <2>3, <2>6 DEF tm
<1>5. CASE Said(node, "template", {"literal"}) = {} /\ Said(node, "column", {"literal"}) # {}
  <2> DEFINE cols == << FirstLiteral(node, "column") >>
  <2>1. SubjectValue(node) = Value("column", type, none, cols)
    <3>1. SubjectValue(node) = ColumnValue(node)
      BY <1>2, <1>5 DEF SubjectValue
    <3> QED
      BY <3>1 DEF ColumnValue
  <2>2. cols[1] \in Said(node, "column", {"literal"})
    BY <1>5, ColumnIs
  <2>3. Described(node)
    BY <1>5, DescribedIs, StrategyIs
  <2> HIDE DEF cols, none
  <2>4. tm = Parts("column", type, none, cols, NoTag, NoTag)
    BY <2>1, SubjectTyped
  <2>5. SaidOf(Parts("column", type, none, cols, NoTag, NoTag), node, "iri")
    BY <1>1, <2>2, UntaggedSaid
  <2> HIDE DEF tm, type
  <2>6. SaidOf(tm, node, "iri")
    BY <2>4, <2>5
  <2> QED
    BY <2>3, <2>6 DEF tm
<1>6. CASE /\ Said(node, "template", {"literal"}) = {} /\ Said(node, "column", {"literal"}) = {}
           /\ Said(node, "constant", {"uri"}) # {}
  <2> DEFINE text == FirstUri(node, "constant")
  <2>1. SubjectValue(node) = Constant("iri", text)
    BY <1>2, <1>3, <1>6 DEF SubjectValue
  <2>2. text \in Said(node, "constant", {"uri"})
    BY <1>6, UriIsSaid
  <2>3. Described(node)
    BY <1>6, DescribedIs, StrategyIs
  <2>4. types # {"literal"}
    BY <1>6, SubjectNodeIs
  <2> HIDE DEF text
  <2>5. Constant("iri", text) = Parts("constant", "iri", text, << >>, NoTag, NoTag)
    BY DEF Constant, Value, Parts
  <2>6. SubjectMapOf(node) = Parts("constant", "iri", text, << >>, NoTag, NoTag)
    <3>1. SubjectMapOf(node)
            = Parts("constant", IF "iri" = "literal" THEN "iri" ELSE "iri", text, << >>, NoTag, NoTag)
      BY <2>1, <2>5, SubjectRetyped
    <3> QED
      BY <3>1
  <2>7. SubjectMapOf(node) = Constant("iri", text)
    BY <2>5, <2>6
  <2>8. SaidOf(Constant("iri", text), node, "iri")
    BY <2>2, ConstantIs
  <2>9. tm = Constant("iri", text)
    BY <2>4, <2>7
  <2> HIDE DEF tm
  <2>10. SaidOf(tm, node, "iri")
    BY <2>8, <2>9
  <2> QED
    BY <2>3, <2>10 DEF tm
<1>7. CASE /\ Said(node, "template", {"literal"}) = {} /\ Said(node, "column", {"literal"}) = {}
           /\ Said(node, "constant", {"uri"}) = {}
  <2>1. SubjectValue(node) = Value("none", "iri", none, << >>)
    BY <1>2, <1>3, <1>7 DEF SubjectValue
  <2> HIDE DEF none
  <2>2. SubjectValue(node) = Parts("none", "iri", none, << >>, NoTag, NoTag)
    BY <2>1 DEF Value, Parts
  <2>3. SubjectMapOf(node) = Parts("none", IF "iri" = "literal" THEN "iri" ELSE "iri", none, << >>, NoTag, NoTag)
    BY <2>2, SubjectRetyped
  <2>4. SubjectMapOf(node).kind = "none"
    BY <2>3, PartsAre
  <2>5. Said(node, "constant", {"literal"}) = {} /\ Said(node, "parentTriplesMap", {"uri"}) = {}
    BY SubjectNodeIs
  <2>6. ~Described(node)
    BY <1>7, <2>5, DescribedIs, StrategyIs
  <2> QED
    BY <2>4, <2>6
<1> QED
  BY <1>4, <1>5, <1>6, <1>7

LEMMA SubjectSaid ==
  ASSUME Whole, NEW s, NEW node \in Said(s, "subjectMap", {"uri", "blank"}), NEW tm,
         tm.subject = SubjectMapOf(node), tm.classes = Texts(node, "class", {"uri"}),
         tm.graphs = GraphMapsOf(node)
  PROVE  IsSubjectOf(tm, node)
<1>1. Elements(tm.classes) = Said(node, "class", {"uri"})
  BY TextsAreSaid
<1>2. Lists(tm.graphs, node, "graph", "graphMap", IsIri, IsTermMapOf)
  <2>1. tm.graphs = TermMaps(node, "graph", "graphMap")
    BY DEF GraphMapsOf, TermMaps
  <2>2. Lists(TermMaps(node, "graph", "graphMap"), node, "graph", "graphMap", IsIri, IsTermMapOf)
    BY TermMapsSaid
  <2> QED
    BY <2>1, <2>2
<1>3. IF Described(node)
        THEN SaidOf(IF Said(node, "termType", {"uri"}) = {"literal"}
                      THEN [tm.subject EXCEPT !.type = "literal"] ELSE tm.subject, node, "iri")
        ELSE tm.subject.kind = "none"
  BY SubjectValueSaid
<1> QED
  BY <1>1, <1>2, <1>3 DEF IsSubjectOf

(* The logical table is the one that its node names.                       *)
LEMMA SourcesAre ==
  ASSUME NEW tables, NEW x
  PROVE  x \in UNION { Said(t, p, {"literal"}) : t \in tables, p \in {"tableName", "sqlQuery"} }
           <=> \E t \in tables : x \in Said(t, "tableName", {"literal"}) \/ x \in Said(t, "sqlQuery", {"literal"})
OBVIOUS

LEMMA TableSaid ==
  ASSUME Whole, NEW name, NEW sources, NEW table,
         \A x : x \in sources <=>
           \E t \in Said(name, "logicalTable", {"uri", "blank"}) :
             x \in Said(t, "tableName", {"literal"}) \/ x \in Said(t, "sqlQuery", {"literal"}),
         table = IF FirstNode(name, "logicalTable") = EmptyText THEN NoTable
                 ELSE TableOf(FirstNode(name, "logicalTable"))
  PROVE  IF sources = {} THEN table = NoTable ELSE table \in sources
<1> DEFINE tables == Said(name, "logicalTable", {"uri", "blank"})
           node == FirstNode(name, "logicalTable")
<1>1. (node = EmptyText <=> tables = {}) /\ (tables # {} => node \in tables)
  BY NodeIsSaid
<1>2. \A x, y \in tables : x = y
  <2> SUFFICES ASSUME NEW x \in tables, NEW y \in tables PROVE x = y
    OBVIOUS
  <2>1. PICK t \in document : t.s = name /\ t.p = "logicalTable" /\ x = t.o.text
    BY SaidIs
  <2>2. PICK u \in document : u.s = name /\ u.p = "logicalTable" /\ y = u.o.text
    BY SaidIs
  <2>3. t = u
    BY <2>1, <2>2 DEF Whole, Proper
  <2> QED
    BY <2>1, <2>2, <2>3
<1>3. \A x : x \in sources <=> \E t \in tables : \/ x \in Said(t, "tableName", {"literal"})
                                               \/ x \in Said(t, "sqlQuery", {"literal"})
  OBVIOUS
<1>4. table = IF node = EmptyText THEN NoTable ELSE TableOf(node)
  OBVIOUS
<1> HIDE DEF tables, node
<1>5. CASE tables = {}
  BY <1>1, <1>3, <1>4, <1>5
<1>6. CASE tables # {}
  <2>1. /\ FirstLiteral(node, "tableName") = EmptyText <=> Said(node, "tableName", {"literal"}) = {}
        /\ FirstLiteral(node, "sqlQuery") = EmptyText <=> Said(node, "sqlQuery", {"literal"}) = {}
        /\ Said(node, "tableName", {"literal"}) # {} =>
             FirstLiteral(node, "tableName") \in Said(node, "tableName", {"literal"})
        /\ Said(node, "sqlQuery", {"literal"}) # {} =>
             FirstLiteral(node, "sqlQuery") \in Said(node, "sqlQuery", {"literal"})
    <3>1. "tableName" # "constant" /\ "sqlQuery" # "constant"
      OBVIOUS
    <3> QED
      BY <3>1, LiteralIsSaid
  <2>2. node \in tables /\ node # EmptyText
    BY <1>1, <1>6
  <2>3. \A x : x \in sources <=> \/ x \in Said(node, "tableName", {"literal"})
                              \/ x \in Said(node, "sqlQuery", {"literal"})
    BY <1>2, <1>3, <2>2
  <2>4. table = TableOf(node)
    BY <1>4, <2>2
  <2> QED
    BY <2>1, <2>3, <2>4 DEF TableOf
<1> QED
  BY <1>5, <1>6

LEMMA MapSaid == ASSUME Whole, NEW m \in DOMAIN maps PROVE IsMapOf(maps[m])
<1> DEFINE name == maps[m].id
           node == FirstNode(name, "subjectMap")
           subjects == Said(name, "subjectMap", {"uri", "blank"})
           poms == Said(name, "predicateObjectMap", {"uri", "blank"})
           sources == UNION { Said(t, p, {"literal"}) : t \in Said(name, "logicalTable", {"uri", "blank"}),
                                                        p \in {"tableName", "sqlQuery"} }
<1>1. /\ maps[m].table = IF FirstNode(name, "logicalTable") = EmptyText THEN NoTable
                         ELSE TableOf(FirstNode(name, "logicalTable"))
      /\ node = EmptyText => maps[m].subject = Value("absent", "iri", "", << >>)
      /\ node # EmptyText => /\ maps[m].subject = SubjectMapOf(node)
                             /\ maps[m].classes = Texts(node, "class", {"uri"})
                             /\ maps[m].graphs = GraphMapsOf(node)
  <2> DEFINE tm == TriplesMapOf(name)
             none == Value("absent", "iri", "", << >>)
  <2>1. /\ maps[m].table = tm.table /\ maps[m].subject = tm.subject
        /\ maps[m].classes = tm.classes /\ maps[m].graphs = tm.graphs
    BY MapIs DEF Whole
  <2>2. /\ tm.table = IF FirstNode(name, "logicalTable") = EmptyText THEN NoTable
                      ELSE TableOf(FirstNode(name, "logicalTable"))
        /\ tm.subject = IF node = EmptyText THEN none ELSE SubjectMapOf(node)
        /\ tm.classes = IF node = EmptyText THEN << >> ELSE Texts(node, "class", {"uri"})
        /\ tm.graphs = IF node = EmptyText THEN << >> ELSE GraphMapsOf(node)
    BY BuiltMap
  <2> HIDE DEF tm, none, node
  <2>3. /\ node = EmptyText => maps[m].subject = none
        /\ node # EmptyText => /\ maps[m].subject = SubjectMapOf(node)
                               /\ maps[m].classes = Texts(node, "class", {"uri"})
                               /\ maps[m].graphs = GraphMapsOf(node)
    BY <2>1, <2>2
  <2> QED
    BY <2>1, <2>2, <2>3 DEF none
<1>2. IF sources = {} THEN maps[m].table = NoTable ELSE maps[m].table \in sources
  <2> DEFINE table == maps[m].table
  <2>1. table = IF FirstNode(name, "logicalTable") = EmptyText THEN NoTable
                ELSE TableOf(FirstNode(name, "logicalTable"))
    BY <1>1
  <2>2. \A x : x \in sources <=>
          \E t \in Said(name, "logicalTable", {"uri", "blank"}) :
            x \in Said(t, "tableName", {"literal"}) \/ x \in Said(t, "sqlQuery", {"literal"})
    BY SourcesAre
  <2> HIDE DEF table, sources, name
  <2>3. IF sources = {} THEN table = NoTable ELSE table \in sources
    BY <2>1, <2>2, TableSaid
  <2> QED
    BY <2>3 DEF table
<1>3. (node = EmptyText <=> subjects = {}) /\ (subjects # {} => node \in subjects)
  BY NodeIsSaid
<1>4. subjects = {} => maps[m].subject.kind = "absent"
  <2> DEFINE none == ""
  <2>1. Value("absent", "iri", none, << >>).kind = "absent"
    <3> HIDE DEF none
    <3> QED
      BY DEF Value
  <2>2. subjects = {} => maps[m].subject = Value("absent", "iri", none, << >>)
    BY <1>1, <1>3
  <2> QED
    BY <2>1, <2>2, Zenon
<1>5. subjects # {} => \E n \in subjects : IsSubjectOf(maps[m], n)
  <2> SUFFICES ASSUME subjects # {} PROVE IsSubjectOf(maps[m], node)
    BY <1>3
  <2> QED
    BY <1>1, <1>3, SubjectSaid
<1>6. /\ Len(maps[m].poms) = Cardinality(poms) /\ DOMAIN maps[m].poms = DOMAIN PomNodes(name)
      /\ Elements(PomNodes(name)) = poms
  <2>1. Elements(PomNodes(name)) = poms /\ Len(PomNodes(name)) = Cardinality(poms)
    BY TextsAreSaid DEF PomNodes, Nodes, Telling
  <2>2. Len(maps[m].poms) = Len(PomNodes(name)) /\ DOMAIN maps[m].poms = DOMAIN PomNodes(name)
    BY MapIs DEF Whole
  <2> QED
    BY <2>1, <2>2
<1>7. \A n \in poms : \E i \in DOMAIN maps[m].poms : IsPomOf(maps[m].poms[i], n)
  <2> SUFFICES ASSUME NEW n \in poms PROVE \E i \in DOMAIN maps[m].poms : IsPomOf(maps[m].poms[i], n)
    OBVIOUS
  <2>1. PICK i \in DOMAIN PomNodes(name) : PomNodes(name)[i] = n
    BY <1>6 DEF Elements
  <2>2. IsPomOf(maps[m].poms[i], PomNodes(name)[i])
    BY PomSaid
  <2> QED
    BY <1>6, <2>1, <2>2
<1> HIDE DEF sources, subjects, poms, node
<1>8. /\ IF sources = {} THEN maps[m].table = NoTable ELSE maps[m].table \in sources
      /\ IF subjects = {} THEN maps[m].subject.kind = "absent" ELSE \E n \in subjects : IsSubjectOf(maps[m], n)
      /\ Len(maps[m].poms) = Cardinality(poms)
      /\ \A n \in poms : \E i \in DOMAIN maps[m].poms : IsPomOf(maps[m].poms[i], n)
  BY <1>2, <1>4, <1>5, <1>6, <1>7
<1> QED
  BY <1>8 DEF IsMapOf, sources, subjects, poms

(* The triples maps are those that the document names.                     *)
LEMMA NamedIs ==
  ASSUME Whole, NEW name
  PROVE  IsTriplesMap(name)
           <=> \E p \in {"logicalTable", "subjectMap", "predicateObjectMap", "subject"} :
                 Said(name, p, {"uri", "blank", "literal"}) # {}
<1>1. ASSUME NEW p
      PROVE  << name, p >> \in DOMAIN triples <=> Said(name, p, {"uri", "blank", "literal"}) # {}
  <2>1. ASSUME << name, p >> \in DOMAIN triples
        PROVE  Said(name, p, {"uri", "blank", "literal"}) # {}
    <3> DEFINE objects == triples[<< name, p >>]
    <3>1. /\ IsSequence(objects) /\ objects # << >>
          /\ \A o \in Elements(objects) : \E st \in document \ unread : << st.s, st.p >> = << name, p >> /\ st.o = o
      BY <2>1 DEF Whole, IInv, StoreKept
    <3> HIDE DEF objects
    <3>2. PICK i \in DOMAIN objects : TRUE
      <4> SUFFICES ASSUME DOMAIN objects = {} PROVE FALSE
        OBVIOUS
      <4>1. Len(objects) \in Nat /\ DOMAIN objects = 1 .. Len(objects)
        BY <3>1, SequenceFacts
      <4>2. Len(objects) = 0
        BY <4>1
      <4>3. objects \in Seq({ objects[i] : i \in DOMAIN objects })
        BY <3>1 DEF IsSequence
      <4> QED
        BY <3>1, <4>2, <4>3
    <3>3. objects[i] \in Elements(objects)
      BY <3>2 DEF Elements
    <3>4. PICK st \in document : st.s = name /\ st.p = p /\ st.o = objects[i]
      BY <3>1, <3>3
    <3>5. st.o.is \in {"uri", "blank", "literal"}
      BY <3>4, DocumentsAssumption DEF IsStatement, Whole, IInv, StoreKept
    <3>6. st.o.text \in Said(name, p, {"uri", "blank", "literal"})
      BY <3>4, <3>5, SaidIs
    <3> QED
      BY <3>6
  <2>2. ASSUME Said(name, p, {"uri", "blank", "literal"}) # {}
        PROVE  << name, p >> \in DOMAIN triples
    <3>1. PICK x : x \in Said(name, p, {"uri", "blank", "literal"})
      BY <2>2
    <3>2. PICK st \in document : st.s = name /\ st.p = p
      BY <3>1, SaidIs
    <3>3. st.o \in Elements(Objects(name, p))
      BY <3>2, StoredIsSaid
    <3> QED
      BY <3>3 DEF Objects, Elements
  <2> QED
    BY <2>1, <2>2
<1> QED
  BY <1>1 DEF IsTriplesMap

LEMMA NamesSaid == ASSUME Whole PROVE { maps[m].id : m \in DOMAIN maps } = NamedMaps
<1>1. DOMAIN Names = 1 .. Len(Names) /\ Len(Names) \in Nat
  BY DocumentsAssumption, SequenceFacts
<1>2. next - 1 = Len(Names)
  BY <1>1 DEF Whole, IInv, Progress
<1>3. \A m \in DOMAIN maps : \E k \in DOMAIN Names : maps[m].id = Names[k] /\ IsTriplesMap(Names[k])
  BY <1>1, <1>2 DEF Whole, IInv, MapsBuilt
<1>4. \A k \in DOMAIN Names : IsTriplesMap(Names[k]) => \E m \in DOMAIN maps : maps[m].id = Names[k]
  BY <1>1, <1>2 DEF Whole, IInv, MapsBuilt
<1>5. \A name : name \in NamedMaps <=> name \in Elements(Names) /\ IsTriplesMap(name)
  BY NamedIs DEF NamedMaps
<1>6. ASSUME NEW m \in DOMAIN maps
      PROVE  maps[m].id \in NamedMaps
  <2>1. PICK k \in DOMAIN Names : maps[m].id = Names[k] /\ IsTriplesMap(Names[k])
    BY <1>3
  <2>2. maps[m].id \in Elements(Names)
    BY <2>1 DEF Elements
  <2> QED
    BY <1>5, <2>1, <2>2
<1>7. ASSUME NEW name \in NamedMaps
      PROVE  \E m \in DOMAIN maps : maps[m].id = name
  <2>1. name \in Elements(Names) /\ IsTriplesMap(name)
    BY <1>5
  <2>2. PICK k \in DOMAIN Names : Names[k] = name
    BY <2>1 DEF Elements
  <2> QED
    BY <1>4, <2>1, <2>2
<1> QED
  BY <1>6, <1>7

(* When the documents that may be read say one thing each, what is         *)
(* returned is the mapping that the document describes, or an error says   *)
(* that a statement was lost (R2RMLParser::parse, buildMapping).           *)
THEOREM WrittenIsReturned ==
  ASSUME \A d \in Documents : Proper(d)
  PROVE  Spec => []ReturnsWhatIsWritten
<1>1. IInv => ReturnsWhatIsWritten
  <2> SUFFICES ASSUME IInv, phase = "returned", \A e \in errors : e.what # "syntax"
               PROVE  /\ { maps[m].id : m \in DOMAIN maps } = NamedMaps
                      /\ \A m \in DOMAIN maps : IsMapOf(maps[m])
    BY DEF ReturnsWhatIsWritten
  <2>1. Built /\ unread = {}
    BY DEF IInv, Progress, Built
  <2>2. Proper(document)
    BY DEF IInv, StoreKept
  <2>3. Whole
    BY <2>1, <2>2 DEF Whole
  <2> QED
    BY <2>3, NamesSaid, MapSaid
<1> QED
  BY <1>1, AlwaysIInv, PTL

=============================================================================
