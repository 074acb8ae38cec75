---------------------------- MODULE YarrrmlProofs ----------------------------
(***************************************************************************)
(* No blank node is minted twice for a YARRRML document, whatever it holds *)
(* and however long its lists are.                                         *)
(*                                                                         *)
(* The argument: whatever translates a part of a mapping takes what the    *)
(* translation has come to and gives what it comes to then.  Since says    *)
(* what all of them keep: that the statements added are about nodes minted *)
(* since, one for each property that has one value.  The loops over        *)
(* conditions, objects, predicates and statements are functions of how far *)
(* they have come, so that induction over the places of a list suffices.   *)
(* Inv then relates the collected statements to the counter and the turn.  *)
(***************************************************************************)
EXTENDS Yarrrml, FiniteSetTheorems, WellFoundedInduction, TLAPS

(* What names of blank nodes are: no two numbers have the same, as         *)
(* to_string of a counter has it, and none is the name of a mapping, for   *)
(* the key of a blank node begins with "_:" and that of a mapping is a URI *)
(* that ends in # and the name (BlankNodeMinter, expandNode).              *)
NamesApart ==
  /\ \A k, n \in Nat : NodeName(k) = NodeName(n) => k = n
  /\ \A n \in Nat : \A d \in Documents : \A t \in DOMAIN d.order : NodeName(n) # d.order[t]

-----------------------------------------------------------------------------
(* Induction, and sequences.                                               *)
LEMMA LeastNumber ==
  ASSUME NEW T \in SUBSET Nat, T # {}
  PROVE  \E n \in T : \A m \in T : n <= m
<1>1. IsWellFoundedOn(OpToRel(<, Nat), Nat)
  BY NatLessThanWellFounded
<1>2. PICK n \in T : \A m \in T : ~(<< m, n >> \in OpToRel(<, Nat))
  BY <1>1, WFMin
<1>3. \A m \in T : m < n => << m, n >> \in OpToRel(<, Nat)
  BY DEF OpToRel
<1>4. \A m \in T : ~(m < n)
  BY <1>2, <1>3
<1> QED
  BY <1>4

LEMMA Upwards ==
  ASSUME NEW N \in Nat, NEW G, 0 \in G, \A n \in 0 .. N - 1 : n \in G => n + 1 \in G
  PROVE  \A n \in 0 .. N : n \in G
<1> DEFINE T == { n \in 0 .. N : n \notin G }
<1> SUFFICES ASSUME T # {} PROVE FALSE
  OBVIOUS
<1>1. PICK n \in T : \A m \in T : n <= m
  BY LeastNumber, T \in SUBSET Nat
<1>2. n # 0 /\ n - 1 \in 0 .. N - 1 /\ n = (n - 1) + 1
  BY <1>1
<1>3. n - 1 \in G
  BY <1>1, <1>2
<1> QED
  BY <1>1, <1>2, <1>3

LEMMA SequenceFacts ==
  ASSUME NEW s, IsSequence(s)
  PROVE  Len(s) \in Nat /\ DOMAIN s = 1 .. Len(s)
BY DEF IsSequence

LEMMA SequenceOf ==
  ASSUME NEW s, NEW n \in Nat, DOMAIN s = 1 .. n, s = [i \in DOMAIN s |-> s[i]]
  PROVE  IsSequence(s) /\ Len(s) = n
<1> DEFINE S == { s[i] : i \in DOMAIN s }
<1>1. \A i \in 1 .. n : s[i] \in S
  OBVIOUS
<1> HIDE DEF S
<1>2. s \in [1 .. n -> S]
  BY <1>1
<1>3. s \in Seq(S)
  BY <1>2
<1>4. Len(s) = n
  BY <1>3
<1> QED
  BY <1>3, <1>4 DEF S, IsSequence

LEMMA InSequences ==
  ASSUME NEW S, NEW s \in Seq(S)
  PROVE  IsSequence(s)
<1>1. Len(s) \in Nat /\ DOMAIN s = 1 .. Len(s)
  OBVIOUS
<1>2. s = [i \in DOMAIN s |-> s[i]]
  OBVIOUS
<1> QED
  BY <1>1, <1>2, SequenceOf

LEMMA Concatenated ==
  ASSUME NEW s, NEW t, IsSequence(s), IsSequence(t)
  PROVE  /\ IsSequence(s \o t)
         /\ \A i \in DOMAIN s : i \in DOMAIN (s \o t) /\ (s \o t)[i] = s[i]
         /\ \A i \in DOMAIN t : Len(s) + i \in DOMAIN (s \o t) /\ (s \o t)[Len(s) + i] = t[i]
         /\ \A k \in DOMAIN (s \o t) : k \in DOMAIN s \/ \E i \in DOMAIN t : k = Len(s) + i
<1> DEFINE S == { s[i] : i \in DOMAIN s } \cup { t[i] : i \in DOMAIN t }
<1>1. s \in Seq(S) /\ t \in Seq(S)
  BY DEF IsSequence
<1> HIDE DEF S
<1>2. s \o t \in Seq(S) /\ Len(s \o t) = Len(s) + Len(t)
  BY <1>1
<1>3. Len(s) \in Nat /\ Len(t) \in Nat /\ DOMAIN s = 1 .. Len(s) /\ DOMAIN t = 1 .. Len(t)
  BY SequenceFacts
<1>4. IsSequence(s \o t)
  BY <1>2, InSequences
<1>5. \A i \in DOMAIN s : i \in DOMAIN (s \o t) /\ (s \o t)[i] = s[i]
  BY <1>1, <1>2, <1>3
<1>6. \A i \in DOMAIN t : Len(s) + i \in DOMAIN (s \o t) /\ (s \o t)[Len(s) + i] = t[i]
  BY <1>1, <1>2, <1>3
<1>7. ASSUME NEW k \in DOMAIN (s \o t), k \notin DOMAIN s
      PROVE  \E i \in DOMAIN t : k = Len(s) + i
  <2>1. k - Len(s) \in DOMAIN t /\ k = Len(s) + (k - Len(s))
    BY <1>2, <1>3, <1>4, <1>7, SequenceFacts
  <2> QED
    BY <2>1
<1> QED
  BY <1>4, <1>5, <1>6, <1>7

LEMMA Appended ==
  ASSUME NEW s, NEW x, IsSequence(s)
  PROVE  IsSequence(Append(s, x))
<1> DEFINE S == { s[i] : i \in DOMAIN s } \cup {x}
<1>1. s \in Seq(S) /\ x \in S
  BY DEF IsSequence
<1> HIDE DEF S
<1>2. Append(s, x) \in Seq(S)
  BY <1>1
<1> QED
  BY <1>2, InSequences

LEMMA Short ==
  /\ IsSequence(<< >>) /\ DOMAIN << >> = {}
  /\ \A x : IsSequence(<< x >>) /\ DOMAIN << x >> = {1} /\ << x >>[1] = x /\ Len(<< x >>) = 1
<1>1. IsSequence(<< >>) /\ DOMAIN << >> = {}
  BY DEF IsSequence
<1>2. ASSUME NEW x PROVE IsSequence(<< x >>) /\ DOMAIN << x >> = {1} /\ << x >>[1] = x /\ Len(<< x >>) = 1
  BY DEF IsSequence
<1> QED
  BY <1>1, <1>2

LEMMA Mapped ==
  ASSUME NEW s, NEW t, IsSequence(s), DOMAIN t = DOMAIN s, t = [i \in DOMAIN t |-> t[i]]
  PROVE  IsSequence(t) /\ Len(t) = Len(s)
BY SequenceFacts, SequenceOf

LEMMA ChosenIsSequence ==
  ASSUME NEW s, IsSequence(s), NEW P \in SUBSET DOMAIN s
  PROVE  IsSequence(Build!Chosen(s, P))
<1>1. Len(s) \in Nat /\ DOMAIN s = 1 .. Len(s) /\ 1 \in Int
  BY SequenceFacts
<1>2. IsFiniteSet(1 .. Len(s))
  BY <1>1, FS_Interval
<1>3. Cardinality(P) \in Nat
  BY <1>1, <1>2, FS_Subset, FS_CardinalityType
<1>4. /\ DOMAIN Build!Chosen(s, P) = 1 .. Cardinality(P)
      /\ Build!Chosen(s, P) = [k \in DOMAIN Build!Chosen(s, P) |-> Build!Chosen(s, P)[k]]
  BY DEF Build!Chosen, Build!Cardinality, Cardinality, Build!IsFiniteSet, IsFiniteSet
<1> QED
  BY <1>3, <1>4, SequenceOf

-----------------------------------------------------------------------------
(* Lists of nodes.                                                         *)
Node(n) == n = Undefined \/ n \in YamlNodes

NodeList(s) == IsSequence(s) /\ \A i \in DOMAIN s : Node(s[i])

LEMMA PartsAreNodes ==
  ASSUME NEW node \in YamlNodes
  PROVE  /\ node.y = "seq" => IsSequence(node.of) /\ \A i \in DOMAIN node.of : node.of[i] \in YamlNodes
         /\ node.y = "map" => \A key \in DOMAIN node.of : node.of[key] \in YamlNodes
<1>1. Children(node) \subseteq YamlNodes
  BY DocumentsAssumption
<1>2. node.y \in {"seq", "map"} => \A k \in DOMAIN node.of : node.of[k] \in YamlNodes
  BY <1>1 DEF Children
<1>3. node.y = "seq" => IsSequence(node.of)
  BY DocumentsAssumption
<1> QED
  BY <1>2, <1>3

LEMMA DocumentFacts ==
  ASSUME NEW d \in Documents
  PROVE  /\ IsSequence(d.order) /\ \A t, u \in DOMAIN d.order : d.order[t] = d.order[u] => t = u
         /\ MappingsOf(d.root).y = "map" =>
              /\ { d.order[t] : t \in DOMAIN d.order } = DOMAIN MappingsOf(d.root).of
              /\ \A name \in DOMAIN MappingsOf(d.root).of : MappingsOf(d.root).of[name] \in YamlNodes
<1>1. Children(MappingsOf(d.root)) \subseteq YamlNodes
  BY DocumentsAssumption
<1>2. MappingsOf(d.root).y = "map" =>
        \A name \in DOMAIN MappingsOf(d.root).of : MappingsOf(d.root).of[name] \in YamlNodes
  BY <1>1 DEF Children
<1>3. /\ IsSequence(d.order) /\ \A t, u \in DOMAIN d.order : d.order[t] = d.order[u] => t = u
      /\ MappingsOf(d.root).y = "map" => { d.order[t] : t \in DOMAIN d.order } = DOMAIN MappingsOf(d.root).of
  BY DocumentsAssumption
<1> QED
  BY <1>2, <1>3

LEMMA ChildIsNode == ASSUME NEW n, Node(n), NEW key PROVE Node(Child(n, key))
BY PartsAreNodes DEF Child, Node, Undefined

LEMMA FirstIsNode == ASSUME NEW n, Node(n), NEW keys PROVE Node(FirstOf(n, keys))
<1> DEFINE there == SelectSeq(keys, LAMBDA k : Present(Child(n, k)))
<1>1. FirstOf(n, keys) = IF there = << >> THEN Undefined ELSE Child(n, there[1])
  BY DEF FirstOf
<1> HIDE DEF there
<1> QED
  BY <1>1, ChildIsNode DEF Node

LEMMA ListIsNodeList == ASSUME NEW n, Node(n) PROVE NodeList(FlattenList(n))
<1>1. CASE n.y = "undefined"
  BY <1>1, Short DEF FlattenList, NodeList
<1>2. CASE n.y = "seq"
  <2>1. n \in YamlNodes
    BY <1>2 DEF Node, Undefined
  <2> QED
    BY <1>2, <2>1, PartsAreNodes DEF FlattenList, NodeList, Node
<1>3. CASE n.y # "undefined" /\ n.y # "seq"
  <2>1. FlattenList(n) = << n >>
    BY <1>3 DEF FlattenList
  <2> QED
    BY <2>1, Short DEF NodeList
<1> QED
  BY <1>1, <1>2, <1>3

(* The lists that are gone through: conditions, objects and predicates.    *)
LEMMA ConditionsAreList == ASSUME NEW obj, Node(obj) PROVE NodeList(Conditions(obj))
<1>1. Node(FirstOf(obj, << "condition", "conditions" >>))
  BY FirstIsNode
<1> QED
  BY <1>1, ListIsNodeList DEF Conditions

LEMMA PartIsNode ==
  ASSUME NEW item, Node(item), EntryFault(item) = "none", item.y = "seq"
  PROVE  Node(item.of[1]) /\ Node(item.of[2])
<1>1. IsSequence(item.of) /\ (\A i \in DOMAIN item.of : item.of[i] \in YamlNodes) /\ ~(Len(item.of) < 2)
  BY PartsAreNodes DEF Node, Undefined, EntryFault
<1>2. 1 \in DOMAIN item.of /\ 2 \in DOMAIN item.of
  BY <1>1, SequenceFacts
<1> QED
  BY <1>1, <1>2 DEF Node

LEMMA ObjectsAreList ==
  ASSUME NEW item, Node(item), EntryFault(item) = "none"
  PROVE  NodeList(ObjectsOf(item))
<1> DEFINE node == IF item.y = "seq" THEN item.of[2] ELSE FirstOf(item, << "objects", "object", "o" >>)
<1>1. Node(FirstOf(item, << "objects", "object", "o" >>))
  BY FirstIsNode
<1>2. Node(node)
  BY <1>1, PartIsNode
<1> HIDE DEF node
<1>3. NodeList(FlattenList(node))
  BY <1>2, ListIsNodeList
<1> QED
  BY <1>3 DEF ObjectsOf, node

LEMMA PredicatesAreSequence ==
  ASSUME NEW item, Node(item), EntryFault(item) = "none"
  PROVE  IsSequence(PredicatesOf(item))
<1> DEFINE node == IF item.y = "seq" THEN item.of[1] ELSE FirstOf(item, << "predicates", "predicate", "p" >>)
           list == FlattenList(node)
           places == { i \in DOMAIN list : IsScalar(list[i]) }
<1>1. Node(FirstOf(item, << "predicates", "predicate", "p" >>))
  BY FirstIsNode
<1>2. Node(node)
  BY <1>1, PartIsNode
<1>3. PredicatesOf(item) = Build!Chosen(list, places)
  BY DEF PredicatesOf
<1>4. IsSequence(list)
  BY <1>2, ListIsNodeList DEF NodeList
<1>5. places \in SUBSET DOMAIN list
  OBVIOUS
<1> HIDE DEF node, list, places
<1> QED
  BY <1>3, <1>4, <1>5, ChosenIsSequence

-----------------------------------------------------------------------------
(* Statements about a node.  Of these properties a node has several        *)
(* values, of the others one.                                              *)
Several == {"class", "predicateObjectMap", "joinCondition"}

Describes(says, node, ps) ==
  /\ IsSequence(says)
  /\ \A i \in DOMAIN says : says[i].p \notin Several => says[i].s = node /\ says[i].p \in ps
  /\ \A i, j \in DOMAIN says : says[i].p \notin Several /\ says[i].p = says[j].p => i = j

LEMMA OneDescribes ==
  ASSUME NEW node, NEW p, NEW is, NEW text
  PROVE  Describes(<< Say(node, p, is, text) >>, node, {p})
<1> DEFINE say == Say(node, p, is, text)
<1>1. say.s = node /\ say.p = p
  BY DEF Say
<1> HIDE DEF say
<1>2. Describes(<< say >>, node, {p})
  BY <1>1, Short DEF Describes
<1> QED
  BY <1>2 DEF say

LEMMA NoneDescribes == ASSUME NEW node, NEW ps PROVE Describes(<< >>, node, ps)
BY Short DEF Describes

LEMMA MayDescribe ==
  ASSUME NEW cond, NEW node, NEW p, NEW is, NEW text
  PROVE  Describes(SayIf(cond, Say(node, p, is, text)), node, {p})
BY OneDescribes, NoneDescribes DEF SayIf

LEMMA BothDescribe ==
  ASSUME NEW a, NEW b, NEW node, NEW ps, NEW qs, Describes(a, node, ps), Describes(b, node, qs), ps \cap qs = {}
  PROVE  Describes(a \o b, node, ps \cup qs)
<1>1. IsSequence(a) /\ IsSequence(b)
  BY DEF Describes
<1>2. /\ IsSequence(a \o b)
      /\ \A i \in DOMAIN a : i \in DOMAIN (a \o b) /\ (a \o b)[i] = a[i]
      /\ \A i \in DOMAIN b : Len(a) + i \in DOMAIN (a \o b) /\ (a \o b)[Len(a) + i] = b[i]
      /\ \A k \in DOMAIN (a \o b) : k \in DOMAIN a \/ \E i \in DOMAIN b : k = Len(a) + i
  BY <1>1, Concatenated, ZenonT(60)
<1> DEFINE c == a \o b
<1>3. IsSequence(c) /\ \A k \in DOMAIN c : \/ k \in DOMAIN a /\ c[k] = a[k]
                                           \/ \E i \in DOMAIN b : k = Len(a) + i /\ c[k] = b[i]
  BY <1>2
<1> HIDE DEF c
<1>4. \A k \in DOMAIN c : c[k].p \notin Several => c[k].s = node /\ c[k].p \in ps \cup qs
  BY <1>3 DEF Describes
<1>5. ASSUME NEW k \in DOMAIN c, NEW l \in DOMAIN c, c[k].p \notin Several, c[k].p = c[l].p PROVE k = l
  <2>1. CASE k \in DOMAIN a /\ c[k] = a[k] /\ l \in DOMAIN a /\ c[l] = a[l]
    BY <1>5, <2>1 DEF Describes
  <2>2. CASE \E i \in DOMAIN b : \E j \in DOMAIN b : k = Len(a) + i /\ c[k] = b[i] /\ l = Len(a) + j /\ c[l] = b[j]
    BY <1>5, <2>2 DEF Describes
  <2>3. CASE k \in DOMAIN a /\ c[k] = a[k] /\ \E j \in DOMAIN b : c[l] = b[j]
    BY <1>5, <2>3 DEF Describes
  <2>4. CASE l \in DOMAIN a /\ c[l] = a[l] /\ \E i \in DOMAIN b : c[k] = b[i]
    BY <1>5, <2>4 DEF Describes
  <2> QED
    BY <1>3, <2>1, <2>2, <2>3, <2>4
<1>6. Describes(c, node, ps \cup qs)
  BY <1>3, <1>4, <1>5 DEF Describes
<1> QED
  BY <1>6 DEF c

(* Any number of values of a property that may have several.               *)
LEMMA SeveralDescribe ==
  ASSUME NEW s, IsSequence(s), NEW t, DOMAIN t = DOMAIN s, t = [i \in DOMAIN t |-> t[i]],
         NEW node, NEW ps, \A i \in DOMAIN t : t[i].p \in Several
  PROVE  Describes(t, node, ps)
<1>1. IsSequence(t)
  BY Mapped
<1> QED
  BY <1>1 DEF Describes

LEMMA WiderDescribes ==
  ASSUME NEW a, NEW node, NEW ps, NEW qs, Describes(a, node, ps), ps \subseteq qs
  PROVE  Describes(a, node, qs)
BY DEF Describes

-----------------------------------------------------------------------------
(* What the translation of a mapping has come to.  Since it had minted m   *)
(* nodes, it has said one thing of each property of the nodes minted since *)
(* that has one value, and nothing of another node.                        *)
IsWork(e) ==
  e = [minted |-> e.minted, says |-> e.says, warns |-> e.warns,
       classes |-> e.classes, poms |-> e.poms, table |-> e.table]

Work(e) ==
  /\ IsWork(e)
  /\ e.minted \in Nat /\ IsSequence(e.says) /\ IsSequence(e.classes) /\ IsSequence(e.poms)

OnceEach(says) ==
  \A i, j \in DOMAIN says :
    says[i].p \notin Several /\ says[i].s = says[j].s /\ says[i].p = says[j].p => i = j

Since(e, m) ==
  /\ Work(e) /\ m <= e.minted
  /\ \A i \in DOMAIN e.says :
       e.says[i].p \notin Several => \E k \in m .. e.minted - 1 : e.says[i].s = NodeName(k)
  /\ OnceEach(e.says)

(* One of these fields is changed.                                         *)
LEMMA WorkChanged ==
  ASSUME NEW e, IsWork(e), NEW x
  PROVE  /\ [e EXCEPT !.minted = x] = [minted |-> x, says |-> e.says, warns |-> e.warns,
                          classes |-> e.classes, poms |-> e.poms, table |-> e.table]
         /\ [e EXCEPT !.says = x] = [minted |-> e.minted, says |-> x, warns |-> e.warns,
                          classes |-> e.classes, poms |-> e.poms, table |-> e.table]
         /\ [e EXCEPT !.warns = x] = [minted |-> e.minted, says |-> e.says, warns |-> x,
                          classes |-> e.classes, poms |-> e.poms, table |-> e.table]
         /\ [e EXCEPT !.classes = x] = [minted |-> e.minted, says |-> e.says, warns |-> e.warns,
                          classes |-> x, poms |-> e.poms, table |-> e.table]
         /\ [e EXCEPT !.poms = x] = [minted |-> e.minted, says |-> e.says, warns |-> e.warns,
                          classes |-> e.classes, poms |-> x, table |-> e.table]
         /\ [e EXCEPT !.table = x] = [minted |-> e.minted, says |-> e.says, warns |-> e.warns,
                          classes |-> e.classes, poms |-> e.poms, table |-> x]
<1>1. PICK a, b, c, d, f, g :
        e = [minted |-> a, says |-> b, warns |-> c, classes |-> d, poms |-> f, table |-> g]
  BY DEF IsWork
<1>2. [e EXCEPT !.minted = x] = [minted |-> x, says |-> e.says, warns |-> e.warns,
                          classes |-> e.classes, poms |-> e.poms, table |-> e.table]
  BY <1>1
<1>3. [e EXCEPT !.says = x] = [minted |-> e.minted, says |-> x, warns |-> e.warns,
                          classes |-> e.classes, poms |-> e.poms, table |-> e.table]
  BY <1>1
<1>4. [e EXCEPT !.warns = x] = [minted |-> e.minted, says |-> e.says, warns |-> x,
                          classes |-> e.classes, poms |-> e.poms, table |-> e.table]
  BY <1>1
<1>5. [e EXCEPT !.classes = x] = [minted |-> e.minted, says |-> e.says, warns |-> e.warns,
                          classes |-> x, poms |-> e.poms, table |-> e.table]
  BY <1>1
<1>6. [e EXCEPT !.poms = x] = [minted |-> e.minted, says |-> e.says, warns |-> e.warns,
                          classes |-> e.classes, poms |-> x, table |-> e.table]
  BY <1>1
<1>7. [e EXCEPT !.table = x] = [minted |-> e.minted, says |-> e.says, warns |-> e.warns,
                          classes |-> e.classes, poms |-> e.poms, table |-> x]
  BY <1>1
<1> QED
  BY <1>2, <1>3, <1>4, <1>5, <1>6, <1>7

LEMMA MadeWork ==
  ASSUME NEW a, NEW b, NEW c, NEW d, NEW f, NEW g, NEW e,
         e = [minted |-> a, says |-> b, warns |-> c, classes |-> d, poms |-> f, table |-> g]
  PROVE  /\ IsWork(e)
         /\ e.minted = a /\ e.says = b /\ e.warns = c /\ e.classes = d /\ e.poms = f /\ e.table = g
BY DEF IsWork

LEMMA EmitIs ==
  ASSUME NEW e, IsWork(e), NEW says
  PROVE  Emit(e, says) = [minted |-> e.minted, says |-> e.says \o says, warns |-> e.warns,
                          classes |-> e.classes, poms |-> e.poms, table |-> e.table]
<1> DEFINE x == e.says \o says
<1>1. Emit(e, says) = [e EXCEPT !.says = x]
  BY DEF Emit
<1> HIDE DEF x
<1>2. [e EXCEPT !.says = x] = [minted |-> e.minted, says |-> x, warns |-> e.warns,
                               classes |-> e.classes, poms |-> e.poms, table |-> e.table]
  BY WorkChanged, ZenonT(60)
<1> QED
  BY <1>1, <1>2 DEF x

LEMMA MintIs ==
  ASSUME NEW e, IsWork(e), NEW says
  PROVE  Mint(e, says) = [minted |-> e.minted + 1, says |-> e.says \o says, warns |-> e.warns,
                          classes |-> e.classes, poms |-> e.poms, table |-> e.table]
<1> DEFINE y == Emit(e, says)
<1>1. y = [minted |-> e.minted, says |-> e.says \o says, warns |-> e.warns,
                          classes |-> e.classes, poms |-> e.poms, table |-> e.table]
  BY EmitIs
<1>2. Mint(e, says) = [y EXCEPT !.minted = y.minted + 1]
  BY DEF Mint
<1> HIDE DEF y
<1>3. /\ IsWork(y) /\ y.minted = e.minted /\ y.says = e.says \o says /\ y.warns = e.warns
      /\ y.classes = e.classes /\ y.poms = e.poms /\ y.table = e.table
  BY <1>1, MadeWork
<1>4. [y EXCEPT !.minted = y.minted + 1]
        = [minted |-> y.minted + 1, says |-> y.says, warns |-> y.warns,
                          classes |-> y.classes, poms |-> y.poms, table |-> y.table]
  BY <1>3, WorkChanged
<1> QED
  BY <1>2, <1>3, <1>4

LEMMA HandedOver ==
  ASSUME NEW e, IsWork(e)
  PROVE  [e EXCEPT !.says = << >>, !.warns = {}] = [minted |-> e.minted, says |-> << >>, warns |-> {},
                          classes |-> e.classes, poms |-> e.poms, table |-> e.table]
<1> DEFINE y == [e EXCEPT !.says = << >>]
<1> DEFINE none == << >>
<1>5. y = [e EXCEPT !.says = none]
  OBVIOUS
<1>1. y = [minted |-> e.minted, says |-> << >>, warns |-> e.warns,
                          classes |-> e.classes, poms |-> e.poms, table |-> e.table]
  <2> HIDE DEF y, none
  <2>1. [e EXCEPT !.says = none] = [minted |-> e.minted, says |-> none, warns |-> e.warns,
                                    classes |-> e.classes, poms |-> e.poms, table |-> e.table]
    BY WorkChanged, ZenonT(60)
  <2> QED
    BY <1>5, <2>1 DEF none
<1>2. [e EXCEPT !.says = << >>, !.warns = {}] = [y EXCEPT !.warns = {}]
  OBVIOUS
<1> HIDE DEF y
<1>3. /\ IsWork(y) /\ y.minted = e.minted /\ y.says = << >>
      /\ y.classes = e.classes /\ y.poms = e.poms /\ y.table = e.table
  BY <1>1, MadeWork
<1>4. [y EXCEPT !.warns = {}]
        = [minted |-> y.minted, says |-> y.says, warns |-> {},
                          classes |-> y.classes, poms |-> y.poms, table |-> y.table]
  BY <1>3, WorkChanged
<1> QED
  BY <1>2, <1>3, <1>4

(* Whatever leaves the statements and the number keeps what holds of them. *)
LEMMA SameSaid ==
  ASSUME NEW e, NEW m, Since(e, m), NEW x, Work(x), x.minted = e.minted, x.says = e.says
  PROVE  Since(x, m)
BY DEF Since

LEMMA WarnKeeps ==
  ASSUME NEW e, NEW m, Since(e, m), NEW what
  PROVE  Since(Warn(e, what), m) /\ Warn(e, what).minted = e.minted /\ Warn(e, what).says = e.says
         /\ Warn(e, what).classes = e.classes
<1>1. Work(e) /\ IsWork(e)
  BY DEF Since, Work
<1>2. Warn(e, what) = [minted |-> e.minted, says |-> e.says, warns |-> e.warns \cup {what},
                       classes |-> e.classes, poms |-> e.poms, table |-> e.table]
  BY <1>1, WorkChanged DEF Warn
<1>3. /\ Warn(e, what).minted = e.minted /\ Warn(e, what).says = e.says
      /\ Warn(e, what).classes = e.classes /\ Warn(e, what).poms = e.poms
  BY <1>2
<1>4. Work(Warn(e, what))
  BY <1>1, <1>2, <1>3 DEF Work, IsWork
<1> QED
  BY <1>3, <1>4, SameSaid

LEMMA ClassKeeps ==
  ASSUME NEW e, NEW m, Since(e, m), NEW class
  PROVE  Since([e EXCEPT !.classes = Append(@, class)], m)
<1> DEFINE x == [e EXCEPT !.classes = Append(@, class)]
<1>1. Work(e) /\ IsWork(e)
  BY DEF Since, Work
<1>2. x = [minted |-> e.minted, says |-> e.says, warns |-> e.warns,
           classes |-> Append(e.classes, class), poms |-> e.poms, table |-> e.table]
  BY <1>1, WorkChanged
<1>3. IsSequence(Append(e.classes, class))
  BY <1>1, Appended DEF Work, IsWork
<1> HIDE DEF x
<1>4. x.minted = e.minted /\ x.says = e.says /\ Work(x)
  BY <1>1, <1>2, <1>3 DEF Work, IsWork
<1>5. Since(x, m)
  BY <1>4, SameSaid
<1> QED
  BY <1>5 DEF x

LEMMA PomKeeps ==
  ASSUME NEW e, NEW m, Since(e, m), NEW pom
  PROVE  Since([e EXCEPT !.poms = Append(@, pom)], m)
<1> DEFINE x == [e EXCEPT !.poms = Append(@, pom)]
<1>1. Work(e) /\ IsWork(e)
  BY DEF Since, Work
<1>2. x = [minted |-> e.minted, says |-> e.says, warns |-> e.warns,
           classes |-> e.classes, poms |-> Append(e.poms, pom), table |-> e.table]
  BY <1>1, WorkChanged
<1>3. IsSequence(Append(e.poms, pom))
  BY <1>1, Appended DEF Work, IsWork
<1> HIDE DEF x
<1>4. x.minted = e.minted /\ x.says = e.says /\ Work(x)
  BY <1>1, <1>2, <1>3 DEF Work, IsWork
<1>5. Since(x, m)
  BY <1>4, SameSaid
<1> QED
  BY <1>5 DEF x

LEMMA TableKeeps ==
  ASSUME NEW e, NEW m, Since(e, m), NEW table
  PROVE  Since([e EXCEPT !.table = table], m)
<1> DEFINE x == [e EXCEPT !.table = table]
<1>1. Work(e) /\ IsWork(e)
  BY DEF Since, Work
<1>2. x = [minted |-> e.minted, says |-> e.says, warns |-> e.warns,
           classes |-> e.classes, poms |-> e.poms, table |-> table]
  BY <1>1, WorkChanged
<1> HIDE DEF x
<1>3. x.minted = e.minted /\ x.says = e.says /\ Work(x)
  BY <1>1, <1>2 DEF Work, IsWork
<1>4. Since(x, m)
  BY <1>3, SameSaid
<1> QED
  BY <1>4 DEF x

(* To say more, of a node that nothing has been said of.                   *)
NothingOf(says, node) == \A i \in DOMAIN says : says[i].p \notin Several => says[i].s # node

LEMMA OnceEachMore ==
  ASSUME NEW a, NEW b, IsSequence(a), NEW node, NEW ps, OnceEach(a), Describes(b, node, ps), NothingOf(a, node)
  PROVE  /\ IsSequence(a \o b) /\ OnceEach(a \o b)
         /\ \A k \in DOMAIN (a \o b) :
              \/ k \in DOMAIN a /\ (a \o b)[k] = a[k]
              \/ (a \o b)[k].p \notin Several => (a \o b)[k].s = node /\ (a \o b)[k].p \in ps
<1>1. IsSequence(b)
  BY DEF Describes
<1>2. /\ IsSequence(a \o b)
      /\ \A i \in DOMAIN a : i \in DOMAIN (a \o b) /\ (a \o b)[i] = a[i]
      /\ \A i \in DOMAIN b : Len(a) + i \in DOMAIN (a \o b) /\ (a \o b)[Len(a) + i] = b[i]
      /\ \A k \in DOMAIN (a \o b) : k \in DOMAIN a \/ \E i \in DOMAIN b : k = Len(a) + i
  BY <1>1, Concatenated
<1> DEFINE c == a \o b
<1>3. IsSequence(c) /\ \A k \in DOMAIN c : \/ k \in DOMAIN a /\ c[k] = a[k]
                                           \/ \E i \in DOMAIN b : k = Len(a) + i /\ c[k] = b[i]
  BY <1>2
<1> HIDE DEF c
<1>4. \A k \in DOMAIN c : \/ k \in DOMAIN a /\ c[k] = a[k]
                          \/ c[k].p \notin Several => c[k].s = node /\ c[k].p \in ps
  BY <1>3 DEF Describes
<1>5. ASSUME NEW k \in DOMAIN c, NEW l \in DOMAIN c, c[k].p \notin Several, c[k].s = c[l].s, c[k].p = c[l].p
      PROVE  k = l
  <2>1. CASE k \in DOMAIN a /\ c[k] = a[k] /\ l \in DOMAIN a /\ c[l] = a[l]
    BY <1>5, <2>1 DEF OnceEach
  <2>2. CASE \E i \in DOMAIN b : \E j \in DOMAIN b : k = Len(a) + i /\ c[k] = b[i] /\ l = Len(a) + j /\ c[l] = b[j]
    BY <1>5, <2>2 DEF Describes
  <2>3. CASE k \in DOMAIN a /\ c[k] = a[k] /\ \E j \in DOMAIN b : c[l] = b[j]
    BY <1>5, <2>3 DEF Describes, NothingOf
  <2>4. CASE l \in DOMAIN a /\ c[l] = a[l] /\ \E i \in DOMAIN b : c[k] = b[i]
    BY <1>5, <2>4 DEF Describes, NothingOf
  <2> QED
    BY <1>3, <2>1, <2>2, <2>3, <2>4
<1>6. OnceEach(c)
  BY <1>5 DEF OnceEach
<1> QED
  BY <1>3, <1>4, <1>6 DEF c

(* A node is minted and described.                                         *)
LEMMA MintKeeps ==
  ASSUME NamesApart, NEW e, NEW m \in Nat, Since(e, m), NEW says, NEW ps, Describes(says, BlankNode(e), ps)
  PROVE  Since(Mint(e, says), m) /\ Mint(e, says).minted = e.minted + 1
<1> DEFINE x == Mint(e, says)
           c == e.says \o says
<1>1. Work(e) /\ IsWork(e) /\ e.minted \in Nat /\ IsSequence(e.says) /\ m <= e.minted /\ OnceEach(e.says)
  BY DEF Since, Work
<1>2. NothingOf(e.says, BlankNode(e))
  <2>1. SUFFICES ASSUME NEW i \in DOMAIN e.says, e.says[i].p \notin Several, e.says[i].s = NodeName(e.minted)
                 PROVE  FALSE
    BY DEF BlankNode, NothingOf
  <2>2. PICK k \in m .. e.minted - 1 : e.says[i].s = NodeName(k)
    BY <2>1 DEF Since
  <2>3. k \in Nat /\ k # e.minted
    BY <1>1, <2>2
  <2> QED
    BY <1>1, <2>1, <2>2, <2>3 DEF NamesApart
<1>3. /\ IsSequence(c) /\ OnceEach(c)
      /\ \A k \in DOMAIN c : \/ k \in DOMAIN e.says /\ c[k] = e.says[k]
                             \/ c[k].p \notin Several => c[k].s = BlankNode(e) /\ c[k].p \in ps
  BY <1>1, <1>2, OnceEachMore, ZenonT(60)
<1>4. x = [minted |-> e.minted + 1, says |-> c, warns |-> e.warns,
           classes |-> e.classes, poms |-> e.poms, table |-> e.table]
  BY <1>1, MintIs
<1> HIDE DEF x, c
<1>5. Work(x) /\ x.minted = e.minted + 1 /\ x.says = c
  BY <1>1, <1>3, <1>4 DEF Work, IsWork
<1>6. ASSUME NEW i \in DOMAIN c, c[i].p \notin Several PROVE \E k \in m .. e.minted : c[i].s = NodeName(k)
  <2>1. CASE i \in DOMAIN e.says /\ c[i] = e.says[i]
    <3>1. PICK k \in m .. e.minted - 1 : e.says[i].s = NodeName(k)
      BY <1>6, <2>1 DEF Since
    <3>2. k \in m .. e.minted
      BY <1>1, <3>1
    <3> QED
      BY <2>1, <3>1, <3>2
  <2>2. CASE c[i].s = BlankNode(e)
    <3>1. e.minted \in m .. e.minted
      BY <1>1
    <3> QED
      BY <2>2, <3>1 DEF BlankNode
  <2> QED
    BY <1>3, <1>6, <2>1, <2>2
<1>7. m <= x.minted /\ m .. e.minted = m .. x.minted - 1
  BY <1>1, <1>5
<1>8. Since(x, m)
  BY <1>3, <1>5, <1>6, <1>7 DEF Since
<1> QED
  BY <1>5, <1>8 DEF x

-----------------------------------------------------------------------------
(* Values.                                                                 *)
Kinds == {"column", "template", "iri", "literal"}

LEMMA KindOfValue ==
  ASSUME NEW node, NEW allowIriSuffix, NEW literalsAllowed
  PROVE  ClassifyValue(node, allowIriSuffix, literalsAllowed).kind \in Kinds
BY DEF ClassifyValue, Kinds

LEMMA EmitValueKeeps ==
  ASSUME NamesApart, NEW e, NEW m \in Nat, Since(e, m), NEW spec, spec.kind \in Kinds, NEW extra
  PROVE  Since(EmitValue(e, spec, extra), m)
<1> DEFINE node == BlankNode(e)
           forced == SayIf(spec.forceIri, Say(node, "termType", "uri", "iri"))
           typed == SayIf(extra.dt # NoTag, Say(node, "datatype", "uri", extra.dt))
           said == SayIf(extra.lang # NoTag, Say(node, "language", "literal", extra.lang))
           tags == typed \o said
           resolved == ResolveIri(spec.text)
<1>1. Describes(<< Say(node, "constant", "uri", resolved) >>, node, {"constant"})
  BY OneDescribes
<1>2. Describes(<< Say(node, "constant", "literal", spec.text) >>, node, {"constant"})
  BY OneDescribes
<1>3. Describes(<< Say(node, spec.kind, "literal", spec.text) >>, node, {spec.kind})
  BY OneDescribes
<1>4. Describes(forced, node, {"termType"}) /\ Describes(typed, node, {"datatype"}) /\ Describes(said, node, {"language"})
  BY MayDescribe
<1> DEFINE iri == << Say(node, "constant", "uri", resolved) >>
           literal == << Say(node, "constant", "literal", spec.text) >>
           other == << Say(node, spec.kind, "literal", spec.text) >>
<1>5. EmitValue(e, spec, extra) =
        Mint(e, IF spec.kind = "iri" THEN iri
                ELSE IF spec.kind = "literal" THEN literal \o tags
                ELSE (other \o forced) \o tags)
  BY DEF EmitValue
<1> HIDE DEF node, forced, typed, said, iri, literal, other
<1>6. Describes(tags, node, {"datatype", "language"})
  BY <1>4, BothDescribe, {"datatype"} \cup {"language"} = {"datatype", "language"}, {"datatype"} \cap {"language"} = {}
<1> HIDE DEF tags
<1>7. Describes(literal \o tags, node, {"constant"} \cup {"datatype", "language"})
  BY <1>2, <1>6, BothDescribe, {"constant"} \cap {"datatype", "language"} = {} DEF literal
<1>8. CASE spec.kind \in {"column", "template"}
  <2>1. {spec.kind} \cap {"termType"} = {} /\ ({spec.kind} \cup {"termType"}) \cap {"datatype", "language"} = {}
    BY <1>8
  <2>2. Describes(other \o forced, node, {spec.kind} \cup {"termType"})
    BY <1>3, <1>4, <2>1, BothDescribe DEF other
  <2>3. Describes((other \o forced) \o tags, node, ({spec.kind} \cup {"termType"}) \cup {"datatype", "language"})
    BY <1>6, <2>1, <2>2, BothDescribe
  <2> QED
    BY <1>5, <1>8, <2>3, MintKeeps DEF node
<1>9. CASE spec.kind = "iri"
  BY <1>1, <1>5, <1>9, MintKeeps DEF node, iri
<1>10. CASE spec.kind = "literal"
  BY <1>5, <1>7, <1>10, MintKeeps DEF node
<1> QED
  BY <1>8, <1>9, <1>10 DEF Kinds

-----------------------------------------------------------------------------
(* References and their conditions.                                        *)
LEMMA ConditionDescribes ==
  ASSUME NEW a, NEW b, NEW c, NEW node,
         a.s = node, a.p = "child", b.s = node, b.p = "parent", c.p = "joinCondition"
  PROVE  Describes(<< a, b, c >>, node, {"child", "parent"})
<1>1. IsSequence(<< a, b, c >>) /\ DOMAIN << a, b, c >> = {1, 2, 3}
  BY DEF IsSequence
<1>2. << a, b, c >>[1] = a /\ << a, b, c >>[2] = b /\ << a, b, c >>[3] = c
  OBVIOUS
<1> DEFINE says == << a, b, c >>
<1> HIDE DEF says
<1>3. Describes(says, node, {"child", "parent"})
  BY <1>1, <1>2 DEF Describes, Several, says
<1> QED
  BY <1>3 DEF says

LEMMA EmitConditionKeeps ==
  ASSUME NamesApart, NEW e, NEW m \in Nat, Since(e, m), NEW c, NEW node
  PROVE  Since(EmitCondition(e, c, node), m)
<1> DEFINE jc == BlankNode(e)
           child == ColumnRef(Child(c, "parameters").of[1])
           parent == ColumnRef(Child(c, "parameters").of[2])
           says == << Say(jc, "child", "literal", child), Say(jc, "parent", "literal", parent),
                      Say(node, "joinCondition", "blank", jc) >>
<1>1. CASE c.y # "map"
  BY <1>1 DEF EmitCondition
<1>2. CASE c.y = "map" /\ ConditionFault(c) # "none"
  BY <1>2, WarnKeeps DEF EmitCondition
<1>3. CASE c.y = "map" /\ ConditionFault(c) = "none"
  <2>1. EmitCondition(e, c, node) = Mint(e, says)
    BY <1>3 DEF EmitCondition
  <2>2. Describes(says, jc, {"child", "parent"})
    <3> DEFINE a == Say(jc, "child", "literal", child)
               b == Say(jc, "parent", "literal", parent)
               d == Say(node, "joinCondition", "blank", jc)
    <3>1. a.s = jc /\ a.p = "child" /\ b.s = jc /\ b.p = "parent" /\ d.p = "joinCondition"
      BY DEF Say
    <3>2. says = << a, b, d >>
      OBVIOUS
    <3> HIDE DEF a, b, d, says
    <3> QED
      BY <3>1, <3>2, ConditionDescribes
  <2> HIDE DEF says
  <2> QED
    BY <2>1, <2>2, MintKeeps
<1> QED
  BY <1>1, <1>2, <1>3

(* The loop over conditions.                                               *)
ConditionsUpTo(start, conds, node, n, f) ==
  f = [k \in 0 .. n |-> IF k = 0 THEN start ELSE EmitCondition(f[k - 1], conds[k], node)]

LEMMA ConditionsUpToExists ==
  ASSUME NEW start, NEW conds, NEW node, NEW N \in Nat
  PROVE  \E f : ConditionsUpTo(start, conds, node, N, f)
<1> DEFINE G == { n \in 0 .. N : \E f : ConditionsUpTo(start, conds, node, n, f) }
<1>1. 0 \in G
  <2> DEFINE f == [k \in 0 .. 0 |-> start]
  <2>1. ConditionsUpTo(start, conds, node, 0, f)
    BY DEF ConditionsUpTo
  <2> QED
    BY <2>1
<1>2. ASSUME NEW n \in 0 .. N - 1, n \in G PROVE n + 1 \in G
  <2>1. PICK f : ConditionsUpTo(start, conds, node, n, f)
    BY <1>2
  <2> DEFINE g == [k \in 0 .. n + 1 |-> IF k = 0 THEN start ELSE EmitCondition(f[k - 1], conds[k], node)]
  <2>2. ASSUME NEW k \in 0 .. n PROVE g[k] = f[k]
    BY <2>1 DEF ConditionsUpTo
  <2>3. ASSUME NEW k \in 0 .. n + 1
        PROVE  g[k] = IF k = 0 THEN start ELSE EmitCondition(g[k - 1], conds[k], node)
    <3>1. k # 0 => k - 1 \in 0 .. n
      OBVIOUS
    <3> QED
      BY <2>2, <3>1
  <2>4. g = [k \in 0 .. n + 1 |-> g[k]]
    OBVIOUS
  <2> HIDE DEF g
  <2>5. ConditionsUpTo(start, conds, node, n + 1, g)
    BY <2>3, <2>4 DEF ConditionsUpTo
  <2> QED
    BY <2>5
<1> HIDE DEF G
<1>3. \A n \in 0 .. N : n \in G
  BY <1>1, <1>2, Upwards
<1> QED
  BY <1>3 DEF G

ConditionsFrom(start, conds, node) == CHOOSE f : ConditionsUpTo(start, conds, node, Len(conds), f)

LEMMA EmitReferenceKeeps ==
  ASSUME NamesApart, NEW e, NEW m \in Nat, Since(e, m), NEW obj, Node(obj)
  PROVE  Since(EmitReference(e, obj), m)
<1> DEFINE node == BlankNode(e)
           conds == Conditions(obj)
           says == << Say(node, "parentTriplesMap", "uri", Name(Child(obj, "mapping"))) >>
           start == Mint(e, says)
           f == ConditionsFrom(start, conds, node)
<1>1. EmitReference(e, obj) = f[Len(conds)]
  BY DEF EmitReference, Loop, ConditionsFrom, ConditionsUpTo
<1>2. PICK N \in Nat : N = Len(conds)
  BY ConditionsAreList, SequenceFacts DEF NodeList
<1>3. Since(start, m)
  BY OneDescribes, MintKeeps
<1> HIDE DEF node, conds, says, start
<1>4. ConditionsUpTo(start, conds, node, N, f)
  BY <1>2, ConditionsUpToExists DEF ConditionsFrom
<1> HIDE DEF f
<1> DEFINE G == { k \in 0 .. N : Since(f[k], m) }
<1>5. 0 \in G
  BY <1>2, <1>3, <1>4 DEF ConditionsUpTo
<1>6. ASSUME NEW n \in 0 .. N - 1, n \in G PROVE n + 1 \in G
  <2>1. n + 1 \in 0 .. N /\ n + 1 # 0 /\ (n + 1) - 1 = n
    BY <1>2
  <2>2. f[n + 1] = EmitCondition(f[n], conds[n + 1], node)
    BY <1>4, <2>1 DEF ConditionsUpTo
  <2>3. Since(EmitCondition(f[n], conds[n + 1], node), m)
    BY <1>6, EmitConditionKeeps
  <2> QED
    BY <2>1, <2>2, <2>3
<1> HIDE DEF G
<1>7. N \in G
  BY <1>2, <1>5, <1>6, Upwards
<1> QED
  BY <1>1, <1>2, <1>7 DEF G

-----------------------------------------------------------------------------
(* Objects, and pairs of a predicate and an object.                        *)
LEMMA EmitObjectKeeps ==
  ASSUME NamesApart, NEW e, NEW m \in Nat, Since(e, m), NEW obj, Node(obj), NEW extra
  PROVE  Since(EmitObject(e, obj, extra), m)
<1> DEFINE spec == ClassifyValue(ScalarOf(obj), TRUE, TRUE)
           tags == Override(extra, TagsOf(obj))
<1>1. Since(Warn(e, ObjectKind(obj)), m)
  BY WarnKeeps
<1>2. Since(EmitReference(e, obj), m)
  BY EmitReferenceKeeps
<1>3. spec.kind \in Kinds
  BY KindOfValue
<1>4. EmitObject(e, obj, extra) \in {Warn(e, ObjectKind(obj)), EmitReference(e, obj), EmitValue(e, spec, tags)}
  BY DEF EmitObject
<1> HIDE DEF spec, tags
<1>5. Since(EmitValue(e, spec, tags), m)
  BY <1>3, EmitValueKeeps
<1> QED
  BY <1>1, <1>2, <1>4, <1>5

LEMMA PairDescribes ==
  ASSUME NEW a, NEW b, NEW node,
         a.s = node, a.p \in {"predicate", "predicateMap"}, b.s = node, b.p = "objectMap"
  PROVE  Describes(<< a, b >>, node, {"predicate", "predicateMap", "objectMap"})
<1>1. IsSequence(<< a, b >>) /\ DOMAIN << a, b >> = {1, 2}
  BY DEF IsSequence
<1>2. << a, b >>[1] = a /\ << a, b >>[2] = b
  OBVIOUS
<1> DEFINE says == << a, b >>
<1> HIDE DEF says
<1>3. Describes(says, node, {"predicate", "predicateMap", "objectMap"})
  BY <1>1, <1>2 DEF Describes, Several, says
<1> QED
  BY <1>3 DEF says

LEMMA EmitPairKeeps ==
  ASSUME NamesApart, NEW e, NEW m \in Nat, Since(e, m), NEW pred, NEW predNode, NEW obj, Node(obj), NEW extra
  PROVE  Since(EmitPair(e, pred, predNode, obj, extra), m)
<1> DEFINE spec == PredicateSpec(pred)
           done == EmitObject(e, obj, extra)
           pom  == BlankNode(done)
           link == IF spec.kind = "iri" THEN Say(pom, "predicate", "uri", spec.text)
                   ELSE Say(pom, "predicateMap", "blank", predNode)
           object == Say(pom, "objectMap", "blank", BlankNode(e))
           class == ResolveIri(ClassifyValue(obj, FALSE, FALSE).text)
           both == Mint(done, << link, object >>)
<1>1. Since(done, m)
  BY EmitObjectKeeps
<1>2. /\ link.s = pom /\ link.p \in {"predicate", "predicateMap"} /\ object.s = pom /\ object.p = "objectMap"
  BY DEF Say
<1>3. EmitPair(e, pred, predNode, obj, extra) \in
        { [e EXCEPT !.classes = Append(@, class)], done, [both EXCEPT !.poms = Append(@, pom)] }
  BY DEF EmitPair
<1>4. Since([e EXCEPT !.classes = Append(@, class)], m)
  BY ClassKeeps
<1> HIDE DEF spec, done, link, object, class
<1>5. Describes(<< link, object >>, pom, {"predicate", "predicateMap", "objectMap"})
  BY <1>2, PairDescribes
<1>6. Since(both, m)
  BY <1>1, <1>5, MintKeeps
<1> HIDE DEF both, pom
<1>7. Since([both EXCEPT !.poms = Append(@, pom)], m)
  BY <1>6, PomKeeps
<1> QED
  BY <1>1, <1>3, <1>4, <1>7

(* The loop over the objects of a predicate.                               *)
ObjectsUpTo(start, objs, pred, node, extra, n, f) ==
  f = [k \in 0 .. n |-> IF k = 0 THEN start ELSE EmitPair(f[k - 1], pred, node, objs[k], extra)]

LEMMA ObjectsUpToExists ==
  ASSUME NEW start, NEW objs, NEW pred, NEW node, NEW extra, NEW N \in Nat
  PROVE  \E f : ObjectsUpTo(start, objs, pred, node, extra, N, f)
<1> DEFINE G == { n \in 0 .. N : \E f : ObjectsUpTo(start, objs, pred, node, extra, n, f) }
<1>1. 0 \in G
  <2> DEFINE f == [k \in 0 .. 0 |-> start]
  <2>1. ObjectsUpTo(start, objs, pred, node, extra, 0, f)
    BY DEF ObjectsUpTo
  <2> QED
    BY <2>1
<1>2. ASSUME NEW n \in 0 .. N - 1, n \in G PROVE n + 1 \in G
  <2>1. PICK f : ObjectsUpTo(start, objs, pred, node, extra, n, f)
    BY <1>2
  <2> DEFINE g == [k \in 0 .. n + 1 |-> IF k = 0 THEN start ELSE EmitPair(f[k - 1], pred, node, objs[k], extra)]
  <2>2. ASSUME NEW k \in 0 .. n PROVE g[k] = f[k]
    BY <2>1 DEF ObjectsUpTo
  <2>3. ASSUME NEW k \in 0 .. n + 1
        PROVE  g[k] = IF k = 0 THEN start ELSE EmitPair(g[k - 1], pred, node, objs[k], extra)
    <3>1. k # 0 => k - 1 \in 0 .. n
      OBVIOUS
    <3> QED
      BY <2>2, <3>1
  <2>4. g = [k \in 0 .. n + 1 |-> g[k]]
    OBVIOUS
  <2> HIDE DEF g
  <2>5. ObjectsUpTo(start, objs, pred, node, extra, n + 1, g)
    BY <2>3, <2>4 DEF ObjectsUpTo
  <2> QED
    BY <2>5
<1> HIDE DEF G
<1>3. \A n \in 0 .. N : n \in G
  BY <1>1, <1>2, Upwards
<1> QED
  BY <1>3 DEF G

ObjectsFrom(start, objs, pred, node, extra) ==
  CHOOSE f : ObjectsUpTo(start, objs, pred, node, extra, Len(objs), f)

LEMMA EmitPredicateKeeps ==
  ASSUME NamesApart, NEW e, NEW m \in Nat, Since(e, m), NEW pred, NEW objs, NodeList(objs), NEW extra
  PROVE  Since(EmitPredicate(e, pred, objs, extra), m)
<1> DEFINE spec  == PredicateSpec(pred)
           node  == BlankNode(e)
           says  == << Say(node, spec.kind, "literal", spec.text) >>
           start == IF spec.kind = "iri" THEN e ELSE Mint(e, says)
           f     == ObjectsFrom(start, objs, pred, node, extra)
<1>1. EmitPredicate(e, pred, objs, extra) = f[Len(objs)]
  BY DEF EmitPredicate, Loop, ObjectsFrom, ObjectsUpTo
<1>2. /\ IsSequence(objs) /\ \A i \in DOMAIN objs : Node(objs[i])
      /\ Len(objs) \in Nat /\ DOMAIN objs = 1 .. Len(objs)
  BY SequenceFacts DEF NodeList
<1>3. PICK N \in Nat : N = Len(objs)
  BY <1>2
<1>4. Since(start, m)
  <2>1. Describes(says, node, {spec.kind})
    BY OneDescribes
  <2>2. Since(Mint(e, says), m)
    BY <2>1, MintKeeps
  <2> QED
    BY <2>2
<1> HIDE DEF spec, node, says, start
<1>5. ObjectsUpTo(start, objs, pred, node, extra, N, f)
  BY <1>3, ObjectsUpToExists DEF ObjectsFrom
<1> HIDE DEF f
<1> DEFINE G == { k \in 0 .. N : Since(f[k], m) }
<1>6. 0 \in G
  BY <1>3, <1>4, <1>5 DEF ObjectsUpTo
<1>7. ASSUME NEW n \in 0 .. N - 1, n \in G PROVE n + 1 \in G
  <2>1. n + 1 \in 0 .. N /\ n + 1 # 0 /\ (n + 1) - 1 = n /\ n + 1 \in 1 .. N
    BY <1>3
  <2>2. f[n + 1] = EmitPair(f[n], pred, node, objs[n + 1], extra)
    BY <1>5, <2>1 DEF ObjectsUpTo
  <2>3. Node(objs[n + 1])
    BY <1>2, <1>3, <2>1
  <2>4. Since(EmitPair(f[n], pred, node, objs[n + 1], extra), m)
    BY <1>7, <2>3, EmitPairKeeps
  <2> QED
    BY <2>1, <2>2, <2>4
<1> HIDE DEF G
<1>8. N \in G
  BY <1>3, <1>6, <1>7, Upwards
<1> QED
  BY <1>1, <1>3, <1>8 DEF G

(* The loop over the predicates of an entry.                               *)
PredicatesUpTo(start, preds, objs, extra, n, f) ==
  f = [k \in 0 .. n |-> IF k = 0 THEN start ELSE EmitPredicate(f[k - 1], preds[k], objs, extra)]

LEMMA PredicatesUpToExists ==
  ASSUME NEW start, NEW preds, NEW objs, NEW extra, NEW N \in Nat
  PROVE  \E f : PredicatesUpTo(start, preds, objs, extra, N, f)
<1> DEFINE G == { n \in 0 .. N : \E f : PredicatesUpTo(start, preds, objs, extra, n, f) }
<1>1. 0 \in G
  <2> DEFINE f == [k \in 0 .. 0 |-> start]
  <2>1. PredicatesUpTo(start, preds, objs, extra, 0, f)
    BY DEF PredicatesUpTo
  <2> QED
    BY <2>1
<1>2. ASSUME NEW n \in 0 .. N - 1, n \in G PROVE n + 1 \in G
  <2>1. PICK f : PredicatesUpTo(start, preds, objs, extra, n, f)
    BY <1>2
  <2> DEFINE g == [k \in 0 .. n + 1 |-> IF k = 0 THEN start ELSE EmitPredicate(f[k - 1], preds[k], objs, extra)]
  <2>2. ASSUME NEW k \in 0 .. n PROVE g[k] = f[k]
    BY <2>1 DEF PredicatesUpTo
  <2>3. ASSUME NEW k \in 0 .. n + 1
        PROVE  g[k] = IF k = 0 THEN start ELSE EmitPredicate(g[k - 1], preds[k], objs, extra)
    <3>1. k # 0 => k - 1 \in 0 .. n
      OBVIOUS
    <3> QED
      BY <2>2, <3>1
  <2>4. g = [k \in 0 .. n + 1 |-> g[k]]
    OBVIOUS
  <2> HIDE DEF g
  <2>5. PredicatesUpTo(start, preds, objs, extra, n + 1, g)
    BY <2>3, <2>4 DEF PredicatesUpTo
  <2> QED
    BY <2>5
<1> HIDE DEF G
<1>3. \A n \in 0 .. N : n \in G
  BY <1>1, <1>2, Upwards
<1> QED
  BY <1>3 DEF G

PredicatesFrom(start, preds, objs, extra) ==
  CHOOSE f : PredicatesUpTo(start, preds, objs, extra, Len(preds), f)

LEMMA EmitEntryKeeps ==
  ASSUME NamesApart, NEW e, NEW m \in Nat, Since(e, m), NEW item, Node(item)
  PROVE  Since(EmitEntry(e, item), m)
<1> DEFINE preds == PredicatesOf(item)
           objs  == ObjectsOf(item)
           extra == ExtraOfEntry(item)
           f     == PredicatesFrom(e, preds, objs, extra)
<1>1. EmitEntry(e, item) =
        IF EntryFault(item) # "none" THEN Warn(e, EntryFault(item))
        ELSE IF preds = << >> \/ objs = << >> THEN Warn(e, "empty entry") ELSE f[Len(preds)]
  BY DEF EmitEntry, Loop, PredicatesFrom, PredicatesUpTo
<1>2. Since(Warn(e, EntryFault(item)), m) /\ Since(Warn(e, "empty entry"), m)
  BY WarnKeeps
<1> HIDE DEF f
<1>3. ASSUME EntryFault(item) = "none" PROVE Since(f[Len(preds)], m)
  <2>1. IsSequence(preds) /\ NodeList(objs)
    BY <1>3, PredicatesAreSequence, ObjectsAreList
  <2> HIDE DEF preds, objs, extra
  <2>2. PICK N \in Nat : N = Len(preds)
    BY <2>1, SequenceFacts
  <2>3. PredicatesUpTo(e, preds, objs, extra, N, f)
    BY <2>2, PredicatesUpToExists DEF PredicatesFrom, f
  <2> DEFINE G == { k \in 0 .. N : Since(f[k], m) }
  <2>4. 0 \in G
    BY <2>2, <2>3 DEF PredicatesUpTo
  <2>5. ASSUME NEW n \in 0 .. N - 1, n \in G PROVE n + 1 \in G
    <3>1. n + 1 \in 0 .. N /\ n + 1 # 0 /\ (n + 1) - 1 = n
      BY <2>2
    <3>2. f[n + 1] = EmitPredicate(f[n], preds[n + 1], objs, extra)
      BY <2>3, <3>1 DEF PredicatesUpTo
    <3>3. Since(EmitPredicate(f[n], preds[n + 1], objs, extra), m)
      BY <2>1, <2>5, EmitPredicateKeeps
    <3> QED
      BY <3>1, <3>2, <3>3
  <2> HIDE DEF G
  <2>6. N \in G
    BY <2>2, <2>4, <2>5, Upwards
  <2> QED
    BY <2>2, <2>6 DEF G
<1> QED
  BY <1>1, <1>2, <1>3

-----------------------------------------------------------------------------
(* The logical table and the subject map.                                  *)
LEMMA EmitLogicalTableKeeps ==
  ASSUME NamesApart, NEW e, NEW m \in Nat, Since(e, m), NEW map
  PROVE  Since(EmitLogicalTable(e, map), m)
<1> DEFINE many == WarnIf(Len(SourcesOf(map)) > 1, e, "several sources")
           keys == SelectSeq(TableProperties, LAMBDA k : IsScalar(Child(SourceOf(map), k[1])))
           node == BlankNode(e)
           text == Name(Child(SourceOf(map), keys[1][1]))
           says == << Say(node, keys[1][2], "literal", text) >>
           done == Mint(many, says)
<1>1. Since(many, m) /\ many.minted = e.minted
  <2>1. many \in {e, Warn(e, "several sources")}
    BY DEF WarnIf
  <2>2. Since(Warn(e, "several sources"), m) /\ Warn(e, "several sources").minted = e.minted
    BY WarnKeeps
  <2> HIDE DEF many
  <2> QED
    BY <2>1, <2>2
<1>2. EmitLogicalTable(e, map) = IF keys = << >> THEN Warn(many, "no source") ELSE [done EXCEPT !.table = node]
  BY DEF EmitLogicalTable
<1>3. Describes(says, node, {keys[1][2]})
  BY OneDescribes
<1>4. BlankNode(many) = node
  BY <1>1 DEF BlankNode
<1> HIDE DEF many, keys, says, node
<1>5. Since(Warn(many, "no source"), m)
  BY <1>1, WarnKeeps
<1>6. Since(done, m)
  BY <1>1, <1>3, <1>4, MintKeeps
<1> HIDE DEF done
<1>7. Since([done EXCEPT !.table = node], m)
  BY <1>6, TableKeeps
<1> QED
  BY <1>2, <1>5, <1>7

LEMMA EmitSubjectMapKeeps ==
  ASSUME NamesApart, NEW e, NEW m \in Nat, Since(e, m), NEW map
  PROVE  Since(EmitSubjectMap(e, map), m)
<1> DEFINE many  == WarnIf(Len(SubjectsOf(map)) > 1, e, "several subjects")
           seen  == WarnIf(SubjectsOf(map) # << >> /\ ~HasSubject(map), many, "no subject")
           node  == SubjectMapNode(e, map)
           spec  == ClassifyValue(SubjectsOf(map)[1], FALSE, FALSE)
           iri   == << Say(node, "constant", "uri", ResolveIri(spec.text)) >>
           other == << Say(node, spec.kind, "literal", spec.text) >>
           value == IF ~HasSubject(map) THEN << >> ELSE IF spec.kind = "iri" THEN iri ELSE other
           classes == [i \in DOMAIN e.classes |-> Say(node, "class", "uri", e.classes[i])]
           ps == {"constant", spec.kind}
<1>1. Since(many, m) /\ many.minted = e.minted
  <2>1. many \in {e, Warn(e, "several subjects")}
    BY DEF WarnIf
  <2>2. Since(Warn(e, "several subjects"), m) /\ Warn(e, "several subjects").minted = e.minted
    BY WarnKeeps
  <2> HIDE DEF many
  <2> QED
    BY <2>1, <2>2
<1>2. Since(seen, m) /\ seen.minted = e.minted
  <2>1. seen \in {many, Warn(many, "no subject")}
    BY DEF WarnIf
  <2> HIDE DEF seen, many
  <2>2. Since(Warn(many, "no subject"), m) /\ Warn(many, "no subject").minted = many.minted
    BY <1>1, WarnKeeps
  <2> QED
    BY <1>1, <2>1, <2>2
<1>3. EmitSubjectMap(e, map) = IF node = "" THEN seen ELSE Mint(seen, value \o classes)
  BY DEF EmitSubjectMap
<1>4. node = "" \/ node = BlankNode(seen)
  BY <1>2 DEF SubjectMapNode, BlankNode
<1>5. Describes(value, node, ps)
  <2>1. Describes(iri, node, {"constant"}) /\ Describes(other, node, {spec.kind}) /\ Describes(<< >>, node, ps)
    BY OneDescribes, NoneDescribes
  <2> HIDE DEF iri, other, node, spec
  <2>2. Describes(iri, node, ps) /\ Describes(other, node, ps)
    BY <2>1, WiderDescribes, {"constant"} \subseteq ps, {spec.kind} \subseteq ps
  <2> QED
    BY <2>1, <2>2
<1>6. Describes(classes, node, {})
  <2>1. IsSequence(e.classes)
    BY DEF Since, Work
  <2>2. DOMAIN classes = DOMAIN e.classes /\ classes = [i \in DOMAIN classes |-> classes[i]]
    OBVIOUS
  <2>3. \A i \in DOMAIN classes : classes[i].p \in Several
    BY DEF Say, Several
  <2> HIDE DEF classes
  <2> QED
    BY <2>1, <2>2, <2>3, SeveralDescribe
<1> HIDE DEF many, seen, node, value, classes, ps
<1>7. Describes(value \o classes, node, ps \cup {})
  BY <1>5, <1>6, BothDescribe, ps \cap {} = {}
<1>8. node # "" => Since(Mint(seen, value \o classes), m)
  BY <1>2, <1>4, <1>7, MintKeeps
<1> QED
  BY <1>2, <1>3, <1>8

-----------------------------------------------------------------------------
(* What is said is stored, one statement after the other.                  *)
Single(ts) == \A key \in DOMAIN ts : key[2] \notin Several => Len(ts[key]) = 1

KeyOf(say) == << say.s, say.p >>

(* The keys are old ones or those of the first n statements.               *)
KeysFrom(ts, old, says, n) ==
  \A key \in DOMAIN ts :
    key[2] \notin Several => key \in DOMAIN old \/ \E i \in 1 .. n : key = KeyOf(says[i])

LEMMA StoredIs ==
  ASSUME NEW ts, NEW say
  PROVE  /\ DOMAIN Stored(ts, say) = DOMAIN ts \cup {KeyOf(say)}
         /\ \A key \in DOMAIN ts : key # KeyOf(say) => Stored(ts, say)[key] = ts[key]
         /\ KeyOf(say) \notin DOMAIN ts => Stored(ts, say)[KeyOf(say)] = << say.o >>
BY DEF Stored, KeyOf

LEMMA StoredSingle ==
  ASSUME NEW ts, Single(ts), NEW old, NEW says, NEW n \in Nat, NEW N \in Nat, n + 1 <= N,
         KeysFrom(ts, old, says, n), DOMAIN says = 1 .. N, OnceEach(says),
         says[n + 1].p \notin Several => KeyOf(says[n + 1]) \notin DOMAIN old
  PROVE  /\ Single(Stored(ts, says[n + 1]))
         /\ KeysFrom(Stored(ts, says[n + 1]), old, says, n + 1)
<1> DEFINE say == says[n + 1]
           new == Stored(ts, say)
<1>1. KeyOf(say)[2] = say.p /\ n + 1 \in DOMAIN says
  BY DEF KeyOf
<1>2. ASSUME say.p \notin Several PROVE KeyOf(say) \notin DOMAIN ts
  <2>1. SUFFICES ASSUME KeyOf(say) \in DOMAIN ts PROVE FALSE
    OBVIOUS
  <2>2. PICK i \in 1 .. n : KeyOf(say) = KeyOf(says[i])
    BY <1>1, <1>2, <2>1 DEF KeysFrom
  <2>3. i \in DOMAIN says /\ i # n + 1
    OBVIOUS
  <2>4. says[i].s = say.s /\ says[i].p = say.p
    BY <2>2 DEF KeyOf
  <2> QED
    BY <1>1, <1>2, <2>3, <2>4 DEF OnceEach
<1> HIDE DEF say
<1>3. /\ DOMAIN new = DOMAIN ts \cup {KeyOf(say)}
      /\ \A key \in DOMAIN ts : key # KeyOf(say) => new[key] = ts[key]
      /\ KeyOf(say) \notin DOMAIN ts => new[KeyOf(say)] = << say.o >>
  BY StoredIs
<1> HIDE DEF new
<1>4. ASSUME NEW key \in DOMAIN new, key[2] \notin Several PROVE Len(new[key]) = 1
  <2>1. CASE key = KeyOf(say)
    <3>1. new[key] = << say.o >>
      BY <1>1, <1>2, <1>3, <1>4, <2>1
    <3> QED
      BY <3>1, Short
  <2>2. CASE key # KeyOf(say)
    BY <1>3, <1>4, <2>2 DEF Single
  <2> QED
    BY <2>1, <2>2
<1>5. ASSUME NEW key \in DOMAIN new, key[2] \notin Several
      PROVE  key \in DOMAIN old \/ \E i \in 1 .. n + 1 : key = KeyOf(says[i])
  <2>1. CASE key = KeyOf(say)
    <3>1. n + 1 \in 1 .. n + 1 /\ key = KeyOf(says[n + 1])
      BY <2>1 DEF say
    <3> QED
      BY <3>1
  <2>2. CASE key # KeyOf(say)
    <3>1. key \in DOMAIN old \/ \E i \in 1 .. n : key = KeyOf(says[i])
      BY <1>3, <1>5, <2>2 DEF KeysFrom
    <3>2. \A i \in 1 .. n : i \in 1 .. n + 1
      OBVIOUS
    <3> QED
      BY <3>1, <3>2
  <2> QED
    BY <2>1, <2>2
<1>6. Single(new) /\ KeysFrom(new, old, says, n + 1)
  BY <1>4, <1>5 DEF Single, KeysFrom
<1> QED
  BY <1>6 DEF new, say

(* The loop over statements.                                               *)
StoredUpTo(start, says, n, f) ==
  f = [k \in 0 .. n |-> IF k = 0 THEN start ELSE Stored(f[k - 1], says[k])]

LEMMA StoredUpToExists ==
  ASSUME NEW start, NEW says, NEW N \in Nat
  PROVE  \E f : StoredUpTo(start, says, N, f)
<1> DEFINE G == { n \in 0 .. N : \E f : StoredUpTo(start, says, n, f) }
<1>1. 0 \in G
  <2> DEFINE f == [k \in 0 .. 0 |-> start]
  <2>1. StoredUpTo(start, says, 0, f)
    BY DEF StoredUpTo
  <2> QED
    BY <2>1
<1>2. ASSUME NEW n \in 0 .. N - 1, n \in G PROVE n + 1 \in G
  <2>1. PICK f : StoredUpTo(start, says, n, f)
    BY <1>2
  <2> DEFINE g == [k \in 0 .. n + 1 |-> IF k = 0 THEN start ELSE Stored(f[k - 1], says[k])]
  <2>2. ASSUME NEW k \in 0 .. n PROVE g[k] = f[k]
    BY <2>1 DEF StoredUpTo
  <2>3. ASSUME NEW k \in 0 .. n + 1
        PROVE  g[k] = IF k = 0 THEN start ELSE Stored(g[k - 1], says[k])
    <3>1. k # 0 => k - 1 \in 0 .. n
      OBVIOUS
    <3> QED
      BY <2>2, <3>1
  <2>4. g = [k \in 0 .. n + 1 |-> g[k]]
    OBVIOUS
  <2> HIDE DEF g
  <2>5. StoredUpTo(start, says, n + 1, g)
    BY <2>3, <2>4 DEF StoredUpTo
  <2> QED
    BY <2>5
<1> HIDE DEF G
<1>3. \A n \in 0 .. N : n \in G
  BY <1>1, <1>2, Upwards
<1> QED
  BY <1>3 DEF G

StoredFrom(start, says) == CHOOSE f : StoredUpTo(start, says, Len(says), f)

LEMMA CollectedSingle ==
  ASSUME NEW says, IsSequence(says), OnceEach(says), Single(triples),
         \A i \in DOMAIN says : says[i].p \notin Several => KeyOf(says[i]) \notin DOMAIN triples
  PROVE  /\ Single(Collected(says))
         /\ \A key \in DOMAIN Collected(says) :
              key[2] \notin Several => key \in DOMAIN triples \/ \E i \in DOMAIN says : key = KeyOf(says[i])
<1> DEFINE f == StoredFrom(triples, says)
<1>1. Collected(says) = f[Len(says)]
  BY DEF Collected, Loop, StoredFrom, StoredUpTo
<1>2. PICK N \in Nat : N = Len(says)
  BY SequenceFacts
<1>3. DOMAIN says = 1 .. N
  BY <1>2, SequenceFacts
<1>4. StoredUpTo(triples, says, N, f)
  BY <1>2, StoredUpToExists DEF StoredFrom
<1> HIDE DEF f
<1> DEFINE G == { k \in 0 .. N : Single(f[k]) /\ KeysFrom(f[k], triples, says, k) }
<1>5. 0 \in G
  <2>1. f[0] = triples /\ 0 \in 0 .. N
    BY <1>2, <1>4 DEF StoredUpTo
  <2>2. KeysFrom(triples, triples, says, 0)
    BY DEF KeysFrom
  <2> QED
    BY <2>1, <2>2
<1>6. ASSUME NEW n \in 0 .. N - 1, n \in G PROVE n + 1 \in G
  <2>1. n + 1 \in 0 .. N /\ n + 1 # 0 /\ (n + 1) - 1 = n /\ n \in Nat /\ n + 1 <= N /\ n + 1 \in DOMAIN says
    BY <1>2, <1>3
  <2>2. f[n + 1] = Stored(f[n], says[n + 1])
    BY <1>4, <2>1 DEF StoredUpTo
  <2>3. Single(f[n]) /\ KeysFrom(f[n], triples, says, n)
    BY <1>6
  <2>4. says[n + 1].p \notin Several => KeyOf(says[n + 1]) \notin DOMAIN triples
    BY <2>1
  <2>5. Single(Stored(f[n], says[n + 1])) /\ KeysFrom(Stored(f[n], says[n + 1]), triples, says, n + 1)
    BY <1>3, <2>1, <2>3, <2>4, StoredSingle
  <2> QED
    BY <2>1, <2>2, <2>5
<1>7. N \in G
  <2> HIDE DEF G
  <2>1. \A n \in 0 .. N - 1 : n \in G => n + 1 \in G
    BY <1>6
  <2>2. \A n \in 0 .. N : n \in G
    BY <1>2, <1>5, <2>1, Upwards
  <2> QED
    BY <1>2, <2>2
<1>8. Single(f[N]) /\ KeysFrom(f[N], triples, says, N)
  BY <1>7
<1> QED
  BY <1>1, <1>2, <1>3, <1>8 DEF KeysFrom

(* Of the properties that have one value, those stored are of nodes that   *)
(* are minted already and of mappings whose turn is over.                  *)
Kept(ts, order, m, t) ==
  \A key \in DOMAIN ts :
    key[2] \notin Several =>
      \/ \E k \in 0 .. m - 1 : key[1] = NodeName(k)
      \/ \E u \in DOMAIN order : u < t /\ key[1] = order[u]

(* What is said next is of nodes minted since and of mappings whose turn   *)
(* it is since then.                                                       *)
NewSubjects(says, order, m, n, t, u) ==
  \A i \in DOMAIN says :
    says[i].p \notin Several =>
      \/ \E k \in m .. n - 1 : says[i].s = NodeName(k)
      \/ \E v \in DOMAIN order : t <= v /\ v < u /\ says[i].s = order[v]

LEMMA CollectedKept ==
  ASSUME NamesApart, NEW d \in Documents, NEW m \in Nat, NEW n \in Nat, NEW t \in Nat, NEW u \in Nat,
         m <= n, t <= u, Single(triples), Kept(triples, d.order, m, t),
         NEW says, IsSequence(says), OnceEach(says), NewSubjects(says, d.order, m, n, t, u)
  PROVE  Single(Collected(says)) /\ Kept(Collected(says), d.order, n, u)
<1>1. DOMAIN d.order \subseteq Nat /\ \A v, w \in DOMAIN d.order : d.order[v] = d.order[w] => v = w
  BY DocumentFacts, SequenceFacts
<1>2. \A k, l \in Nat : NodeName(k) = NodeName(l) => k = l
  BY DEF NamesApart
<1>3. \A k \in Nat : \A v \in DOMAIN d.order : NodeName(k) # d.order[v]
  BY DEF NamesApart
<1>4. ASSUME NEW i \in DOMAIN says, says[i].p \notin Several, KeyOf(says[i]) \in DOMAIN triples PROVE FALSE
  <2>1. \/ \E k \in 0 .. m - 1 : says[i].s = NodeName(k)
        \/ \E v \in DOMAIN d.order : v < t /\ says[i].s = d.order[v]
    <3>1. KeyOf(says[i])[1] = says[i].s /\ KeyOf(says[i])[2] = says[i].p
      BY DEF KeyOf
    <3> QED
      BY <1>4, <3>1 DEF Kept
  <2>2. \/ \E k \in m .. n - 1 : says[i].s = NodeName(k)
        \/ \E v \in DOMAIN d.order : t <= v /\ v < u /\ says[i].s = d.order[v]
    BY <1>4 DEF NewSubjects
  <2>3. CASE \E k \in 0 .. m - 1 : says[i].s = NodeName(k)
    <3>1. PICK k \in 0 .. m - 1 : says[i].s = NodeName(k)
      BY <2>3
    <3>2. k \in Nat /\ \A l \in m .. n - 1 : l \in Nat /\ k # l
      OBVIOUS
    <3>3. \A l \in m .. n - 1 : says[i].s # NodeName(l)
      BY <1>2, <3>1, <3>2
    <3>4. \A v \in DOMAIN d.order : says[i].s # d.order[v]
      BY <1>3, <3>1, <3>2
    <3> QED
      BY <2>2, <3>3, <3>4
  <2>4. CASE \E v \in DOMAIN d.order : v < t /\ says[i].s = d.order[v]
    <3>1. PICK v \in DOMAIN d.order : v < t /\ says[i].s = d.order[v]
      BY <2>4
    <3>2. \A l \in m .. n - 1 : l \in Nat
      OBVIOUS
    <3>3. \A l \in m .. n - 1 : says[i].s # NodeName(l)
      BY <1>3, <3>1, <3>2
    <3>4. \A w \in DOMAIN d.order : t <= w => w # v
      BY <1>1, <3>1
    <3>5. \A w \in DOMAIN d.order : t <= w => says[i].s # d.order[w]
      BY <1>1, <3>1, <3>4
    <3> QED
      BY <2>2, <3>3, <3>5
  <2> QED
    BY <2>1, <2>3, <2>4
<1>5. Single(Collected(says))
  BY <1>4, CollectedSingle
<1>6. \A key \in DOMAIN Collected(says) :
        key[2] \notin Several => key \in DOMAIN triples \/ \E i \in DOMAIN says : key = KeyOf(says[i])
  BY <1>4, CollectedSingle
<1>7. ASSUME NEW key \in DOMAIN Collected(says), key[2] \notin Several
      PROVE  \/ \E k \in 0 .. n - 1 : key[1] = NodeName(k)
             \/ \E v \in DOMAIN d.order : v < u /\ key[1] = d.order[v]
  <2>1. CASE key \in DOMAIN triples
    <3>1. \/ \E k \in 0 .. m - 1 : key[1] = NodeName(k)
          \/ \E v \in DOMAIN d.order : v < t /\ key[1] = d.order[v]
      BY <1>7, <2>1 DEF Kept
    <3>2. \A k \in 0 .. m - 1 : k \in 0 .. n - 1
      OBVIOUS
    <3>3. \A v \in DOMAIN d.order : v < t => v < u
      BY <1>1
    <3> QED
      BY <3>1, <3>2, <3>3
  <2>2. CASE \E i \in DOMAIN says : key = KeyOf(says[i])
    <3>1. PICK i \in DOMAIN says : key = KeyOf(says[i])
      BY <2>2
    <3>2. key[1] = says[i].s /\ key[2] = says[i].p
      BY <3>1 DEF KeyOf
    <3>3. \/ \E k \in m .. n - 1 : key[1] = NodeName(k)
          \/ \E v \in DOMAIN d.order : t <= v /\ v < u /\ key[1] = d.order[v]
      BY <1>7, <3>2 DEF NewSubjects
    <3>4. \A k \in m .. n - 1 : k \in 0 .. n - 1
      OBVIOUS
    <3> QED
      BY <3>3, <3>4
  <2> QED
    BY <1>6, <1>7, <2>1, <2>2
<1> QED
  BY <1>5, <1>7 DEF Kept

-----------------------------------------------------------------------------
(* The links from the name of a mapping.                                   *)
LEMMA LinksDescribe ==
  ASSUME NEW name, NEW a, NEW b, NEW c,
         Describes(a, name, {"logicalTable"}), Describes(b, name, {"subjectMap"}), Describes(c, name, {})
  PROVE  Describes(a \o b \o c, name, {"logicalTable", "subjectMap", "type"})
<1>1. Describes(a \o b, name, {"logicalTable"} \cup {"subjectMap"})
  BY BothDescribe, {"logicalTable"} \cap {"subjectMap"} = {}
<1>2. Describes((a \o b) \o c, name, ({"logicalTable"} \cup {"subjectMap"}) \cup {})
  BY <1>1, BothDescribe, ({"logicalTable"} \cup {"subjectMap"}) \cap {} = {}
<1> QED
  BY <1>2, WiderDescribes, ({"logicalTable"} \cup {"subjectMap"}) \cup {} \subseteq {"logicalTable", "subjectMap", "type"}

LEMMA ListDescribes ==
  ASSUME NEW name, NEW poms, IsSequence(poms)
  PROVE  Describes([i \in DOMAIN poms |-> Say(name, "predicateObjectMap", "blank", poms[i])], name, {})
<1> DEFINE c == [i \in DOMAIN poms |-> Say(name, "predicateObjectMap", "blank", poms[i])]
<1>1. DOMAIN c = DOMAIN poms /\ c = [i \in DOMAIN c |-> c[i]]
  OBVIOUS
<1>2. \A i \in DOMAIN c : c[i].p \in Several
  BY DEF Say, Several
<1> HIDE DEF c
<1>3. Describes(c, name, {})
  BY <1>1, <1>2, SeveralDescribe
<1> QED
  BY <1>3 DEF c

Parts(s, t, all) ==
  /\ IsSequence(all)
  /\ \A k \in DOMAIN all : \/ k \in DOMAIN s /\ all[k] = s[k]
                           \/ \E i \in DOMAIN t : k = Len(s) + i /\ all[k] = t[i]

LEMMA PartsOf ==
  ASSUME NEW s, NEW t, IsSequence(s), IsSequence(t)
  PROVE  Parts(s, t, s \o t)
<1> DEFINE all == s \o t
<1>1. /\ IsSequence(all)
      /\ \A i \in DOMAIN s : i \in DOMAIN all /\ all[i] = s[i]
      /\ \A i \in DOMAIN t : Len(s) + i \in DOMAIN all /\ all[Len(s) + i] = t[i]
      /\ \A k \in DOMAIN all : k \in DOMAIN s \/ \E i \in DOMAIN t : k = Len(s) + i
  BY Concatenated, ZenonT(60)
<1> HIDE DEF all
<1>2. Parts(s, t, all)
  BY <1>1 DEF Parts
<1> QED
  BY <1>2 DEF all

(* Statements about a mapping follow those about nodes.                    *)
LEMMA LinkedSays ==
  ASSUME NamesApart, NEW d \in Documents, NEW t \in DOMAIN d.order, t \in Nat,
         NEW e, NEW m \in Nat, Since(e, m),
         NEW links, NEW ps, Describes(links, d.order[t], ps)
  PROVE  /\ IsSequence(e.says \o links) /\ OnceEach(e.says \o links)
         /\ NewSubjects(e.says \o links, d.order, m, e.minted, t, t + 1)
<1> DEFINE says == e.says \o links
<1>1. Work(e) /\ e.minted \in Nat /\ IsSequence(e.says) /\ IsSequence(links) /\ OnceEach(e.says)
  BY DEF Since, Work, Describes
<1>2. /\ IsSequence(says)
      /\ \A k \in DOMAIN says :
           \/ k \in DOMAIN e.says /\ says[k] = e.says[k]
           \/ \E i \in DOMAIN links : k = Len(e.says) + i /\ says[k] = links[i]
  <2>1. Parts(e.says, links, says)
    BY <1>1, PartsOf
  <2> HIDE DEF says
  <2> QED
    BY <2>1 DEF Parts
<1> HIDE DEF says
<1>3. \A i \in DOMAIN e.says : e.says[i].p \notin Several => \E k \in m .. e.minted - 1 : e.says[i].s = NodeName(k)
  BY DEF Since
<1>4. \A i \in DOMAIN links : links[i].p \notin Several => links[i].s = d.order[t]
  BY DEF Describes
<1>5. \A k \in m .. e.minted - 1 : NodeName(k) # d.order[t]
  <2>1. \A k \in m .. e.minted - 1 : k \in Nat
    BY <1>1
  <2> QED
    BY <2>1 DEF NamesApart
<1>6. ASSUME NEW i \in DOMAIN says, NEW j \in DOMAIN says, says[i].p \notin Several,
             says[i].s = says[j].s, says[i].p = says[j].p
      PROVE  i = j
  <2>1. CASE i \in DOMAIN e.says /\ says[i] = e.says[i] /\ j \in DOMAIN e.says /\ says[j] = e.says[j]
    BY <1>1, <1>6, <2>1 DEF OnceEach
  <2>2. CASE /\ \E k \in DOMAIN links : i = Len(e.says) + k /\ says[i] = links[k]
             /\ \E k \in DOMAIN links : j = Len(e.says) + k /\ says[j] = links[k]
    BY <1>6, <2>2 DEF Describes
  <2>3. CASE /\ i \in DOMAIN e.says /\ says[i] = e.says[i]
             /\ \E k \in DOMAIN links : j = Len(e.says) + k /\ says[j] = links[k]
    BY <1>3, <1>4, <1>5, <1>6, <2>3
  <2>4. CASE /\ j \in DOMAIN e.says /\ says[j] = e.says[j]
             /\ \E k \in DOMAIN links : i = Len(e.says) + k /\ says[i] = links[k]
    BY <1>3, <1>4, <1>5, <1>6, <2>4
  <2> QED
    BY <1>2, <2>1, <2>2, <2>3, <2>4
<1>7. OnceEach(says)
  BY <1>6 DEF OnceEach
<1>8. ASSUME NEW i \in DOMAIN says, says[i].p \notin Several
      PROVE  \/ \E k \in m .. e.minted - 1 : says[i].s = NodeName(k)
             \/ \E v \in DOMAIN d.order : t <= v /\ v < t + 1 /\ says[i].s = d.order[v]
  <2>1. t <= t /\ t < t + 1
    OBVIOUS
  <2>2. CASE i \in DOMAIN e.says /\ says[i] = e.says[i]
    BY <1>3, <1>8, <2>2
  <2>3. CASE \E k \in DOMAIN links : i = Len(e.says) + k /\ says[i] = links[k]
    BY <1>4, <1>8, <2>1, <2>3
  <2> QED
    BY <1>2, <2>2, <2>3
<1>9. NewSubjects(says, d.order, m, e.minted, t, t + 1)
  BY <1>8 DEF NewSubjects
<1> QED
  BY <1>2, <1>7, <1>9 DEF says

SaysOnce(e, order, m, n, t) ==
  /\ e.minted = n /\ IsSequence(e.says) /\ OnceEach(e.says)
  /\ NewSubjects(e.says, order, m, n, t, t + 1)

LEMMA LinkMappingSays ==
  ASSUME NamesApart, NEW d \in Documents, NEW t \in DOMAIN d.order, t \in Nat,
         NEW e, NEW m \in Nat, Since(e, m), NEW map, NEW subjectMap
  PROVE  SaysOnce(LinkMapping(e, map, d.order[t], subjectMap), d.order, m, e.minted, t)
<1> DEFINE graphs == WarnIf(Present(FirstOf(map, << "graphs", "graph" >>)), e, "graphs")
           keys   == WarnIf(DOMAIN map.of \ KnownKeys # {}, graphs, "unsupported key")
           name   == d.order[t]
           a      == SayIf(e.table # "", Say(name, "logicalTable", "blank", e.table))
           b      == SayIf(subjectMap # "", Say(name, "subjectMap", "blank", subjectMap))
           c      == [i \in DOMAIN e.poms |-> Say(name, "predicateObjectMap", "blank", e.poms[i])]
           links  == a \o b \o c
           typed  == << Say(name, "type", "uri", "TriplesMap") >>
           all    == IF links # << >> THEN links ELSE typed
           ps     == {"logicalTable", "subjectMap", "type"}
           done   == LinkMapping(e, map, name, subjectMap)
<1>1. graphs \in {e, Warn(e, "graphs")} /\ keys \in {graphs, Warn(graphs, "unsupported key")}
  BY DEF WarnIf
<1>2. done = Emit(keys, all)
  BY DEF LinkMapping
<1>3. Describes(a, name, {"logicalTable"})
  <2>1. a \in {<< >>, << Say(name, "logicalTable", "blank", e.table) >>}
    BY DEF SayIf
  <2> HIDE DEF a
  <2> QED
    BY <2>1, OneDescribes, NoneDescribes
<1>4. Describes(b, name, {"subjectMap"})
  <2>1. b \in {<< >>, << Say(name, "subjectMap", "blank", subjectMap) >>}
    BY DEF SayIf
  <2> HIDE DEF b
  <2> QED
    BY <2>1, OneDescribes, NoneDescribes
<1>5. IsSequence(e.poms) /\ Work(e)
  BY DEF Since, Work
<1>14. Describes(c, name, {})
  BY <1>5, ListDescribes
<1> HIDE DEF a, b, c, graphs, keys, name, done, links, typed, ps, all
<1>6. Describes(links, name, ps)
  <2>1. Describes(a \o b \o c, name, {"logicalTable", "subjectMap", "type"})
    BY <1>3, <1>4, <1>14, LinksDescribe
  <2> QED
    BY <2>1 DEF links, ps
<1>7. Describes(typed, name, ps)
  BY OneDescribes, WiderDescribes, {"type"} \subseteq ps DEF typed, ps
<1>8. Describes(all, name, ps)
  BY <1>6, <1>7 DEF all
<1>9. Since(graphs, m) /\ graphs.minted = e.minted /\ graphs.says = e.says
  <2>1. Since(Warn(e, "graphs"), m) /\ Warn(e, "graphs").minted = e.minted /\ Warn(e, "graphs").says = e.says
    BY WarnKeeps
  <2> QED
    BY <1>1, <2>1
<1>10. Since(keys, m) /\ keys.minted = e.minted /\ keys.says = e.says
  <2>1. /\ Since(Warn(graphs, "unsupported key"), m)
        /\ Warn(graphs, "unsupported key").minted = graphs.minted
        /\ Warn(graphs, "unsupported key").says = graphs.says
    BY <1>9, WarnKeeps
  <2> QED
    BY <1>1, <1>9, <2>1
<1>11. IsWork(keys)
  BY <1>10 DEF Since, Work
<1>12. done.minted = e.minted /\ done.says = e.says \o all
  <2>1. done = [minted |-> keys.minted, says |-> keys.says \o all, warns |-> keys.warns,
                classes |-> keys.classes, poms |-> keys.poms, table |-> keys.table]
    BY <1>2, <1>11, EmitIs
  <2> QED
    BY <1>10, <2>1
<1>13. /\ IsSequence(e.says \o all) /\ OnceEach(e.says \o all)
       /\ NewSubjects(e.says \o all, d.order, m, e.minted, t, t + 1)
  BY <1>8, LinkedSays DEF name
<1>15. SaysOnce(done, d.order, m, e.minted, t)
  BY <1>12, <1>13 DEF SaysOnce
<1> QED
  BY <1>15 DEF done, name

-----------------------------------------------------------------------------
(* The inductive invariant.                                                *)
Inv ==
  /\ yaml \in Documents
  /\ turn \in Nat /\ entry \in Nat \ {0}
  /\ turn # 0
  /\ Work(out) /\ out.says = << >>
  /\ step # "root" => Mappings.y = "map"
  /\ Single(triples)
  /\ Kept(triples, yaml.order, out.minted, turn)

LEMMA FreshIsWork ==
  ASSUME NEW n \in Nat
  PROVE  Work(Fresh(n)) /\ Fresh(n).says = << >> /\ Fresh(n).minted = n
<1>1. Fresh(n) = [minted |-> n, says |-> << >>, warns |-> {}, classes |-> << >>, poms |-> << >>, table |-> ""]
  BY DEF Fresh
<1> DEFINE e == Fresh(n)
<1>4. e = [minted |-> n, says |-> << >>, warns |-> {}, classes |-> << >>, poms |-> << >>, table |-> ""]
  BY <1>1
<1> HIDE DEF e
<1>2. IsWork(e) /\ e.minted = n /\ e.says = << >> /\ e.classes = << >> /\ e.poms = << >>
  BY <1>4 DEF IsWork
<1>3. Work(e)
  BY <1>2, Short DEF Work
<1> QED
  BY <1>2, <1>3 DEF e

LEMMA InitInv == Init => Inv
<1> SUFFICES ASSUME Init PROVE Inv
  OBVIOUS
<1>1. yaml \in Documents /\ turn = 1 /\ entry = 1 /\ step = "root" /\ out = Fresh(0) /\ triples = << >>
  BY DEF Init
<1>2. Work(out) /\ out.says = << >>
  BY <1>1, FreshIsWork
<1>3. DOMAIN triples = {}
  BY <1>1, Short
<1>4. Single(triples) /\ Kept(triples, yaml.order, out.minted, turn)
  BY <1>3 DEF Single, Kept
<1> QED
  BY <1>1, <1>2, <1>4 DEF Inv

LEMMA SinceNow == ASSUME Inv PROVE Since(out, out.minted) /\ out.minted \in Nat
<1>1. Work(out) /\ out.says = << >>
  BY DEF Inv
<1>2. out.minted \in Nat
  BY <1>1 DEF Work
<1>3. DOMAIN out.says = {}
  BY <1>1, Short
<1> QED
  BY <1>1, <1>2, <1>3 DEF Since, OnceEach

(* The parts of the translation that are handed over one by one.           *)
LEMMA DeliverKeeps ==
  ASSUME NamesApart, Inv, NEW e, Since(e, out.minted), NEW about, Deliver(e, about),
         turn' \in {turn, turn + 1}
  PROVE  /\ Work(out') /\ out'.says = << >>
         /\ Single(triples') /\ Kept(triples', yaml.order, out'.minted, turn')
<1> DEFINE m == out.minted
<1>1. Work(e) /\ IsWork(e) /\ e.minted \in Nat /\ IsSequence(e.says) /\ m <= e.minted /\ OnceEach(e.says)
  BY DEF Since, Work
<1>2. m \in Nat /\ turn \in Nat /\ turn' \in Nat /\ turn <= turn' /\ yaml \in Documents
  BY SinceNow DEF Inv
<1>3. out' = [e EXCEPT !.says = << >>, !.warns = {}] /\ triples' = Collected(e.says)
  BY DEF Deliver
<1>4. out' = [minted |-> e.minted, says |-> << >>, warns |-> {},
              classes |-> e.classes, poms |-> e.poms, table |-> e.table]
  BY <1>1, <1>3, HandedOver
<1>5. /\ IsWork(out') /\ out'.minted = e.minted /\ out'.says = << >>
      /\ out'.classes = e.classes /\ out'.poms = e.poms
  BY <1>4, MadeWork
<1>6. Work(out') /\ out'.says = << >>
  BY <1>1, <1>5, Short DEF Work
<1>7. NewSubjects(e.says, yaml.order, m, e.minted, turn, turn')
  BY DEF Since, NewSubjects
<1>8. Single(triples) /\ Kept(triples, yaml.order, m, turn)
  BY DEF Inv
<1> HIDE DEF m
<1>9. Single(Collected(e.says)) /\ Kept(Collected(e.says), yaml.order, e.minted, turn')
  BY <1>1, <1>2, <1>7, <1>8, CollectedKept
<1> QED
  BY <1>3, <1>5, <1>6, <1>9

-----------------------------------------------------------------------------
(* The mapping and the entry that are translated.                          *)
LEMMA MappingIsNode ==
  ASSUME Inv, turn <= Len(yaml.order), step # "root"
  PROVE  turn \in DOMAIN yaml.order /\ Node(Mapping)
<1>1. yaml \in Documents /\ Mappings.y = "map" /\ turn \in Nat /\ turn # 0
  BY DEF Inv
<1>2. /\ IsSequence(yaml.order)
      /\ { yaml.order[t] : t \in DOMAIN yaml.order } = DOMAIN Mappings.of
      /\ \A name \in DOMAIN Mappings.of : Mappings.of[name] \in YamlNodes
  BY <1>1, DocumentFacts DEF Mappings
<1>3. turn \in DOMAIN yaml.order
  BY <1>1, <1>2, SequenceFacts
<1>4. yaml.order[turn] \in DOMAIN Mappings.of
  BY <1>2, <1>3
<1> QED
  BY <1>2, <1>3, <1>4 DEF Mapping, Node

LEMMA EntryIsNode ==
  ASSUME Inv, turn <= Len(yaml.order), step # "root", Entries.y = "seq", entry <= Len(Entries.of)
  PROVE  Node(Entries.of[entry])
<1>1. Node(Entries)
  BY MappingIsNode, FirstIsNode DEF Entries
<1>2. NodeList(FlattenList(Entries))
  BY <1>1, ListIsNodeList
<1>3. FlattenList(Entries) = Entries.of
  BY DEF FlattenList
<1>4. IsSequence(Entries.of) /\ \A i \in DOMAIN Entries.of : Node(Entries.of[i])
  BY <1>2, <1>3 DEF NodeList
<1>5. entry \in DOMAIN Entries.of
  BY <1>4, SequenceFacts DEF Inv
<1> QED
  BY <1>4, <1>5

-----------------------------------------------------------------------------
(* The steps.                                                              *)
LEMMA SkipKeeps == ASSUME NamesApart, Inv, Skip PROVE Inv'
<1>1. Since(Warn(out, "no mapping"), out.minted)
  BY SinceNow, WarnKeeps
<1>2. Deliver(Warn(out, "no mapping"), yaml.order[turn]) /\ turn' = turn + 1 /\ UNCHANGED << yaml, step, entry >>
  BY DEF Skip
<1>3. /\ Work(out') /\ out'.says = << >>
      /\ Single(triples') /\ Kept(triples', yaml.order, out'.minted, turn')
  BY <1>1, <1>2, DeliverKeeps
<1>4. turn' \in Nat /\ turn' # 0
  <2>1. turn \in Nat
    BY DEF Inv
  <2>2. turn' = turn + 1
    BY <1>2
  <2> QED
    BY <2>1, <2>2
<1> QED
  BY <1>2, <1>3, <1>4 DEF Inv, Mappings

LEMMA LogicalTableKeeps == ASSUME NamesApart, Inv, LogicalTable PROVE Inv'
<1>1. Since(EmitLogicalTable(out, Mapping), out.minted)
  BY SinceNow, EmitLogicalTableKeeps
<1>2. /\ Deliver(EmitLogicalTable(out, Mapping), yaml.order[turn])
      /\ step = "table" /\ step' = "entries" /\ entry' = 1 /\ UNCHANGED << yaml, turn >>
  BY DEF LogicalTable, Translating
<1>3. /\ Work(out') /\ out'.says = << >>
      /\ Single(triples') /\ Kept(triples', yaml.order, out'.minted, turn')
  BY <1>1, <1>2, DeliverKeeps
<1> QED
  BY <1>2, <1>3 DEF Inv, Mappings

LEMMA EntryKeeps == ASSUME NamesApart, Inv, Entry PROVE Inv'
<1>1. /\ Deliver(EmitEntry(out, Entries.of[entry]), yaml.order[turn])
      /\ step = "entries" /\ turn <= Len(yaml.order) /\ Entries.y = "seq" /\ entry <= Len(Entries.of)
      /\ entry' = entry + 1 /\ UNCHANGED << yaml, turn, step >>
  BY DEF Entry, Translating
<1>2. Node(Entries.of[entry])
  BY <1>1, EntryIsNode
<1>3. Since(EmitEntry(out, Entries.of[entry]), out.minted)
  BY <1>2, SinceNow, EmitEntryKeeps
<1>4. /\ Work(out') /\ out'.says = << >>
      /\ Single(triples') /\ Kept(triples', yaml.order, out'.minted, turn')
  BY <1>1, <1>3, DeliverKeeps
<1> QED
  BY <1>1, <1>4 DEF Inv, Mappings

LEMMA SubjectAndLinksKeeps == ASSUME NamesApart, Inv, SubjectAndLinks PROVE Inv'
<1> DEFINE said == WarnIf(Entries.y \notin {"seq", "undefined"}, out, "entries are no list")
           name == yaml.order[turn]
           node == SubjectMapNode(out, Mapping)
           e    == EmitSubjectMap(said, Mapping)
           done == LinkMapping(e, Mapping, name, node)
           m    == out.minted
<1>1. /\ step = "entries" /\ turn <= Len(yaml.order)
      /\ triples' = Collected(done.says) /\ out' = Fresh(done.minted)
      /\ turn' = turn + 1 /\ step' = "table" /\ UNCHANGED << yaml, entry >>
  BY DEF SubjectAndLinks, EntriesDone, Translating
<1>2. turn \in DOMAIN yaml.order /\ turn \in Nat /\ yaml \in Documents
  BY <1>1, MappingIsNode DEF Inv
<1>3. said \in {out, Warn(out, "entries are no list")}
  BY DEF WarnIf
<1>4. Since(out, m) /\ Since(Warn(out, "entries are no list"), m) /\ m \in Nat
  BY SinceNow, WarnKeeps
<1> HIDE DEF said, m
<1>5. Since(said, m)
  BY <1>3, <1>4
<1>6. Since(e, m)
  BY <1>4, <1>5, EmitSubjectMapKeeps
<1> HIDE DEF e, node
<1>7. e.minted \in Nat /\ m <= e.minted
  BY <1>6 DEF Since, Work
<1>8. /\ done.minted = e.minted /\ IsSequence(done.says) /\ OnceEach(done.says)
      /\ NewSubjects(done.says, yaml.order, m, e.minted, turn, turn + 1)
  <2>1. SaysOnce(LinkMapping(e, Mapping, yaml.order[turn], node), yaml.order, m, e.minted, turn)
    BY <1>2, <1>4, <1>6, LinkMappingSays
  <2>2. done = LinkMapping(e, Mapping, yaml.order[turn], node)
    OBVIOUS
  <2> HIDE DEF done
  <2> QED
    BY <2>1, <2>2 DEF SaysOnce
<1> HIDE DEF done, name
<1>9. Single(triples) /\ Kept(triples, yaml.order, m, turn)
  BY DEF Inv, m
<1>10. Single(Collected(done.says)) /\ Kept(Collected(done.says), yaml.order, e.minted, turn + 1)
  <2>1. turn + 1 \in Nat /\ turn <= turn + 1
    BY <1>2
  <2> QED
    BY <1>2, <1>4, <1>7, <1>8, <1>9, <2>1, CollectedKept
<1>11. Work(out') /\ out'.says = << >> /\ out'.minted = e.minted
  BY <1>1, <1>7, <1>8, FreshIsWork
<1>12. step # "root" /\ turn' \in Nat /\ turn' # 0
  BY <1>1, <1>2
<1> QED
  BY <1>1, <1>10, <1>11, <1>12 DEF Inv, Mappings

LEMMA OthersKeep ==
  ASSUME Inv, Unreadable \/ ReadRoot \/ ParseCollected \/ BuildMapping \/ UNCHANGED vars
  PROVE  Inv'
<1>1. UNCHANGED << yaml, turn, entry, out, triples >> /\ (step' # step => Mappings.y = "map")
  <2>1. CASE Unreadable
    BY <2>1 DEF Unreadable, mine
  <2>2. CASE ReadRoot
    BY <2>2 DEF ReadRoot
  <2>3. CASE ParseCollected
    BY <2>3 DEF ParseCollected, mine, Build!EndOfText
  <2>4. CASE BuildMapping
    BY <2>4 DEF BuildMapping, mine, Build!BuildTriplesMap, Build!ResolveParents, Build!Report
  <2>5. CASE UNCHANGED vars
    BY <2>5 DEF vars, mine
  <2> QED
    BY <2>1, <2>2, <2>3, <2>4, <2>5
<1> QED
  BY <1>1 DEF Inv, Mappings

-----------------------------------------------------------------------------
(* However many mappings a document has, and however long the lists of its *)
(* predicates, objects and conditions are, each node that is minted and    *)
(* each mapping has one value of each property that may have only one.     *)
THEOREM OneNodeEach == ASSUME NamesApart PROVE Spec => []NodesApart
<1>1. Init => Inv
  BY InitInv
<1>2. Inv /\ [Next]_vars => Inv'
  <2> SUFFICES ASSUME Inv, [Next]_vars PROVE Inv'
    OBVIOUS
  <2>1. CASE Skip
    BY <2>1, SkipKeeps
  <2>2. CASE LogicalTable
    BY <2>2, LogicalTableKeeps
  <2>3. CASE Entry
    BY <2>3, EntryKeeps
  <2>4. CASE SubjectAndLinks
    BY <2>4, SubjectAndLinksKeeps
  <2>5. CASE Unreadable \/ ReadRoot \/ ParseCollected \/ BuildMapping \/ UNCHANGED vars
    BY <2>5, OthersKeep
  <2> QED
    BY <2>1, <2>2, <2>3, <2>4, <2>5 DEF Next
<1>3. Inv => NodesApart
  BY DEF Inv, Single, Several, NodesApart
<1> QED
  BY <1>1, <1>2, <1>3, PTL DEF Spec
=============================================================================
