------------------------ MODULE ProcessDatabaseProofs ------------------------
(***************************************************************************)
(* Theorems about ProcessDatabase for every mapping and every database:    *)
(* what is written is denoted, everything denoted gets written, in order,  *)
(* and so ProcessDatabase implements RdfDump.                              *)
(***************************************************************************)
EXTENDS ProcessDatabase, TLAPS

(* What the assumption on the inputs says of the mapping being run.        *)
LEMMA SequenceFacts ==
  ASSUME NEW s, IsSequence(s)
  PROVE  Len(s) \in Nat /\ DOMAIN s = 1 .. Len(s)
BY DEF IsSequence

LEMMA MapFacts ==
  ASSUME mapping \in Mappings
  PROVE  /\ Len(mapping) \in Nat /\ DOMAIN mapping = 1 .. Len(mapping)
         /\ \A m \in 1 .. Len(mapping) : MapWellFormed(mapping, mapping[m])
         /\ db \in Databases => \A m \in 1 .. Len(mapping) :
              mapping[m].table # NoTable =>
                db[mapping[m].table] \in {SqlError, NoResult} \/ IsSequence(db[mapping[m].table])
<1>1. IsSequence(mapping)
  BY InputsAssumption
<1>2. Len(mapping) \in Nat /\ DOMAIN mapping = 1 .. Len(mapping)
  BY <1>1, SequenceFacts
<1> QED
  BY <1>2, InputsAssumption

LEMMA MapLengths ==
  ASSUME NEW mp, NEW tm, MapWellFormed(mp, tm)
  PROVE  /\ Len(tm.classes) \in Nat /\ DOMAIN tm.classes = 1 .. Len(tm.classes)
         /\ Len(tm.graphs) \in Nat /\ DOMAIN tm.graphs = 1 .. Len(tm.graphs)
         /\ Len(tm.poms) \in Nat /\ DOMAIN tm.poms = 1 .. Len(tm.poms)
         /\ \A p \in 1 .. Len(tm.poms) : PomWellFormed(mp, tm.poms[p])
BY SequenceFacts DEF MapWellFormed

LEMMA PomLengths ==
  ASSUME NEW mp, NEW pom, PomWellFormed(mp, pom)
  PROVE  /\ Len(pom.preds) \in Nat /\ DOMAIN pom.preds = 1 .. Len(pom.preds)
         /\ Len(pom.objs) \in Nat /\ DOMAIN pom.objs = 1 .. Len(pom.objs)
         /\ Len(pom.graphs) \in Nat /\ DOMAIN pom.graphs = 1 .. Len(pom.graphs)
BY SequenceFacts DEF PomWellFormed

LEMMA ConcatFacts ==
  ASSUME NEW s, NEW t, IsSequence(s), IsSequence(t)
  PROVE  Len(s \o t) \in Nat /\ DOMAIN (s \o t) = 1 .. Len(s \o t)
<1> DEFINE S == { s[i] : i \in DOMAIN s } \cup { t[i] : i \in DOMAIN t }
<1>1. s \in Seq(S) /\ t \in Seq(S)
  BY DEF IsSequence
<1>2. s \o t \in Seq(S)
  BY <1>1
<1> HIDE DEF S
<1> QED
  BY <1>2

-----------------------------------------------------------------------------
(***************************************************************************)
(* The inductive invariant behind the safety properties.                   *)
(***************************************************************************)
IInv == TypeOK /\ NodesAreCurrent

(* The vectors that the loops run over are sequences.                      *)
LEMMA ScopeFacts ==
  ASSUME IInv
  PROVE  /\ Len(mapping) \in Nat /\ DOMAIN mapping = 1 .. Len(mapping)
         /\ InMap => /\ at["map"] \in 1 .. Len(mapping)
                     /\ MapWellFormed(mapping, Map)
                     /\ IsSequence(rows) /\ Len(rows) \in Nat /\ DOMAIN rows = 1 .. Len(rows)
                     /\ Len(Map.classes) \in Nat /\ Len(Map.poms) \in Nat
         /\ InPom => /\ PomWellFormed(mapping, Pom)
                     /\ Len(Pom.preds) \in Nat /\ Len(Pom.objs) \in Nat
         /\ InJoin => /\ Len(ParentResult) \in Nat /\ Len(prows) \in Nat
                      /\ DOMAIN prows = 1 .. Len(prows)
                      /\ DOMAIN ParentResult = 1 .. Len(ParentResult)
         /\ pc = "graph" => Len(GraphMaps) \in Nat /\ DOMAIN GraphMaps = 1 .. Len(GraphMaps)
<1> USE DEF IInv, TypeOK
<1>1. Len(mapping) \in Nat /\ DOMAIN mapping = 1 .. Len(mapping)
  BY MapFacts
<1>2. ASSUME InMap
      PROVE  /\ at["map"] \in 1 .. Len(mapping)
             /\ MapWellFormed(mapping, Map)
             /\ IsSequence(rows) /\ Len(rows) \in Nat /\ DOMAIN rows = 1 .. Len(rows)
             /\ Len(Map.classes) \in Nat /\ Len(Map.poms) \in Nat /\ IsSequence(Map.graphs)
  <2>1. at["map"] \in 1 .. Len(mapping)
    BY <1>1, <1>2 DEF CursorsInRange, Loops
  <2>2. MapWellFormed(mapping, Map)
    BY <2>1, MapFacts DEF Map
  <2>3. IsSequence(rows)
    BY <1>2, <2>1, MapFacts DEF NodesAreCurrent, TriplesMapValid, Map
  <2> QED
    BY <2>1, <2>2, <2>3, MapLengths, SequenceFacts DEF MapWellFormed
<1>3. ASSUME InPom
      PROVE  /\ PomWellFormed(mapping, Pom) /\ IsSequence(Pom.graphs)
             /\ Len(Pom.preds) \in Nat /\ Len(Pom.objs) \in Nat
  <2>1. InMap /\ InRow
    BY <1>3 DEF InPom, InMap, InRow, Loops
  <2>2. at["pom"] \in 1 .. Len(Map.poms)
    BY <2>1, <1>2, <1>3 DEF CursorsInRange, Loops
  <2>3. PomWellFormed(mapping, Pom)
    BY <2>1, <2>2, <1>2, MapLengths DEF Pom
  <2> QED
    BY <2>3, PomLengths DEF PomWellFormed
<1>4. ASSUME InJoin
      PROVE  /\ Len(ParentResult) \in Nat /\ Len(prows) \in Nat
             /\ DOMAIN prows = 1 .. Len(prows) /\ DOMAIN ParentResult = 1 .. Len(ParentResult)
  BY <1>4, SequenceFacts DEF NodesAreCurrent
<1>5. ASSUME pc = "graph"
      PROVE  Len(GraphMaps) \in Nat /\ DOMAIN GraphMaps = 1 .. Len(GraphMaps)
  <2>1. InMap
    BY <1>5 DEF InMap, Loops
  <2>2. CASE back = "class"
    BY <2>1, <2>2, <1>2, SequenceFacts DEF GraphMaps
  <2>3. CASE back # "class"
    <3>1. InPom
      BY <1>5, <2>3 DEF InPom
    <3> QED
      BY <3>1, <2>1, <2>3, <1>2, <1>3, ConcatFacts DEF GraphMaps
  <2> QED
    BY <2>2, <2>3
<1> QED
  BY <1>1, <1>2, <1>3, <1>4, <1>5

LEMMA InitIInv == Init => IInv
<1> SUFFICES ASSUME Init PROVE IInv
  OBVIOUS
<1>1. Len(mapping) \in Nat
  BY MapFacts DEF Init
<1>2. ~InMap /\ ~InRow /\ ~InPom /\ ~InPredicate /\ ~InJoin /\ pc = "map"
  BY DEF Init, InMap, InRow, InPom, InPredicate, InJoin
<1>3. at \in [Loops -> Nat] /\ at["map"] = 0
  BY DEF Init, Loops
<1>4. emitted \in BOOLEAN
  BY DEF Init
<1>5. CursorsInRange
  BY <1>1, <1>2, <1>3 DEF CursorsInRange
<1>6. TypeOK
  BY <1>2, <1>3, <1>4, <1>5 DEF Init, TypeOK, Loops, Stopped
<1>7. NodesAreCurrent
  BY <1>2 DEF NodesAreCurrent
<1> QED
  BY <1>6, <1>7 DEF IInv

LEMMA NextMapIInv == ASSUME IInv, NextMap PROVE IInv'
<1> USE DEF inputs, nodes
<1>0. at' \in [Loops -> Nat]
  BY SMTT(30) DEF IInv, TypeOK, NextMap, Loops
<1>1. /\ at' \in [Loops -> Nat]
      /\ at'["map"] = at["map"] + 1
      /\ at'["row"] = 0
      /\ at'["class"] = at["class"]
      /\ at'["pom"] = at["pom"]
      /\ at'["predicate"] = at["predicate"]
      /\ at'["object"] = at["object"]
      /\ at'["join"] = at["join"]
      /\ at'["parent"] = at["parent"]
      /\ at'["graph"] = at["graph"]
  BY <1>0 DEF IInv, TypeOK, NextMap, Loops
<1>u. mapping' = mapping /\ db' = db
  BY DEF NextMap
<1>2. mapping' = mapping /\ db' = db /\ Map' = mapping[at["map"] + 1]
  BY <1>1, <1>u DEF NextMap, Map, Row, Pom, ObjectMap, ParentResult, GraphMaps
<1>3. /\ ~InRow' /\ ~InPom' /\ ~InPredicate' /\ ~InJoin' /\ pc' \notin {"join", "graph"}
      /\ InMap' => pc' = "row"
  BY DEF NextMap, InMap, InRow, InPom, InPredicate, InJoin, Loops
<1>c. ASSUME InMap'
      PROVE  /\ TriplesMapValid(Map') /\ rows' = db'[Map'.table]
             /\ db'[Map'.table] \notin {SqlError, NoResult}
             /\ Len(rows') \in Nat
  <2>1. pc' = "row" /\ pc = "map"
    BY <1>3, <1>c DEF NextMap
  <2>2. /\ TriplesMapValid(Map') /\ rows' = db'[Map'.table]
        /\ db'[Map'.table] \notin {SqlError, NoResult}
    BY <1>2, <2>1 DEF NextMap
  <2>3. at["map"] + 1 \in 1 .. Len(mapping)
    BY ScopeFacts DEF NextMap, IInv, TypeOK, Loops
  <2>4. IsSequence(rows')
    BY <1>2, <2>2, <2>3, MapFacts DEF TriplesMapValid, IInv, TypeOK
  <2> QED
    BY <2>2, <2>4, SequenceFacts
<1>a. /\ at["map"] < Len(mapping)
      /\ CursorsInRange
      /\ \A l \in Loops : at[l] \in Nat
  BY DEF IInv, TypeOK, NextMap
<1>b. Len(mapping) \in Nat
  BY <1>2, <1>3, <1>a, ScopeFacts, MapLengths, PomLengths, ConcatFacts DEF Loops
<1>4. CursorsInRange'
  BY <1>1, <1>2, <1>3, <1>a, <1>b, <1>c DEF CursorsInRange, Loops
<1>5. emitted' \in BOOLEAN
  BY DEF IInv, TypeOK, NextMap
<1>6. DOMAIN sbuf' = DOMAIN mapping'
  BY DEF IInv, TypeOK, NextMap, Refilled
<1>7. TypeOK'
  BY <1>1, <1>4, <1>5, <1>6 DEF IInv, TypeOK, NextMap, Loops, Stopped
<1>8. NodesAreCurrent'
  BY <1>1, <1>2, <1>3, ScopeFacts, <1>c DEF IInv, NodesAreCurrent, NextMap, Loops
<1> QED
  BY <1>7, <1>8 DEF IInv

LEMMA AllMapsDoneIInv == ASSUME IInv, AllMapsDone PROVE IInv'
<1> USE DEF inputs, nodes
<1>1. Map' = Map \/ ~InMap
  BY DEF AllMapsDone, Map, InMap
<1>2. TypeOK'
  <2>1. at' \in [Loops -> Nat]
    BY DEF IInv, TypeOK, AllMapsDone, Loops
  <2>2. emitted' \in BOOLEAN
    BY DEF IInv, TypeOK, AllMapsDone
  <2>3. CursorsInRange'
    BY ScopeFacts
    DEF IInv, TypeOK, CursorsInRange, AllMapsDone, InMap, InRow, InPom, InPredicate,
        InJoin, Loops, Map, Pom, ParentResult, GraphMaps, ObjectMap
  <2>4. DOMAIN sbuf' = DOMAIN mapping'
    BY DEF IInv, TypeOK, AllMapsDone, Refilled
  <2> QED
    BY <2>1, <2>2, <2>3, <2>4 DEF IInv, TypeOK, AllMapsDone, Loops, Stopped
<1>3. NodesAreCurrent'
  BY ScopeFacts
  DEF IInv, TypeOK, NodesAreCurrent, AllMapsDone, InMap, InRow, InPom, InPredicate,
      InJoin, Loops, Map, Pom, Row, ParentResult, GraphMaps, ObjectMap, MatchingRows
<1> QED
  BY <1>2, <1>3 DEF IInv

LEMMA NextRowIInv == ASSUME IInv, NextRow PROVE IInv'
<1> USE DEF inputs, nodes
<1>0. at' \in [Loops -> Nat]
  BY SMTT(30) DEF IInv, TypeOK, NextRow, Loops
<1>1. /\ at' \in [Loops -> Nat]
      /\ at'["map"] = at["map"]
      /\ at'["row"] = at["row"] + 1
      /\ at'["class"] = 0
      /\ at'["pom"] = 0
      /\ at'["predicate"] = at["predicate"]
      /\ at'["object"] = at["object"]
      /\ at'["join"] = at["join"]
      /\ at'["parent"] = at["parent"]
      /\ at'["graph"] = at["graph"]
  BY <1>0 DEF IInv, TypeOK, NextRow, Loops
<1>u. mapping' = mapping /\ db' = db
  BY DEF NextRow
<1>2. mapping' = mapping /\ db' = db /\ Map' = Map /\ rows' = rows /\ Row' = rows[at["row"] + 1]
  BY <1>1, <1>u DEF NextRow, Map, Row, Pom, ObjectMap, ParentResult, GraphMaps
<1>3. InMap /\ InMap' /\ ~InPom' /\ ~InPredicate' /\ ~InJoin' /\ pc' \notin {"join", "graph"}
      /\ (InRow' => pc' = "class")
  BY DEF NextRow, InMap, InRow, InPom, InPredicate, InJoin, Loops
<1>a. /\ at["row"] < Len(rows)
      /\ CursorsInRange
      /\ \A l \in Loops : at[l] \in Nat
  BY DEF IInv, TypeOK, NextRow
<1>b. Len(Map.classes) \in Nat /\ Len(Map.poms) \in Nat /\ Len(rows) \in Nat
  BY <1>2, <1>3, <1>a, ScopeFacts, MapLengths, PomLengths, ConcatFacts DEF Loops
<1>4. CursorsInRange'
  BY <1>1, <1>2, <1>3, <1>a, <1>b DEF CursorsInRange, Loops
<1>5. emitted' \in BOOLEAN
  BY DEF IInv, TypeOK, NextRow
<1>6. DOMAIN sbuf' = DOMAIN mapping'
  BY DEF IInv, TypeOK, NextRow, Refilled
<1>7. TypeOK'
  BY <1>1, <1>4, <1>5, <1>6 DEF IInv, TypeOK, NextRow, Loops, Stopped
<1>8. NodesAreCurrent'
  BY <1>1, <1>2, <1>3, ScopeFacts DEF IInv, NodesAreCurrent, NextRow, Loops
<1> QED
  BY <1>7, <1>8 DEF IInv

LEMMA RowsExhaustedIInv == ASSUME IInv, RowsExhausted PROVE IInv'
<1> USE DEF inputs, nodes
<1>1. Map' = Map \/ ~InMap
  BY DEF RowsExhausted, Map, InMap
<1>2. TypeOK'
  <2>1. at' \in [Loops -> Nat]
    BY DEF IInv, TypeOK, RowsExhausted, Loops
  <2>2. emitted' \in BOOLEAN
    BY DEF IInv, TypeOK, RowsExhausted
  <2>3. CursorsInRange'
    BY ScopeFacts
    DEF IInv, TypeOK, CursorsInRange, RowsExhausted, InMap, InRow, InPom, InPredicate,
        InJoin, Loops, Map, Pom, ParentResult, GraphMaps, ObjectMap
  <2>4. DOMAIN sbuf' = DOMAIN mapping'
    BY DEF IInv, TypeOK, RowsExhausted, Refilled
  <2> QED
    BY <2>1, <2>2, <2>3, <2>4 DEF IInv, TypeOK, RowsExhausted, Loops, Stopped
<1>3. NodesAreCurrent'
  BY ScopeFacts
  DEF IInv, TypeOK, NodesAreCurrent, RowsExhausted, InMap, InRow, InPom, InPredicate,
      InJoin, Loops, Map, Pom, Row, ParentResult, GraphMaps, ObjectMap, MatchingRows
<1> QED
  BY <1>2, <1>3 DEF IInv

LEMMA NextClassIInv == ASSUME IInv, NextClass PROVE IInv'
<1> USE DEF inputs, nodes
<1>0. at' \in [Loops -> Nat]
  BY SMTT(30) DEF IInv, TypeOK, NextClass, Loops
<1>1. /\ at' \in [Loops -> Nat]
      /\ at'["map"] = at["map"]
      /\ at'["row"] = at["row"]
      /\ at'["class"] = at["class"] + 1
      /\ at'["pom"] = at["pom"]
      /\ at'["predicate"] = at["predicate"]
      /\ at'["object"] = at["object"]
      /\ at'["join"] = at["join"]
      /\ at'["parent"] = at["parent"]
      /\ at'["graph"] = 0
  BY <1>0 DEF IInv, TypeOK, NextClass, Loops
<1>u. mapping' = mapping /\ db' = db
  BY DEF NextClass
<1>2. mapping' = mapping /\ db' = db /\ Map' = Map /\ rows' = rows /\ Row' = Row /\ subj' = subj /\ GraphMaps' = Map.graphs
  BY <1>1, <1>u DEF NextClass, Map, Row, Pom, ObjectMap, ParentResult, GraphMaps
<1>3. InMap /\ InRow /\ InMap' /\ InRow' /\ ~InPom' /\ ~InPredicate' /\ ~InJoin'
      /\ pc' = "graph" /\ back' = "class" 
  BY DEF NextClass, InMap, InRow, InPom, InPredicate, InJoin, Loops
<1>a. /\ at["class"] < Len(Map.classes)
      /\ CursorsInRange
      /\ \A l \in Loops : at[l] \in Nat
  BY DEF IInv, TypeOK, NextClass
<1>b. Len(Map.graphs) \in Nat /\ Len(Map.classes) \in Nat
  BY <1>2, <1>3, <1>a, ScopeFacts, MapLengths, PomLengths, ConcatFacts DEF Loops
<1>4. CursorsInRange'
  BY <1>1, <1>2, <1>3, <1>a, <1>b, MapLengths DEF CursorsInRange, Loops
<1>5. emitted' \in BOOLEAN
  BY DEF IInv, TypeOK, NextClass
<1>6. DOMAIN sbuf' = DOMAIN mapping'
  BY DEF IInv, TypeOK, NextClass, Refilled
<1>7. TypeOK'
  BY <1>1, <1>4, <1>5, <1>6 DEF IInv, TypeOK, NextClass, Loops, Stopped
<1>8. NodesAreCurrent'
  <2>1. /\ TriplesMapValid(Map) /\ db[Map.table] \notin {SqlError, NoResult} /\ rows = db[Map.table]
        /\ subj = SubjectNode(Map, Row) /\ subj # Nothing
    BY <1>3 DEF IInv, NodesAreCurrent
  <2>2. /\ pred' = ConstantIri(RdfType)
        /\ obj' = ConstantIri(Map'.classes[at'["class"]])
    BY <1>1, <1>2 DEF NextClass
  <2>3. obj' # Nothing
    BY <2>2 DEF ConstantIri, Nothing
  <2>4. at'["class"] > 0 /\ 1 .. at'["graph"] = {}
    BY <1>1, <1>a DEF Loops
  <2> QED
    BY <1>2, <1>3, <2>1, <2>2, <2>3, <2>4 DEF NodesAreCurrent
<1> QED
  BY <1>7, <1>8 DEF IInv

LEMMA ClassesExhaustedIInv == ASSUME IInv, ClassesExhausted PROVE IInv'
<1> USE DEF inputs, nodes
<1>1. Map' = Map \/ ~InMap
  BY DEF ClassesExhausted, Map, InMap
<1>2. TypeOK'
  <2>1. at' \in [Loops -> Nat]
    BY DEF IInv, TypeOK, ClassesExhausted, Loops
  <2>2. emitted' \in BOOLEAN
    BY DEF IInv, TypeOK, ClassesExhausted
  <2>3. CursorsInRange'
    BY ScopeFacts
    DEF IInv, TypeOK, CursorsInRange, ClassesExhausted, InMap, InRow, InPom, InPredicate,
        InJoin, Loops, Map, Pom, ParentResult, GraphMaps, ObjectMap
  <2>4. DOMAIN sbuf' = DOMAIN mapping'
    BY DEF IInv, TypeOK, ClassesExhausted, Refilled
  <2> QED
    BY <2>1, <2>2, <2>3, <2>4 DEF IInv, TypeOK, ClassesExhausted, Loops, Stopped
<1>3. NodesAreCurrent'
  BY ScopeFacts
  DEF IInv, TypeOK, NodesAreCurrent, ClassesExhausted, InMap, InRow, InPom, InPredicate,
      InJoin, Loops, Map, Pom, Row, ParentResult, GraphMaps, ObjectMap, MatchingRows
<1> QED
  BY <1>2, <1>3 DEF IInv

LEMMA NextPomIInv == ASSUME IInv, NextPom PROVE IInv'
<1> USE DEF inputs, nodes
<1>0. at' \in [Loops -> Nat]
  BY DEF IInv, TypeOK, NextPom, Loops
<1>1. /\ at' \in [Loops -> Nat]
      /\ at'["map"] = at["map"]
      /\ at'["row"] = at["row"]
      /\ at'["class"] = at["class"]
      /\ at'["pom"] = at["pom"] + 1
      /\ at'["predicate"] = 0
      /\ at'["object"] = at["object"]
      /\ at'["join"] = at["join"]
      /\ at'["parent"] = at["parent"]
      /\ at'["graph"] = at["graph"]
  BY <1>0 DEF IInv, TypeOK, NextPom, Loops
<1>u. mapping' = mapping /\ db' = db
  BY DEF NextPom
<1>2. mapping' = mapping /\ db' = db /\ Map' = Map /\ rows' = rows /\ Row' = Row /\ subj' = subj /\ Pom' = Map.poms[at["pom"] + 1]
  BY <1>1, <1>u DEF NextPom, Map, Row, Pom, ObjectMap, ParentResult, GraphMaps
<1>3. InMap /\ InRow /\ InMap' /\ InRow' /\ InPom' /\ ~InPredicate' /\ ~InJoin' /\ pc' \notin {"join", "graph"}
  BY DEF NextPom, InMap, InRow, InPom, InPredicate, InJoin, Loops
<1>a. /\ at["pom"] < Len(Map.poms)
      /\ CursorsInRange
      /\ \A l \in Loops : at[l] \in Nat
  BY DEF IInv, TypeOK, NextPom
<1>b. Len(Pom'.preds) \in Nat /\ Len(Map.poms) \in Nat
  <2>1. at["pom"] + 1 \in 1 .. Len(Map.poms) /\ Len(Map.poms) \in Nat
    BY <1>3, <1>a, ScopeFacts DEF Loops
  <2>2. PomWellFormed(mapping, Map.poms[at["pom"] + 1])
    BY <1>3, <2>1, ScopeFacts, MapLengths
  <2> QED
    BY <1>2, <2>1, <2>2, PomLengths
<1>4. CursorsInRange'
  BY <1>1, <1>2, <1>3, <1>a, <1>b, MapLengths, PomLengths, SMTT(30) DEF CursorsInRange, Loops
<1>5. emitted' \in BOOLEAN
  BY DEF IInv, TypeOK, NextPom
<1>6. DOMAIN sbuf' = DOMAIN mapping'
  BY DEF IInv, TypeOK, NextPom, Refilled
<1>7. TypeOK'
  BY <1>1, <1>4, <1>5, <1>6 DEF IInv, TypeOK, NextPom, Loops, Stopped
<1>8. NodesAreCurrent'
  BY <1>1, <1>2, <1>3, ScopeFacts DEF IInv, NodesAreCurrent, NextPom, Loops
<1> QED
  BY <1>7, <1>8 DEF IInv

LEMMA PomsExhaustedIInv == ASSUME IInv, PomsExhausted PROVE IInv'
<1> USE DEF inputs, nodes
<1>1. Map' = Map \/ ~InMap
  BY DEF PomsExhausted, Map, InMap
<1>2. TypeOK'
  <2>1. at' \in [Loops -> Nat]
    BY DEF IInv, TypeOK, PomsExhausted, Loops
  <2>2. emitted' \in BOOLEAN
    BY DEF IInv, TypeOK, PomsExhausted
  <2>3. CursorsInRange'
    BY ScopeFacts
    DEF IInv, TypeOK, CursorsInRange, PomsExhausted, InMap, InRow, InPom, InPredicate,
        InJoin, Loops, Map, Pom, ParentResult, GraphMaps, ObjectMap
  <2>4. DOMAIN sbuf' = DOMAIN mapping'
    BY DEF IInv, TypeOK, PomsExhausted, Refilled
  <2> QED
    BY <2>1, <2>2, <2>3, <2>4 DEF IInv, TypeOK, PomsExhausted, Loops, Stopped
<1>3. NodesAreCurrent'
  BY ScopeFacts
  DEF IInv, TypeOK, NodesAreCurrent, PomsExhausted, InMap, InRow, InPom, InPredicate,
      InJoin, Loops, Map, Pom, Row, ParentResult, GraphMaps, ObjectMap, MatchingRows
<1> QED
  BY <1>2, <1>3 DEF IInv

LEMMA NextPredicateIInv == ASSUME IInv, NextPredicate PROVE IInv'
<1> USE DEF inputs, nodes
<1>0. at' \in [Loops -> Nat]
  BY SMTT(30) DEF IInv, TypeOK, NextPredicate, Loops
<1>1. /\ at' \in [Loops -> Nat]
      /\ at'["map"] = at["map"]
      /\ at'["row"] = at["row"]
      /\ at'["class"] = at["class"]
      /\ at'["pom"] = at["pom"]
      /\ at'["predicate"] = at["predicate"] + 1
      /\ at'["object"] = 0
      /\ at'["join"] = at["join"]
      /\ at'["parent"] = at["parent"]
      /\ at'["graph"] = at["graph"]
  BY <1>0 DEF IInv, TypeOK, NextPredicate, Loops
<1>u. mapping' = mapping /\ db' = db
  BY DEF NextPredicate
<1>2. mapping' = mapping /\ db' = db /\ Map' = Map /\ rows' = rows /\ Row' = Row /\ subj' = subj /\ Pom' = Pom
  BY <1>1, <1>u DEF NextPredicate, Map, Row, Pom, ObjectMap, ParentResult, GraphMaps
<1>3. InMap /\ InRow /\ InPom /\ InMap' /\ InRow' /\ InPom' /\ ~InJoin' /\ pc' \notin {"join", "graph"}
      /\ (InPredicate' => pc' = "object")
  BY DEF NextPredicate, InMap, InRow, InPom, InPredicate, InJoin, Loops
<1>a. /\ at["predicate"] < Len(Pom.preds)
      /\ CursorsInRange
      /\ \A l \in Loops : at[l] \in Nat
  BY DEF IInv, TypeOK, NextPredicate
<1>b. Len(Pom.objs) \in Nat /\ Len(Pom.preds) \in Nat
  BY <1>2, <1>3, <1>a, ScopeFacts, MapLengths, PomLengths, ConcatFacts DEF Loops
<1>4. CursorsInRange'
  BY <1>1, <1>2, <1>3, <1>a, <1>b, SMTT(30) DEF CursorsInRange, Loops
<1>5. emitted' \in BOOLEAN
  BY DEF IInv, TypeOK, NextPredicate
<1>6. DOMAIN sbuf' = DOMAIN mapping'
  BY DEF IInv, TypeOK, NextPredicate, Refilled
<1>7. TypeOK'
  BY <1>1, <1>4, <1>5, <1>6 DEF IInv, TypeOK, NextPredicate, Loops, Stopped
<1>8. NodesAreCurrent'
  BY <1>1, <1>2, <1>3, ScopeFacts DEF IInv, NodesAreCurrent, NextPredicate, Loops
<1> QED
  BY <1>7, <1>8 DEF IInv

LEMMA PredicatesExhaustedIInv == ASSUME IInv, PredicatesExhausted PROVE IInv'
<1> USE DEF inputs, nodes
<1>1. Map' = Map \/ ~InMap
  BY DEF PredicatesExhausted, Map, InMap
<1>2. TypeOK'
  <2>1. at' \in [Loops -> Nat]
    BY DEF IInv, TypeOK, PredicatesExhausted, Loops
  <2>2. emitted' \in BOOLEAN
    BY DEF IInv, TypeOK, PredicatesExhausted
  <2>3. CursorsInRange'
    BY ScopeFacts
    DEF IInv, TypeOK, CursorsInRange, PredicatesExhausted, InMap, InRow, InPom,
        InPredicate, InJoin, Loops, Map, Pom, ParentResult, GraphMaps, ObjectMap
  <2>4. DOMAIN sbuf' = DOMAIN mapping'
    BY DEF IInv, TypeOK, PredicatesExhausted, Refilled
  <2> QED
    BY <2>1, <2>2, <2>3, <2>4 DEF IInv, TypeOK, PredicatesExhausted, Loops, Stopped
<1>3. NodesAreCurrent'
  BY ScopeFacts
  DEF IInv, TypeOK, NodesAreCurrent, PredicatesExhausted, InMap, InRow, InPom,
      InPredicate, InJoin, Loops, Map, Pom, Row, ParentResult, GraphMaps, ObjectMap,
      MatchingRows
<1> QED
  BY <1>2, <1>3 DEF IInv

LEMMA NextRegularObjectIInv == ASSUME IInv, NextRegularObject PROVE IInv'
<1> USE DEF inputs, nodes
<1>0. at' \in [Loops -> Nat]
  BY SMTT(30) DEF IInv, TypeOK, NextRegularObject, Loops
<1>1. /\ at' \in [Loops -> Nat]
      /\ at'["map"] = at["map"]
      /\ at'["row"] = at["row"]
      /\ at'["class"] = at["class"]
      /\ at'["pom"] = at["pom"]
      /\ at'["predicate"] = at["predicate"]
      /\ at'["object"] = at["object"] + 1
      /\ at'["join"] = at["join"]
      /\ at'["parent"] = at["parent"]
      /\ at'["graph"] = 0
  BY <1>0 DEF IInv, TypeOK, NextRegularObject, Loops
<1>u. mapping' = mapping /\ db' = db
  BY DEF NextRegularObject
<1>2. mapping' = mapping /\ db' = db /\ Map' = Map /\ rows' = rows /\ Row' = Row /\ subj' = subj /\ Pom' = Pom /\ pred' = pred
      /\ ObjectMap' = Pom.objs[at["object"] + 1]
  BY <1>1, <1>u DEF NextRegularObject, Map, Row, Pom, ObjectMap, ParentResult, GraphMaps
<1>3. InMap /\ InRow /\ InPom /\ InPredicate /\ InMap' /\ InRow' /\ InPom' /\ InPredicate' /\ ~InJoin'
      /\ pc' \in {"object", "graph"} /\ back' = "object"
  BY DEF NextRegularObject, InMap, InRow, InPom, InPredicate, InJoin, Loops
<1>a. /\ at["object"] < Len(Pom.objs)
      /\ CursorsInRange
      /\ \A l \in Loops : at[l] \in Nat
  BY DEF IInv, TypeOK, NextRegularObject
<1>b. Len(Map.graphs \o Pom.graphs) \in Nat /\ Len(Pom.objs) \in Nat
  BY <1>2, <1>3, <1>a, ScopeFacts, MapLengths, PomLengths, ConcatFacts
  DEF Loops, PomWellFormed, MapWellFormed
<1>g. Len(GraphMaps') \in Nat
  <2>1. GraphMaps' = Map.graphs \o Pom.graphs
    BY <1>2, <1>3 DEF GraphMaps
  <2> QED
    BY <2>1, <1>b
<1>4. CursorsInRange'
  BY <1>1, <1>2, <1>3, <1>a, <1>g, <1>b, SMTT(30) DEF CursorsInRange, Loops
<1>5. emitted' \in BOOLEAN
  BY DEF IInv, TypeOK, NextRegularObject
<1>6. DOMAIN sbuf' = DOMAIN mapping'
  BY DEF IInv, TypeOK, NextRegularObject, Refilled
<1>7. TypeOK'
  BY <1>1, <1>4, <1>5, <1>6 DEF IInv, TypeOK, NextRegularObject, Loops, Stopped
<1>8. NodesAreCurrent'
  <2>1. /\ TriplesMapValid(Map) /\ db[Map.table] \notin {SqlError, NoResult} /\ rows = db[Map.table]
        /\ subj = SubjectNode(Map, Row) /\ subj # Nothing
        /\ pred = NodeOf(Pom.preds[at["predicate"]], Row) /\ pred # Nothing
    BY <1>3 DEF IInv, NodesAreCurrent
  <2>2. pc' = "graph" => obj' # Nothing
    BY DEF NextRegularObject
  <2>3. obj' \in ObjectNodes(mapping', db', ObjectMap', Row')
    BY <1>2 DEF NextRegularObject, ObjectNodes
  <2>4. at'["object"] > 0 /\ 1 .. at'["graph"] = {}
    BY <1>1, <1>a DEF Loops
  <2> QED
    BY <1>1, <1>2, <1>3, <2>1, <2>2, <2>3, <2>4 DEF NodesAreCurrent
<1> QED
  BY <1>7, <1>8 DEF IInv

LEMMA NextReferencingObjectIInv == ASSUME IInv, NextReferencingObject PROVE IInv'
<1> USE DEF inputs, nodes
<1>0. at' \in [Loops -> Nat]
  <2>1. at \in [Loops -> Nat]
    BY DEF IInv, TypeOK
  <2>2. at' = [at EXCEPT !["object"] = at["object"] + 1, !["join"] = 0]
    BY DEF NextReferencingObject
  <2> QED
    BY <2>1, <2>2 DEF Loops
<1>1. /\ at' \in [Loops -> Nat]
      /\ at'["map"] = at["map"]
      /\ at'["row"] = at["row"]
      /\ at'["class"] = at["class"]
      /\ at'["pom"] = at["pom"]
      /\ at'["predicate"] = at["predicate"]
      /\ at'["object"] = at["object"] + 1
      /\ at'["join"] = 0
      /\ at'["parent"] = at["parent"]
      /\ at'["graph"] = at["graph"]
  BY <1>0 DEF IInv, TypeOK, NextReferencingObject, Loops
<1>u. mapping' = mapping /\ db' = db
  BY DEF NextReferencingObject
<1>2. mapping' = mapping /\ db' = db /\ Map' = Map /\ rows' = rows /\ Row' = Row /\ subj' = subj /\ Pom' = Pom /\ pred' = pred
      /\ ObjectMap' = Pom.objs[at["object"] + 1]
  BY <1>1, <1>u
  DEF NextReferencingObject, Map, Row, Pom, ObjectMap, ParentResult, GraphMaps
<1>3. InMap /\ InRow /\ InPom /\ InPredicate /\ (InJoin' => pc' = "join") /\ pc' # "graph"
      /\ (pc' \in Loops => InMap' /\ InRow' /\ InPom' /\ InPredicate')
      /\ (pc' \notin Loops => ~InMap' /\ ~InRow' /\ ~InPom' /\ ~InPredicate')
  BY DEF NextReferencingObject, InMap, InRow, InPom, InPredicate, InJoin, Loops
<1>a. /\ at["object"] < Len(Pom.objs)
      /\ CursorsInRange
      /\ \A l \in Loops : at[l] \in Nat
  BY DEF IInv, TypeOK, NextReferencingObject
<1>b. Len(Pom.objs) \in Nat
  BY <1>2, <1>3, <1>a, ScopeFacts, MapLengths, PomLengths, ConcatFacts DEF Loops
<1>4. CursorsInRange'
  BY <1>1, <1>2, <1>3, <1>a, <1>b, SMTT(30) DEF CursorsInRange, Loops
<1>5. emitted' \in BOOLEAN
  BY DEF IInv, TypeOK, NextReferencingObject
<1>6. DOMAIN sbuf' = DOMAIN mapping'
  BY DEF IInv, TypeOK, NextReferencingObject, Refilled
<1>7. TypeOK'
  BY <1>1, <1>4, <1>5, <1>6 DEF IInv, TypeOK, NextReferencingObject, Loops, Stopped
<1>8. NodesAreCurrent'
  <2>1. /\ TriplesMapValid(Map) /\ db[Map.table] \notin {SqlError, NoResult} /\ rows = db[Map.table]
        /\ subj = SubjectNode(Map, Row) /\ subj # Nothing
        /\ pred = NodeOf(Pom.preds[at["predicate"]], Row) /\ pred # Nothing
    BY <1>3 DEF IInv, NodesAreCurrent
  <2>2. ASSUME InJoin'
        PROVE  /\ ObjectMap'.rom
               /\ ParentResult' = ParentRows(mapping', db', ObjectMap')
               /\ IsSequence(ParentResult')
               /\ prows' \in Seq(MatchingRows')
    <3>1. pc' = "join" /\ pc = "object"
      BY <1>3, <2>2 DEF NextReferencingObject
    <3>2. /\ ObjectMap'.rom /\ ObjectMap'.parent # 0 /\ mapping'[ObjectMap'.parent].table # NoTable
          /\ db'[mapping'[ObjectMap'.parent].table] \notin {NoResult, SqlError}
          /\ prows' = << >>
      BY <1>2, <3>1 DEF NextReferencingObject
    <3>3. ObjectMap'.parent \in 1 .. Len(mapping)
      <4>1. PomWellFormed(mapping, Pom) /\ DOMAIN Pom.objs = 1 .. Len(Pom.objs) /\ Len(Pom.objs) \in Nat
        BY <1>3, ScopeFacts, PomLengths
      <4>2. at["object"] + 1 \in 1 .. Len(Pom.objs)
        BY <4>1, <1>a DEF Loops
      <4>3. ObjectMap'.parent \in 0 .. Len(mapping)
        BY <1>2, <3>2, <4>1, <4>2 DEF PomWellFormed
      <4> QED
        BY <3>2, <4>3, ScopeFacts
    <3>4. IsSequence(ParentResult')
      BY <1>2, <3>2, <3>3, MapFacts DEF ParentResult, IInv, TypeOK
    <3>5. ParentResult' = ParentRows(mapping', db', ObjectMap')
      BY <3>2 DEF ParentResult, ParentRows
    <3> QED
      BY <3>2, <3>4, <3>5
  <2> QED
    BY <1>1, <1>2, <1>3, <2>1, <2>2, <1>u DEF NodesAreCurrent, NextReferencingObject
<1> QED
  BY <1>7, <1>8 DEF IInv

LEMMA ObjectsExhaustedIInv == ASSUME IInv, ObjectsExhausted PROVE IInv'
<1> USE DEF inputs, nodes
<1>1. Map' = Map \/ ~InMap
  BY DEF ObjectsExhausted, Map, InMap
<1>2. TypeOK'
  <2>1. at' \in [Loops -> Nat]
    BY DEF IInv, TypeOK, ObjectsExhausted, Loops
  <2>2. emitted' \in BOOLEAN
    BY DEF IInv, TypeOK, ObjectsExhausted
  <2>3. CursorsInRange'
    BY ScopeFacts
    DEF IInv, TypeOK, CursorsInRange, ObjectsExhausted, InMap, InRow, InPom, InPredicate,
        InJoin, Loops, Map, Pom, ParentResult, GraphMaps, ObjectMap
  <2>4. DOMAIN sbuf' = DOMAIN mapping'
    BY DEF IInv, TypeOK, ObjectsExhausted, Refilled
  <2> QED
    BY <2>1, <2>2, <2>3, <2>4 DEF IInv, TypeOK, ObjectsExhausted, Loops, Stopped
<1>3. NodesAreCurrent'
  BY ScopeFacts
  DEF IInv, TypeOK, NodesAreCurrent, ObjectsExhausted, InMap, InRow, InPom, InPredicate,
      InJoin, Loops, Map, Pom, Row, ParentResult, GraphMaps, ObjectMap, MatchingRows
<1> QED
  BY <1>2, <1>3 DEF IInv

LEMMA TestParentRowIInv == ASSUME IInv, TestParentRow PROVE IInv'
<1> USE DEF inputs, nodes
<1>0. at' \in [Loops -> Nat]
  BY DEF IInv, TypeOK, TestParentRow, Loops
<1>1. /\ at' \in [Loops -> Nat]
      /\ at'["map"] = at["map"]
      /\ at'["row"] = at["row"]
      /\ at'["class"] = at["class"]
      /\ at'["pom"] = at["pom"]
      /\ at'["predicate"] = at["predicate"]
      /\ at'["object"] = at["object"]
      /\ at'["join"] = at["join"] + 1
      /\ at'["parent"] = at["parent"]
      /\ at'["graph"] = at["graph"]
  BY <1>0 DEF IInv, TypeOK, TestParentRow, Loops
<1>u. mapping' = mapping /\ db' = db
  BY DEF TestParentRow
<1>2. mapping' = mapping /\ db' = db /\ Map' = Map /\ rows' = rows /\ Row' = Row /\ subj' = subj /\ Pom' = Pom /\ pred' = pred /\ ObjectMap' = ObjectMap /\ ParentResult' = ParentResult
  BY <1>1, <1>u DEF TestParentRow, Map, Row, Pom, ObjectMap, ParentResult, GraphMaps
<1>3. InMap /\ InRow /\ InPom /\ InPredicate /\ InJoin /\ InMap' /\ InRow' /\ InPom' /\ InPredicate' /\ InJoin'
      /\ pc = "join" /\ pc' = "join" 
  BY DEF TestParentRow, InMap, InRow, InPom, InPredicate, InJoin, Loops
<1>a. /\ at["join"] < Len(ParentResult)
      /\ CursorsInRange
      /\ \A l \in Loops : at[l] \in Nat
  BY DEF IInv, TypeOK, TestParentRow
<1>b. Len(ParentResult) \in Nat
  BY <1>2, <1>3, <1>a, ScopeFacts, MapLengths, PomLengths, ConcatFacts DEF Loops
<1>4. CursorsInRange'
  BY <1>1, <1>2, <1>3, <1>a, <1>b DEF CursorsInRange, Loops
<1>5. emitted' \in BOOLEAN
  BY DEF IInv, TypeOK, TestParentRow
<1>6. DOMAIN sbuf' = DOMAIN mapping'
  BY DEF IInv, TypeOK, TestParentRow, Refilled
<1>7. TypeOK'
  BY <1>1, <1>4, <1>5, <1>6 DEF IInv, TypeOK, TestParentRow, Loops, Stopped
<1>8. NodesAreCurrent'
  <2>1. /\ TriplesMapValid(Map) /\ db[Map.table] \notin {SqlError, NoResult} /\ rows = db[Map.table]
        /\ subj = SubjectNode(Map, Row) /\ subj # Nothing
        /\ pred = NodeOf(Pom.preds[at["predicate"]], Row) /\ pred # Nothing
    BY <1>3 DEF IInv, NodesAreCurrent
  <2>2. /\ ObjectMap.rom /\ ParentResult = ParentRows(mapping, db, ObjectMap)
        /\ IsSequence(ParentResult) /\ prows \in Seq(MatchingRows)
    BY <1>3 DEF IInv, NodesAreCurrent
  <2>3. MatchingRows' = MatchingRows
    BY <1>2 DEF MatchingRows
  <2>4. at["join"] + 1 \in DOMAIN ParentResult
    <3>1. DOMAIN ParentResult = 1 .. Len(ParentResult)
      BY <1>3, ScopeFacts
    <3> QED
      BY <3>1, <1>a, <1>b DEF Loops
  <2>5. prows' \in Seq(MatchingRows)
    <3>1. CASE Joins(ObjectMap.joins, Row, ParentResult[at["join"] + 1])
      <4>1. ParentResult[at["join"] + 1] \in MatchingRows
        BY <2>4, <3>1 DEF MatchingRows
      <4>2. prows' = Append(prows, ParentResult[at["join"] + 1])
        BY <3>1 DEF TestParentRow
      <4> QED
        BY <2>2, <4>1, <4>2
    <3>2. CASE ~Joins(ObjectMap.joins, Row, ParentResult[at["join"] + 1])
      BY <2>2, <3>2 DEF TestParentRow
    <3> QED
      BY <3>1, <3>2
  <2> QED
    BY <1>1, <1>2, <1>3, <2>1, <2>2, <2>3, <2>5 DEF NodesAreCurrent
<1> QED
  BY <1>7, <1>8 DEF IInv

LEMMA JoinCollectedIInv == ASSUME IInv, JoinCollected PROVE IInv'
<1> USE DEF inputs, nodes
<1>0. at' \in [Loops -> Nat]
  BY DEF IInv, TypeOK, JoinCollected, Loops
<1>1. /\ at' \in [Loops -> Nat]
      /\ at'["map"] = at["map"]
      /\ at'["row"] = at["row"]
      /\ at'["class"] = at["class"]
      /\ at'["pom"] = at["pom"]
      /\ at'["predicate"] = at["predicate"]
      /\ at'["object"] = at["object"]
      /\ at'["join"] = at["join"]
      /\ at'["parent"] = 0
      /\ at'["graph"] = at["graph"]
  BY <1>0 DEF IInv, TypeOK, JoinCollected, Loops
<1>u. mapping' = mapping /\ db' = db
  BY DEF JoinCollected
<1>2. mapping' = mapping /\ db' = db /\ Map' = Map /\ rows' = rows /\ Row' = Row /\ subj' = subj /\ Pom' = Pom /\ pred' = pred /\ ObjectMap' = ObjectMap /\ ParentResult' = ParentResult
  BY <1>1, <1>u DEF JoinCollected, Map, Row, Pom, ObjectMap, ParentResult, GraphMaps
<1>3. InMap /\ InRow /\ InPom /\ InPredicate /\ InJoin /\ InMap' /\ InRow' /\ InPom' /\ InPredicate' /\ InJoin'
      /\ pc' = "parent" 
  BY DEF JoinCollected, InMap, InRow, InPom, InPredicate, InJoin, Loops
<1>a. /\ TRUE
      /\ CursorsInRange
      /\ \A l \in Loops : at[l] \in Nat
  BY DEF IInv, TypeOK, JoinCollected
<1>b. Len(prows) \in Nat
  BY <1>2, <1>3, <1>a, ScopeFacts, MapLengths, PomLengths, ConcatFacts DEF Loops
<1>4. CursorsInRange'
  BY <1>1, <1>2, <1>3, <1>a, <1>b DEF CursorsInRange, Loops
<1>5. emitted' \in BOOLEAN
  BY DEF IInv, TypeOK, JoinCollected
<1>6. DOMAIN sbuf' = DOMAIN mapping'
  BY DEF IInv, TypeOK, JoinCollected, Refilled
<1>7. TypeOK'
  BY <1>1, <1>4, <1>5, <1>6 DEF IInv, TypeOK, JoinCollected, Loops, Stopped
<1>8. NodesAreCurrent'
  BY <1>1, <1>2, <1>3, ScopeFacts
  DEF IInv, NodesAreCurrent, JoinCollected, Loops, MatchingRows
<1> QED
  BY <1>7, <1>8 DEF IInv

LEMMA NextParentRowIInv == ASSUME IInv, NextParentRow PROVE IInv'
<1> USE DEF inputs, nodes
<1>0. at' \in [Loops -> Nat]
  BY SMTT(30) DEF IInv, TypeOK, NextParentRow, Loops
<1>1. /\ at' \in [Loops -> Nat]
      /\ at'["map"] = at["map"]
      /\ at'["row"] = at["row"]
      /\ at'["class"] = at["class"]
      /\ at'["pom"] = at["pom"]
      /\ at'["predicate"] = at["predicate"]
      /\ at'["object"] = at["object"]
      /\ at'["join"] = at["join"]
      /\ at'["parent"] = at["parent"] + 1
      /\ at'["graph"] = 0
  BY <1>0 DEF IInv, TypeOK, NextParentRow, Loops
<1>u. mapping' = mapping /\ db' = db
  BY DEF NextParentRow
<1>2. mapping' = mapping /\ db' = db /\ Map' = Map /\ rows' = rows /\ Row' = Row /\ subj' = subj /\ Pom' = Pom /\ pred' = pred /\ prows' = prows
      /\ ObjectMap' = ObjectMap /\ ParentResult' = ParentResult
  BY <1>1, <1>u DEF NextParentRow, Map, Row, Pom, ObjectMap, ParentResult, GraphMaps
<1>3. InMap /\ InRow /\ InPom /\ InPredicate /\ InJoin /\ InMap' /\ InRow' /\ InPom' /\ InPredicate' /\ InJoin'
      /\ pc = "parent" /\ pc' \in {"parent", "graph"} /\ back' = "parent" 
  BY DEF NextParentRow, InMap, InRow, InPom, InPredicate, InJoin, Loops
<1>a. /\ at["parent"] < Len(prows)
      /\ CursorsInRange
      /\ \A l \in Loops : at[l] \in Nat
  BY DEF IInv, TypeOK, NextParentRow
<1>b. Len(Map.graphs \o Pom.graphs) \in Nat /\ Len(prows) \in Nat
  BY <1>2, <1>3, <1>a, ScopeFacts, MapLengths, PomLengths, ConcatFacts
  DEF Loops, PomWellFormed, MapWellFormed
<1>g. Len(GraphMaps') \in Nat
  <2>1. GraphMaps' = Map.graphs \o Pom.graphs
    BY <1>2, <1>3 DEF GraphMaps
  <2> QED
    BY <2>1, <1>b
<1>4. CursorsInRange'
  BY <1>1, <1>2, <1>3, <1>a, <1>g, <1>b, SMTT(30) DEF CursorsInRange, Loops
<1>5. emitted' \in BOOLEAN
  BY DEF IInv, TypeOK, NextParentRow
<1>6. DOMAIN sbuf' = DOMAIN mapping'
  BY DEF IInv, TypeOK, NextParentRow, Refilled
<1>7. TypeOK'
  BY <1>1, <1>4, <1>5, <1>6 DEF IInv, TypeOK, NextParentRow, Loops, Stopped
<1>8. NodesAreCurrent'
  <2>1. /\ TriplesMapValid(Map) /\ db[Map.table] \notin {SqlError, NoResult} /\ rows = db[Map.table]
        /\ subj = SubjectNode(Map, Row) /\ subj # Nothing
        /\ pred = NodeOf(Pom.preds[at["predicate"]], Row) /\ pred # Nothing
    BY <1>3 DEF IInv, NodesAreCurrent
  <2>2. /\ ObjectMap.rom /\ ParentResult = ParentRows(mapping, db, ObjectMap)
        /\ IsSequence(ParentResult) /\ prows \in Seq(MatchingRows)
    BY <1>3 DEF IInv, NodesAreCurrent
  <2>3. MatchingRows' = MatchingRows
    BY <1>2 DEF MatchingRows
  <2>4. pc' = "graph" => obj' # Nothing
    BY DEF NextParentRow
  <2>5. obj' \in ObjectNodes(mapping', db', ObjectMap', Row')
    <3>1. prows[at["parent"] + 1] \in MatchingRows
      BY <2>2, <1>a, <1>b DEF Loops
    <3>2. PICK i \in DOMAIN ParentResult : /\ Joins(ObjectMap.joins, Row, ParentResult[i])
                                           /\ prows[at["parent"] + 1] = ParentResult[i]
      BY <3>1 DEF MatchingRows
    <3>3. obj' = SubjectNode(mapping[ObjectMap.parent], ParentResult[i])
      BY <3>2 DEF NextParentRow
    <3> QED
      BY <1>2, <2>2, <3>2, <3>3 DEF ObjectNodes
  <2>6. at["object"] > 0 /\ 1 .. at'["graph"] = {}
    BY <1>1, <1>3, <1>a DEF CursorsInRange
  <2> QED
    BY <1>1, <1>2, <1>3, <2>1, <2>2, <2>3, <2>4, <2>5, <2>6 DEF NodesAreCurrent
<1> QED
  BY <1>7, <1>8 DEF IInv

LEMMA ParentRowsExhaustedIInv == ASSUME IInv, ParentRowsExhausted PROVE IInv'
<1> USE DEF inputs, nodes
<1>1. Map' = Map \/ ~InMap
  BY DEF ParentRowsExhausted, Map, InMap
<1>2. TypeOK'
  <2>1. at' \in [Loops -> Nat]
    BY DEF IInv, TypeOK, ParentRowsExhausted, Loops
  <2>2. emitted' \in BOOLEAN
    BY DEF IInv, TypeOK, ParentRowsExhausted
  <2>3. CursorsInRange'
    BY ScopeFacts
    DEF IInv, TypeOK, CursorsInRange, ParentRowsExhausted, InMap, InRow, InPom,
        InPredicate, InJoin, Loops, Map, Pom, ParentResult, GraphMaps, ObjectMap
  <2>4. DOMAIN sbuf' = DOMAIN mapping'
    BY DEF IInv, TypeOK, ParentRowsExhausted, Refilled
  <2> QED
    BY <2>1, <2>2, <2>3, <2>4 DEF IInv, TypeOK, ParentRowsExhausted, Loops, Stopped
<1>3. NodesAreCurrent'
  BY ScopeFacts
  DEF IInv, TypeOK, NodesAreCurrent, ParentRowsExhausted, InMap, InRow, InPom,
      InPredicate, InJoin, Loops, Map, Pom, Row, ParentResult, GraphMaps, ObjectMap,
      MatchingRows
<1> QED
  BY <1>2, <1>3 DEF IInv

LEMMA SkipGraphIInv == ASSUME IInv, SkipGraph PROVE IInv'
<1> USE DEF inputs, nodes
<1>0. at' \in [Loops -> Nat]
  BY DEF IInv, TypeOK, SkipGraph, Loops
<1>1. /\ at' \in [Loops -> Nat]
      /\ at'["map"] = at["map"]
      /\ at'["row"] = at["row"]
      /\ at'["class"] = at["class"]
      /\ at'["pom"] = at["pom"]
      /\ at'["predicate"] = at["predicate"]
      /\ at'["object"] = at["object"]
      /\ at'["join"] = at["join"]
      /\ at'["parent"] = at["parent"]
      /\ at'["graph"] = at["graph"] + 1
  BY <1>0 DEF IInv, TypeOK, SkipGraph, Loops
<1>u. /\ mapping' = mapping /\ db' = db /\ rows' = rows /\ prows' = prows
      /\ subj' = subj /\ pred' = pred /\ obj' = obj /\ pc' = pc /\ back' = back
  BY DEF SkipGraph
<1>2. mapping' = mapping /\ db' = db /\ Map' = Map /\ rows' = rows /\ Row' = Row /\ subj' = subj /\ Pom' = Pom /\ pred' = pred /\ obj' = obj /\ prows' = prows
      /\ ObjectMap' = ObjectMap /\ ParentResult' = ParentResult /\ GraphMaps' = GraphMaps
  BY <1>1, <1>u DEF Map, Row, Pom, ObjectMap, ParentResult, GraphMaps
<1>3. /\ InMap' = InMap /\ InRow' = InRow /\ InPom' = InPom /\ InPredicate' = InPredicate /\ InJoin' = InJoin
      /\ InMap /\ InRow /\ pc = "graph" /\ pc' = "graph" /\ back' = back
  BY DEF SkipGraph, InMap, InRow, InPom, InPredicate, InJoin, Loops
<1>a. /\ at["graph"] < Len(GraphMaps)
      /\ CursorsInRange
      /\ \A l \in Loops : at[l] \in Nat
  BY DEF IInv, TypeOK, SkipGraph
<1>b. Len(GraphMaps) \in Nat
  BY <1>2, <1>3, <1>a, ScopeFacts, MapLengths, PomLengths, ConcatFacts DEF Loops
<1>4. CursorsInRange'
  BY <1>1, <1>2, <1>3, <1>a, <1>b DEF CursorsInRange, Loops
<1>5. emitted' \in BOOLEAN
  BY DEF IInv, TypeOK, SkipGraph
<1>6. DOMAIN sbuf' = DOMAIN mapping'
  BY DEF IInv, TypeOK, SkipGraph, Refilled
<1>7. TypeOK'
  BY <1>1, <1>4, <1>5, <1>6 DEF IInv, TypeOK, SkipGraph, Loops, Stopped
<1>8. NodesAreCurrent'
  <2>1. /\ TriplesMapValid(Map) /\ db[Map.table] \notin {SqlError, NoResult} /\ rows = db[Map.table]
        /\ subj = SubjectNode(Map, Row) /\ subj # Nothing
    BY <1>3 DEF IInv, NodesAreCurrent
  <2>2. /\ InPredicate => pred = NodeOf(Pom.preds[at["predicate"]], Row) /\ pred # Nothing
        /\ InJoin => /\ ObjectMap.rom /\ ParentResult = ParentRows(mapping, db, ObjectMap)
                     /\ IsSequence(ParentResult) /\ prows \in Seq(MatchingRows)
        /\ obj # Nothing
        /\ back = "class" => at["class"] > 0 /\ pred = ConstantIri(RdfType) /\ obj = ConstantIri(Map.classes[at["class"]])
        /\ back # "class" => at["object"] > 0 /\ obj \in ObjectNodes(mapping, db, ObjectMap, Row)
    BY <1>3 DEF IInv, NodesAreCurrent
  <2>3. MatchingRows' = MatchingRows
    BY <1>2 DEF MatchingRows
  <2>4. ~emitted' => \A i \in 1 .. at'["graph"] : NodeOf(GraphMaps'[i], Row') \in {Nothing, DefaultGraphNode}
    <3>1. emitted' = emitted /\ NodeOf(GraphMaps[at["graph"] + 1], Row) \in {Nothing, DefaultGraphNode}
      BY DEF SkipGraph
    <3>2. ~emitted => \A i \in 1 .. at["graph"] : NodeOf(GraphMaps[i], Row) \in {Nothing, DefaultGraphNode}
      BY <1>3 DEF IInv, NodesAreCurrent
    <3>3. \A i \in 1 .. at["graph"] + 1 : i \in 1 .. at["graph"] \/ i = at["graph"] + 1
      BY <1>a DEF Loops
    <3> QED
      BY <1>1, <1>2, <3>1, <3>2, <3>3
  <2> QED
    BY <1>1, <1>2, <1>3, <1>u, <2>1, <2>2, <2>3, <2>4 DEF NodesAreCurrent
<1> QED
  BY <1>7, <1>8 DEF IInv

LEMMA WriteNamedGraphIInv == ASSUME IInv, WriteNamedGraph PROVE IInv'
<1> USE DEF inputs, nodes
<1>0. at' \in [Loops -> Nat]
  BY DEF IInv, TypeOK, WriteNamedGraph, Loops
<1>1. /\ at' \in [Loops -> Nat]
      /\ at'["map"] = at["map"]
      /\ at'["row"] = at["row"]
      /\ at'["class"] = at["class"]
      /\ at'["pom"] = at["pom"]
      /\ at'["predicate"] = at["predicate"]
      /\ at'["object"] = at["object"]
      /\ at'["join"] = at["join"]
      /\ at'["parent"] = at["parent"]
      /\ at'["graph"] = at["graph"] + 1
  BY <1>0 DEF IInv, TypeOK, WriteNamedGraph, Loops
<1>u. /\ mapping' = mapping /\ db' = db /\ rows' = rows /\ prows' = prows
      /\ subj' = subj /\ pred' = pred /\ obj' = obj /\ pc' = pc /\ back' = back
  BY DEF WriteNamedGraph
<1>2. mapping' = mapping /\ db' = db /\ Map' = Map /\ rows' = rows /\ Row' = Row /\ subj' = subj /\ Pom' = Pom /\ pred' = pred /\ obj' = obj /\ prows' = prows
      /\ ObjectMap' = ObjectMap /\ ParentResult' = ParentResult /\ GraphMaps' = GraphMaps
  BY <1>1, <1>u DEF Map, Row, Pom, ObjectMap, ParentResult, GraphMaps
<1>3. /\ InMap' = InMap /\ InRow' = InRow /\ InPom' = InPom /\ InPredicate' = InPredicate /\ InJoin' = InJoin
      /\ InMap /\ InRow /\ pc = "graph" /\ pc' = "graph" /\ back' = back
  BY DEF WriteNamedGraph, InMap, InRow, InPom, InPredicate, InJoin, Loops
<1>a. /\ at["graph"] < Len(GraphMaps)
      /\ CursorsInRange
      /\ \A l \in Loops : at[l] \in Nat
  BY DEF IInv, TypeOK, WriteNamedGraph
<1>b. Len(GraphMaps) \in Nat
  BY <1>2, <1>3, <1>a, ScopeFacts, MapLengths, PomLengths, ConcatFacts DEF Loops
<1>4. CursorsInRange'
  BY <1>1, <1>2, <1>3, <1>a, <1>b DEF CursorsInRange, Loops
<1>5. emitted' \in BOOLEAN
  BY DEF IInv, TypeOK, WriteNamedGraph
<1>6. DOMAIN sbuf' = DOMAIN mapping'
  BY DEF IInv, TypeOK, WriteNamedGraph, Refilled
<1>7. TypeOK'
  BY <1>1, <1>4, <1>5, <1>6 DEF IInv, TypeOK, WriteNamedGraph, Loops, Stopped
<1>8. NodesAreCurrent'
  <2>1. /\ TriplesMapValid(Map) /\ db[Map.table] \notin {SqlError, NoResult} /\ rows = db[Map.table]
        /\ subj = SubjectNode(Map, Row) /\ subj # Nothing
    BY <1>3 DEF IInv, NodesAreCurrent
  <2>2. /\ InPredicate => pred = NodeOf(Pom.preds[at["predicate"]], Row) /\ pred # Nothing
        /\ InJoin => /\ ObjectMap.rom /\ ParentResult = ParentRows(mapping, db, ObjectMap)
                     /\ IsSequence(ParentResult) /\ prows \in Seq(MatchingRows)
        /\ obj # Nothing
        /\ back = "class" => at["class"] > 0 /\ pred = ConstantIri(RdfType) /\ obj = ConstantIri(Map.classes[at["class"]])
        /\ back # "class" => at["object"] > 0 /\ obj \in ObjectNodes(mapping, db, ObjectMap, Row)
    BY <1>3 DEF IInv, NodesAreCurrent
  <2>3. MatchingRows' = MatchingRows
    BY <1>2 DEF MatchingRows
  <2>4. ~emitted' => \A i \in 1 .. at'["graph"] : NodeOf(GraphMaps'[i], Row') \in {Nothing, DefaultGraphNode}
    BY DEF WriteNamedGraph
  <2> QED
    BY <1>1, <1>2, <1>3, <1>u, <2>1, <2>2, <2>3, <2>4 DEF NodesAreCurrent
<1> QED
  BY <1>7, <1>8 DEF IInv

LEMMA GraphsExhaustedIInv == ASSUME IInv, GraphsExhausted PROVE IInv'
<1> USE DEF inputs, nodes
<1>1. Map' = Map \/ ~InMap
  BY DEF GraphsExhausted, Map, InMap
<1>2. TypeOK'
  <2>1. at' \in [Loops -> Nat]
    BY DEF IInv, TypeOK, GraphsExhausted, Loops
  <2>2. emitted' \in BOOLEAN
    BY DEF IInv, TypeOK, GraphsExhausted
  <2>3. CursorsInRange'
    BY ScopeFacts
    DEF IInv, TypeOK, CursorsInRange, GraphsExhausted, InMap, InRow, InPom, InPredicate,
        InJoin, Loops, Map, Pom, ParentResult, GraphMaps, ObjectMap
  <2>4. DOMAIN sbuf' = DOMAIN mapping'
    BY DEF IInv, TypeOK, GraphsExhausted, Refilled
  <2> QED
    BY <2>1, <2>2, <2>3, <2>4 DEF IInv, TypeOK, GraphsExhausted, Loops, Stopped
<1>4. /\ mapping' = mapping /\ db' = db /\ rows' = rows /\ prows' = prows /\ at' = at
      /\ subj' = subj /\ pred' = pred /\ obj' = obj /\ back' = back /\ pc' = back
  BY DEF GraphsExhausted
<1>5. /\ Map' = Map /\ Row' = Row /\ Pom' = Pom /\ ObjectMap' = ObjectMap
      /\ ParentResult' = ParentResult
  BY <1>4 DEF Map, Row, Pom, ObjectMap, ParentResult
<1>6. MatchingRows' = MatchingRows
  BY <1>5 DEF MatchingRows
<1>7. /\ InMap /\ InRow /\ pc' # "graph"
      /\ InMap' = InMap /\ InRow' = InRow
      /\ InPom' = InPom /\ InPredicate' = InPredicate /\ InJoin' = InJoin
  BY <1>4
  DEF GraphsExhausted, IInv, TypeOK, InMap, InRow, InPom, InPredicate, InJoin, Loops
<1>3. NodesAreCurrent'
  BY <1>4, <1>5, <1>6, <1>7 DEF IInv, NodesAreCurrent
<1> QED
  BY <1>2, <1>3 DEF IInv

LEMMA WriteFailsIInv == ASSUME IInv, WriteFails PROVE IInv'
<1> USE DEF inputs, nodes
<1>1. Map' = Map \/ ~InMap
  BY DEF WriteFails, Map, InMap
<1>2. TypeOK'
  <2>1. at' \in [Loops -> Nat]
    BY DEF IInv, TypeOK, WriteFails, Loops
  <2>2. emitted' \in BOOLEAN
    BY DEF IInv, TypeOK, WriteFails
  <2>3. CursorsInRange'
    BY ScopeFacts
    DEF IInv, TypeOK, CursorsInRange, WriteFails, InMap, InRow, InPom, InPredicate,
        InJoin, Loops, Map, Pom, ParentResult, GraphMaps, ObjectMap
  <2>4. DOMAIN sbuf' = DOMAIN mapping'
    BY DEF IInv, TypeOK, WriteFails, Refilled
  <2> QED
    BY <2>1, <2>2, <2>3, <2>4 DEF IInv, TypeOK, WriteFails, Loops, Stopped
<1>3. NodesAreCurrent'
  BY ScopeFacts
  DEF IInv, TypeOK, NodesAreCurrent, WriteFails, InMap, InRow, InPom, InPredicate, InJoin,
      Loops, Map, Pom, Row, ParentResult, GraphMaps, ObjectMap, MatchingRows
<1> QED
  BY <1>2, <1>3 DEF IInv

LEMMA StutterIInv == ASSUME IInv, UNCHANGED vars PROVE IInv'
<1>1. /\ Map' = Map /\ Row' = Row /\ Pom' = Pom /\ ObjectMap' = ObjectMap
      /\ ParentResult' = ParentResult /\ GraphMaps' = GraphMaps
  BY DEF vars, Map, Row, Pom, ObjectMap, ParentResult, GraphMaps
<1>2. /\ InMap' = InMap /\ InRow' = InRow /\ InPom' = InPom
      /\ InPredicate' = InPredicate /\ InJoin' = InJoin
  BY DEF vars, InMap, InRow, InPom, InPredicate, InJoin
<1>3. MatchingRows' = MatchingRows
  BY <1>1 DEF MatchingRows
<1>4. emitted' \in BOOLEAN
  BY DEF vars, IInv, TypeOK
<1>5. CursorsInRange'
  BY <1>1, <1>2 DEF vars, IInv, TypeOK, CursorsInRange
<1>6. TypeOK'
  BY <1>4, <1>5 DEF vars, IInv, TypeOK
<1>7. NodesAreCurrent'
  BY <1>1, <1>2, <1>3 DEF vars, IInv, NodesAreCurrent
<1> QED
  BY <1>6, <1>7 DEF IInv

LEMMA NextIInv == ASSUME IInv, [Next]_vars PROVE IInv'
<1>1. CASE UNCHANGED vars
  BY <1>1, StutterIInv
<1>2. CASE Next
  BY <1>2, NextMapIInv, AllMapsDoneIInv, NextRowIInv, RowsExhaustedIInv, NextClassIInv,
     ClassesExhaustedIInv,
     NextPomIInv, PomsExhaustedIInv, NextPredicateIInv, PredicatesExhaustedIInv,
     NextRegularObjectIInv, NextReferencingObjectIInv, ObjectsExhaustedIInv, TestParentRowIInv, JoinCollectedIInv,
     NextParentRowIInv, ParentRowsExhaustedIInv, SkipGraphIInv, WriteNamedGraphIInv, GraphsExhaustedIInv, WriteFailsIInv
  DEF Next
<1> QED
  BY <1>1, <1>2

(* The cursors of the loops are always in range: for every mapping and     *)
(* every database, no loop reads past the end of its vector and a loop is  *)
(* only ever entered with a row, a predicate and an object map at hand.    *)
THEOREM TypeCorrect == Spec => []TypeOK
<1>1. Init => IInv
  BY InitIInv
<1>2. IInv /\ [Next]_vars => IInv'
  BY NextIInv
<1>3. IInv => TypeOK
  BY DEF IInv
<1> QED
  BY <1>1, <1>2, <1>3, PTL DEF Spec

(* Subject, predicate, joined rows and object always belong to the row and *)
(* the maps that the cursors select, in every run of every mapping.        *)
THEOREM NodesCurrent == Spec => []NodesAreCurrent
<1>1. Init => IInv
  BY InitIInv
<1>2. IInv /\ [Next]_vars => IInv'
  BY NextIInv
<1>3. IInv => NodesAreCurrent
  BY DEF IInv
<1> QED
  BY <1>1, <1>2, <1>3, PTL DEF Spec

-----------------------------------------------------------------------------
(***************************************************************************)
(* The subject node survives the joins of its row: only the evaluation of  *)
(* the subject map it came from touches its buffer, and that happens when  *)
(* a row is started or when a triples map refers to itself.                *)
(***************************************************************************)
LEMMA IntactIfUntouched ==
  ASSUME IInv, SubjectIntact,
         mapping' = mapping, at'["map"] = at["map"], at'["row"] = at["row"],
         rows' = rows, subj' = subj,
         HasBuffer(Map.subject) => sbuf'[at["map"]] = sbuf[at["map"]],
         InRow' => InRow
  PROVE  SubjectIntact'
<1>1. Map' = Map /\ Row' = Row
  BY DEF Map, Row
<1>2. SubjectBytes' = SubjectBytes
  BY <1>1 DEF SubjectBytes
<1> QED
  BY <1>1, <1>2 DEF SubjectIntact

LEMMA NextRowIntact == ASSUME IInv, NextRow PROVE SubjectIntact'
<1> SUFFICES ASSUME InRow' PROVE SubjectBytes' = SubjectNode(Map', Row').lex
  BY DEF SubjectIntact
<1> DEFINE row == rows[at["row"] + 1]
<1>1. /\ mapping' = mapping /\ rows' = rows /\ subj' = SubjectNode(Map, row) /\ subj' # Nothing
      /\ sbuf' = Refilled(at["map"], row) /\ InMap
  BY DEF NextRow, InRow, InMap, inputs, Loops
<1>2. at'["map"] = at["map"] /\ at'["row"] = at["row"] + 1
  BY DEF NextRow, IInv, TypeOK, Loops
<1>3. Map' = Map /\ Row' = row
  BY <1>1, <1>2 DEF Map, Row
<1>4. subj' = NodeOf(Map.subject, row) /\ ~YieldsNothing(Map.subject, row)
  BY <1>1 DEF SubjectNode, NodeOf
<1>5. subj'.lex = Expansion(Map.subject, row)
  BY <1>4 DEF NodeOf
<1>6. CASE HasBuffer(Map.subject)
  <2>1. Rewrites(Map.subject, row) /\ Content(Map.subject, row) = Expansion(Map.subject, row)
    BY <1>4, <1>6 DEF Rewrites, Content
  <2>2. sbuf' = [sbuf EXCEPT ![at["map"]] = Expansion(Map.subject, row)]
    BY <1>1, <2>1 DEF Refilled, Map
  <2>3. at["map"] \in DOMAIN sbuf
    BY <1>1, ScopeFacts DEF IInv, TypeOK
  <2>4. sbuf'[at["map"]] = Expansion(Map.subject, row)
    BY <2>2, <2>3
  <2> QED
    BY <1>1, <1>2, <1>3, <1>5, <1>6, <2>4 DEF SubjectBytes
<1>7. CASE ~HasBuffer(Map.subject)
  BY <1>1, <1>3, <1>7 DEF SubjectBytes
<1> QED
  BY <1>6, <1>7

LEMMA NextParentRowIntact ==
  ASSUME IInv, SubjectIntact, NextParentRow, \A mp \in Mappings : NoSelfReference(mp)
  PROVE  SubjectIntact'
<1>1. /\ mapping' = mapping /\ rows' = rows /\ subj' = subj /\ pc = "parent"
      /\ \E bytes : sbuf' = [sbuf EXCEPT ![ObjectMap.parent] = bytes]
  BY DEF NextParentRow, inputs
<1>2. at'["map"] = at["map"] /\ at'["row"] = at["row"]
  BY DEF NextParentRow, IInv, TypeOK, Loops
<1>3. InMap /\ InRow /\ InPom /\ InPredicate /\ InJoin
  BY <1>1 DEF InMap, InRow, InPom, InPredicate, InJoin, Loops
<1>4. HasBuffer(Map.subject) => ObjectMap.parent # at["map"]
  <2>1. at["map"] \in DOMAIN mapping /\ mapping \in Mappings
    BY <1>3, ScopeFacts DEF IInv, TypeOK
  <2>2. at["pom"] \in DOMAIN Map.poms
    BY <1>3, ScopeFacts, MapLengths, SMTT(30) DEF IInv, TypeOK, CursorsInRange, Loops
  <2>3. at["object"] \in DOMAIN Pom.objs
    BY <1>3, ScopeFacts, PomLengths DEF IInv, TypeOK, CursorsInRange, Loops
  <2>4. ObjectMap.rom
    BY <1>3 DEF IInv, NodesAreCurrent
  <2> QED
    BY <2>1, <2>2, <2>3, <2>4 DEF NoSelfReference, ObjectMap, Pom, Map
<1>5. HasBuffer(Map.subject) => sbuf'[at["map"]] = sbuf[at["map"]]
  <2>1. at["map"] \in DOMAIN sbuf
    BY <1>3, ScopeFacts DEF IInv, TypeOK
  <2> QED
    BY <1>1, <1>4, <2>1
<1> QED
  BY <1>1, <1>2, <1>3, <1>5, IntactIfUntouched

(* Every other action leaves the subject node and the buffers alone.       *)
QuietAction ==
  \/ RowsExhausted \/ NextClass \/ ClassesExhausted \/ NextPom
  \/ PomsExhausted \/ NextPredicate \/ PredicatesExhausted \/ NextRegularObject
  \/ ObjectsExhausted \/ TestParentRow \/ JoinCollected \/ ParentRowsExhausted
  \/ SkipGraph \/ WriteNamedGraph \/ GraphsExhausted \/ WriteFails

LEMMA QuietIntact == ASSUME IInv, SubjectIntact, QuietAction PROVE SubjectIntact'
<1>1. /\ mapping' = mapping /\ rows' = rows /\ subj' = subj /\ sbuf' = sbuf
      /\ at'["map"] = at["map"] /\ at'["row"] = at["row"]
  <2> USE DEF IInv, TypeOK, Loops, inputs, nodes
  <2>1. CASE RowsExhausted
    BY <2>1 DEF RowsExhausted
  <2>2. CASE NextClass
    BY <2>2 DEF NextClass
  <2>3. CASE ClassesExhausted
    BY <2>3 DEF ClassesExhausted
  <2>4. CASE NextPom
    BY <2>4 DEF NextPom
  <2>5. CASE PomsExhausted
    BY <2>5 DEF PomsExhausted
  <2>6. CASE NextPredicate
    BY <2>6 DEF NextPredicate
  <2>7. CASE PredicatesExhausted
    BY <2>7 DEF PredicatesExhausted
  <2>8. CASE NextRegularObject
    BY <2>8 DEF NextRegularObject
  <2>9. CASE ObjectsExhausted
    BY <2>9 DEF ObjectsExhausted
  <2>10. CASE TestParentRow
    BY <2>10 DEF TestParentRow
  <2>11. CASE JoinCollected
    BY <2>11 DEF JoinCollected
  <2>12. CASE ParentRowsExhausted
    BY <2>12 DEF ParentRowsExhausted
  <2>13. CASE SkipGraph
    BY <2>13 DEF SkipGraph
  <2>14. CASE WriteNamedGraph
    BY <2>14 DEF WriteNamedGraph
  <2>15. CASE GraphsExhausted
    BY <2>15 DEF GraphsExhausted
  <2>16. CASE WriteFails
    BY <2>16 DEF WriteFails
  <2> QED
    BY <2>1, <2>2, <2>3, <2>4, <2>5, <2>6, <2>7, <2>8, <2>9, <2>10, <2>11, <2>12, <2>13,
       <2>14, <2>15, <2>16
    DEF QuietAction
<1>2. InRow' => InRow
  <2> USE DEF InRow, Loops
  <2>1. CASE RowsExhausted
    BY <2>1 DEF RowsExhausted
  <2>2. CASE NextClass
    BY <2>2 DEF NextClass
  <2>3. CASE ClassesExhausted
    BY <2>3 DEF ClassesExhausted
  <2>4. CASE NextPom
    BY <2>4 DEF NextPom
  <2>5. CASE PomsExhausted
    BY <2>5 DEF PomsExhausted
  <2>6. CASE NextPredicate
    BY <2>6 DEF NextPredicate
  <2>7. CASE PredicatesExhausted
    BY <2>7 DEF PredicatesExhausted
  <2>8. CASE NextRegularObject
    BY <2>8 DEF NextRegularObject
  <2>9. CASE ObjectsExhausted
    BY <2>9 DEF ObjectsExhausted
  <2>10. CASE TestParentRow
    BY <2>10 DEF TestParentRow
  <2>11. CASE JoinCollected
    BY <2>11 DEF JoinCollected
  <2>12. CASE ParentRowsExhausted
    BY <2>12 DEF ParentRowsExhausted
  <2>13. CASE SkipGraph
    BY <2>13 DEF SkipGraph
  <2>14. CASE WriteNamedGraph
    BY <2>14 DEF WriteNamedGraph
  <2>15. CASE GraphsExhausted
    BY <2>15 DEF GraphsExhausted
  <2>16. CASE WriteFails
    BY <2>16 DEF WriteFails
  <2> QED
    BY <2>1, <2>2, <2>3, <2>4, <2>5, <2>6, <2>7, <2>8, <2>9, <2>10, <2>11, <2>12, <2>13,
       <2>14, <2>15, <2>16
    DEF QuietAction
<1> QED
  BY <1>1, <1>2, IntactIfUntouched

LEMMA NextIntact ==
  ASSUME IInv, SubjectIntact, [Next]_vars, \A mp \in Mappings : NoSelfReference(mp)
  PROVE  SubjectIntact'
<1>1. CASE UNCHANGED vars
  BY <1>1, IntactIfUntouched DEF vars, InRow
<1>2. CASE NextMap \/ AllMapsDone \/ NextReferencingObject
  <2>1. CASE NextMap \/ AllMapsDone
    BY <2>1 DEF NextMap, AllMapsDone, SubjectIntact, InRow, Loops
  <2>2. CASE NextReferencingObject
    <3>1. /\ mapping' = mapping /\ rows' = rows /\ subj' = subj /\ sbuf' = sbuf
          /\ at'["map"] = at["map"] /\ at'["row"] = at["row"] /\ InRow
      BY <2>2 DEF NextReferencingObject, inputs, nodes, IInv, TypeOK, Loops, InRow
    <3> QED
      BY <3>1, IntactIfUntouched
  <2> QED
    BY <1>2, <2>1, <2>2
<1>3. CASE NextRow
  BY <1>3, NextRowIntact
<1>4. CASE NextParentRow
  BY <1>4, NextParentRowIntact
<1>5. CASE QuietAction
  BY <1>5, QuietIntact
<1> QED
  BY <1>1, <1>2, <1>3, <1>4, <1>5 DEF Next, QuietAction

(* The subject of a row is what gets written for as long as the row lasts, *)
(* provided that no triples map refers to itself from an object map while  *)
(* its subject lives in a buffer.                                          *)
THEOREM SubjectStaysIntact ==
  ASSUME \A mp \in Mappings : NoSelfReference(mp)
  PROVE  Spec => []SubjectIntact
<1>1. Init => IInv /\ SubjectIntact
  BY InitIInv DEF Init, SubjectIntact, InRow
<1>2. IInv /\ SubjectIntact /\ [Next]_vars => (IInv /\ SubjectIntact)'
  BY NextIInv, NextIntact
<1> QED
  BY <1>1, <1>2, PTL DEF Spec

-----------------------------------------------------------------------------
(***************************************************************************)
(* Every quad written is one that the mapping denotes.                     *)
(***************************************************************************)
LEMMA NamedGraphs ==
  ASSUME NEW gms, NEW row, NEW i \in DOMAIN gms,
         NodeOf(gms[i], row) \notin {Nothing, DefaultGraphNode}
  PROVE  NodeOf(gms[i], row) \in GraphsOf(gms, row)
BY DEF GraphsOf

LEMMA OnlyDefaultGraph ==
  ASSUME NEW gms, NEW row,
         \A i \in DOMAIN gms : NodeOf(gms[i], row) \in {Nothing, DefaultGraphNode}
  PROVE  DefaultGraphNode \in GraphsOf(gms, row)
BY DEF GraphsOf

(* The statement written for the triple at hand is a quad of its row.      *)
LEMMA StatementOfRow ==
  ASSUME IInv, SubjectIntact, pc = "graph", NEW g \in GraphsOf(GraphMaps, Row)
  PROVE  /\ [subj EXCEPT !.lex = SubjectBytes] = subj
         /\ [s |-> subj, p |-> pred, o |-> obj, g |-> g] \in RowQuads(mapping, db, Map, Row)
<1> DEFINE quad == [s |-> subj, p |-> pred, o |-> obj, g |-> g]
<1>1. InMap /\ InRow /\ (back # "class" => InPom /\ InPredicate)
  BY DEF InMap, InRow, InPom, InPredicate, Loops
<1>2. /\ TriplesMapValid(Map) /\ rows = RowsOf(db, Map)
      /\ subj = SubjectNode(Map, Row) /\ subj # Nothing /\ obj # Nothing
  BY <1>1 DEF IInv, NodesAreCurrent, RowsOf
<1>3. [subj EXCEPT !.lex = SubjectBytes] = subj
  <2>1. SubjectBytes = subj.lex
    BY <1>1, <1>2 DEF SubjectIntact
  <2>2. subj = NodeOf(Map.subject, Row)
    BY <1>2 DEF SubjectNode
  <2>3. subj = [type |-> Map.subject.type, lex |-> Expansion(Map.subject, Row), tag |-> NoTag]
    BY <1>2, <2>2 DEF NodeOf
  <2> QED
    BY <2>1, <2>3
<1>4. quad \in RowQuads(mapping, db, Map, Row)
  <2>1. CASE back = "class"
    <3>1. at["class"] \in DOMAIN Map.classes /\ GraphMaps = Map.graphs
      BY <1>1, <2>1, ScopeFacts, MapLengths
      DEF IInv, TypeOK, CursorsInRange, NodesAreCurrent, Loops, GraphMaps
    <3>2. pred = ConstantIri(RdfType) /\ obj = ConstantIri(Map.classes[at["class"]])
      BY <2>1 DEF IInv, NodesAreCurrent
    <3>3. quad \in ClassQuads(Map, Row)
      BY <1>2, <3>1, <3>2 DEF ClassQuads, Quads
    <3> QED
      BY <1>2, <3>3 DEF RowQuads
  <2>2. CASE back # "class"
    <3>1. /\ at["pom"] \in DOMAIN Map.poms /\ at["predicate"] \in DOMAIN Pom.preds
          /\ at["object"] \in DOMAIN Pom.objs
      <4>1. /\ at["pom"] \in 1 .. Len(Map.poms) /\ at["predicate"] \in 1 .. Len(Pom.preds)
            /\ at["object"] \in 1 .. Len(Pom.objs)
        BY <1>1, <2>2, ScopeFacts, SMTT(30) DEF IInv, TypeOK, CursorsInRange, NodesAreCurrent, Loops
      <4>2. MapWellFormed(mapping, Map) /\ PomWellFormed(mapping, Pom)
        BY <1>1, <2>2, ScopeFacts
      <4> QED
        BY <4>1, <4>2, MapLengths, PomLengths
    <3>2. /\ pred = NodeOf(Pom.preds[at["predicate"]], Row) /\ pred # Nothing
          /\ obj \in ObjectNodes(mapping, db, ObjectMap, Row)
          /\ GraphMaps = Map.graphs \o Pom.graphs
      BY <1>1, <2>2 DEF IInv, NodesAreCurrent, GraphMaps
    <3>3. quad \in PairQuads(mapping, db, Map, Row, Pom, at["predicate"], at["object"])
      BY <1>2, <3>2 DEF PairQuads, Quads, ObjectMap
    <3>4. quad \in PomQuads(mapping, db, Map, Row, Pom)
      BY <3>1, <3>3 DEF PomQuads
    <3> QED
      BY <1>2, <3>1, <3>4 DEF RowQuads, Pom
  <2> QED
    BY <2>1, <2>2
<1> QED
  BY <1>3, <1>4

LEMMA StatementDenoted ==
  ASSUME IInv, SubjectIntact, pc = "graph", NEW g \in GraphsOf(GraphMaps, Row)
  PROVE  [s |-> [subj EXCEPT !.lex = SubjectBytes], p |-> pred, o |-> obj, g |-> g]
           \in Denotation(mapping, db)
<1> DEFINE quad == [s |-> subj, p |-> pred, o |-> obj, g |-> g]
<1>1. InMap /\ InRow
  BY DEF InMap, InRow, Loops
<1>2. rows = RowsOf(db, Map)
  BY <1>1 DEF IInv, NodesAreCurrent, RowsOf
<1>3. [subj EXCEPT !.lex = SubjectBytes] = subj /\ quad \in RowQuads(mapping, db, Map, Row)
  BY StatementOfRow
<1>4. at["row"] \in DOMAIN RowsOf(db, Map) /\ at["map"] \in DOMAIN mapping
  BY <1>1, <1>2, ScopeFacts DEF IInv, TypeOK, CursorsInRange, Loops
<1>5. quad \in MapQuads(mapping, db, at["map"])
  BY <1>2, <1>3, <1>4 DEF MapQuads, Map, Row
<1> QED
  BY <1>3, <1>4, <1>5 DEF Denotation

LEMMA NextDenoted ==
  ASSUME IInv, SubjectIntact, WrittenIsDenoted, [Next]_vars
  PROVE  WrittenIsDenoted'
<1>1. mapping' = mapping /\ db' = db
  BY DEF Next, vars, inputs, NextMap, AllMapsDone, NextRow, NextParentRow,
         NextReferencingObject, RowsExhausted, NextClass, ClassesExhausted, NextPom,
         PomsExhausted, NextPredicate, PredicatesExhausted, NextRegularObject,
         ObjectsExhausted, TestParentRow, JoinCollected, ParentRowsExhausted, SkipGraph,
         WriteNamedGraph, GraphsExhausted, WriteFails
<1>2. CASE written' = written
  BY <1>1, <1>2 DEF WrittenIsDenoted
<1>3. CASE WriteNamedGraph
  <2>1. at["graph"] + 1 \in DOMAIN GraphMaps /\ pc = "graph"
    BY <1>3, ScopeFacts DEF WriteNamedGraph, IInv, TypeOK, Loops
  <2>2. NodeOf(GraphMaps[at["graph"] + 1], Row) \in GraphsOf(GraphMaps, Row)
    BY <1>3, <2>1, NamedGraphs DEF WriteNamedGraph
  <2> QED
    BY <1>1, <1>3, <2>1, <2>2, StatementDenoted
    DEF WriteNamedGraph, WriteStatement, WrittenIsDenoted
<1>4. CASE GraphsExhausted /\ ~emitted
  <2>1. \A i \in DOMAIN GraphMaps : NodeOf(GraphMaps[i], Row) \in {Nothing, DefaultGraphNode}
    BY <1>4, ScopeFacts DEF GraphsExhausted, IInv, NodesAreCurrent
  <2>2. DefaultGraphNode \in GraphsOf(GraphMaps, Row)
    BY <2>1, OnlyDefaultGraph
  <2> QED
    BY <1>1, <1>4, <2>2, StatementDenoted
    DEF GraphsExhausted, WriteStatement, WrittenIsDenoted
<1>5. written' = written \/ WriteNamedGraph \/ (GraphsExhausted /\ ~emitted)
  BY DEF Next, vars, inputs, NextMap, AllMapsDone, NextRow, NextParentRow,
         NextReferencingObject, RowsExhausted, NextClass, ClassesExhausted, NextPom,
         PomsExhausted, NextPredicate, PredicatesExhausted, NextRegularObject,
         ObjectsExhausted, TestParentRow, JoinCollected, ParentRowsExhausted, SkipGraph,
         GraphsExhausted, WriteFails
<1> QED
  BY <1>2, <1>3, <1>4, <1>5

(* Nothing but the dataset that the mapping denotes is ever written, under *)
(* the same condition on self references.                                  *)
THEOREM OnlyDenotedQuads ==
  ASSUME \A mp \in Mappings : NoSelfReference(mp)
  PROVE  Spec => []WrittenIsDenoted
<1>1. Init => IInv /\ SubjectIntact /\ WrittenIsDenoted
  BY InitIInv DEF Init, SubjectIntact, InRow, WrittenIsDenoted
<1>2. IInv /\ SubjectIntact /\ WrittenIsDenoted /\ [Next]_vars
        => (IInv /\ SubjectIntact /\ WrittenIsDenoted)'
  BY NextIInv, NextIntact, NextDenoted
<1> QED
  BY <1>1, <1>2, PTL DEF Spec

-----------------------------------------------------------------------------
(***************************************************************************)
(* That the output of processDatabase is a prefix of the dataset, and that *)
(* ProcessDatabase implements RdfDump.  The theorems above show that what  *)
(* is written is denoted; what is missing is that everything denoted gets  *)
(* written, for which the invariant below says what each loop leaves       *)
(* behind.                                                                 *)
(***************************************************************************)

(* How many elements a loop is through with: the one that its cursor       *)
(* selects is not finished while control is inside it.                     *)
Through(loop, inside) == IF inside THEN at[loop] - 1 ELSE at[loop]

InClass  == pc = "graph" /\ back = "class"
InObject == pc \in {"join", "parent", "graph"}

(* The quads of one class, of one pair of a predicate and an object map    *)
(* and of one joined row.                                                  *)
QuadsOfClass(c) ==
  Quads(SubjectNode(Map, Row), ConstantIri(RdfType), ConstantIri(Map.classes[c]),
        GraphsOf(Map.graphs, Row))

QuadsOfPair(q, j) == PairQuads(mapping, db, Map, Row, Pom, q, j)

QuadsOfParent(k) ==
  LET o == SubjectNode(mapping[ObjectMap.parent], prows[k])
  IN  IF o = Nothing THEN {} ELSE Quads(subj, pred, o, GraphsOf(Map.graphs \o Pom.graphs, Row))

Named(i) == NodeOf(GraphMaps[i], Row) \notin {Nothing, DefaultGraphNode}

-----------------------------------------------------------------------------
MapsWritten == \A m \in 1 .. at["map"] - 1 : MapQuads(mapping, db, m) \subseteq written

RowsWritten ==
  /\ \A r \in FinishedRows : QuadsOfRow(r) \subseteq written
  /\ pc \in {"map", "done"} /\ at["map"] > 0 => at["row"] = Len(RowsOf(db, Map))

ClassesWritten == InRow =>
  /\ \A c \in 1 .. Through("class", InClass) : QuadsOfClass(c) \subseteq written
  /\ pc = "class" \/ InClass \/ at["class"] = Len(Map.classes)

PomsWritten == InRow =>
  \A p \in 1 .. Through("pom", InPom) : PomQuads(mapping, db, Map, Row, Map.poms[p]) \subseteq written

PredicatesWritten == InPom =>
  \A q \in 1 .. Through("predicate", InPredicate) :
    \A j \in DOMAIN Pom.objs : QuadsOfPair(q, j) \subseteq written

ObjectsWritten == InPredicate =>
  \A j \in 1 .. Through("object", InObject) : QuadsOfPair(at["predicate"], j) \subseteq written

(* getJoinedRows has kept every matching row among those it has tested.    *)
RowsJoined == InJoin =>
  \A i \in DOMAIN ParentResult :
    /\ pc = "join" => i <= at["join"]
    /\ Joins(ObjectMap.joins, Row, ParentResult[i])
    => \E k \in DOMAIN prows : prows[k] = ParentResult[i]

ParentsWritten == InJoin /\ pc # "join" =>
  \A k \in 1 .. Through("parent", pc = "graph") : QuadsOfParent(k) \subseteq written

(* The object at hand is that of the object map or of the joined row that  *)
(* the cursors select.                                                     *)
ObjectIsCurrent ==
  /\ pc = "graph" /\ back = "object" => /\ ~ObjectMap.rom
                                        /\ obj = ObjectNode(ObjectMap.map, Row)
  /\ pc = "graph" /\ back = "parent" => /\ at["parent"] > 0
                                        /\ obj = SubjectNode(mapping[ObjectMap.parent], prows[at["parent"]])

GraphsWritten == pc = "graph" =>
  /\ \A i \in 1 .. at["graph"] : Named(i) =>
       [s |-> subj, p |-> pred, o |-> obj, g |-> NodeOf(GraphMaps[i], Row)] \in written
  /\ emitted => \E i \in 1 .. at["graph"] : Named(i)

(* Nothing is written ahead of its turn.                                   *)
Earlier  == UNION { MapQuads(mapping, db, m) : m \in 1 .. at["map"] - 1 }
Finished == UNION { QuadsOfRow(r) : r \in FinishedRows }
Current  == IF InRow \/ (pc = "failed" /\ at["row"] > 0) THEN QuadsOfRow(at["row"]) ELSE {}

NothingAhead == written \subseteq Earlier \cup Finished \cup Current

OuterWritten == MapsWritten /\ RowsWritten /\ NothingAhead

InnerWritten ==
  /\ ClassesWritten /\ PomsWritten /\ PredicatesWritten /\ ObjectsWritten
  /\ RowsJoined /\ ParentsWritten
  /\ ObjectIsCurrent /\ GraphsWritten

PInv == IInv /\ SubjectIntact /\ WrittenIsDenoted /\ OuterWritten /\ InnerWritten

-----------------------------------------------------------------------------
(***************************************************************************)
(* What a step keeps that moves no cursor of a loop but those inside it.   *)
(***************************************************************************)
SameRow ==
  /\ mapping' = mapping /\ db' = db /\ rows' = rows /\ subj' = subj
  /\ at' \in [Loops -> Nat] /\ at'["map"] = at["map"] /\ at'["row"] = at["row"]
  /\ InRow /\ (InRow' \/ pc' = "failed")
  /\ written \subseteq written'

SamePom == SameRow /\ InPom /\ at'["pom"] = at["pom"]

SamePredicate ==
  /\ SamePom /\ InPredicate
  /\ pred' = pred /\ at'["predicate"] = at["predicate"]

SameJoin ==
  /\ SamePredicate /\ InJoin
  /\ prows' = prows /\ at'["object"] = at["object"]

LEMMA ScopesKept ==
  /\ SameRow => Map' = Map /\ Row' = Row
  /\ SamePom => Pom' = Pom
  /\ SameJoin => ObjectMap' = ObjectMap /\ ParentResult' = ParentResult
<1>1. SameRow => Map' = Map /\ Row' = Row
  BY DEF SameRow, Map, Row
<1>2. SamePom => Pom' = Pom
  BY <1>1 DEF SamePom, SameRow, Pom
<1>3. SameJoin => ObjectMap' = ObjectMap /\ ParentResult' = ParentResult
  BY <1>2 DEF SameJoin, SamePredicate, SamePom, SameRow, ObjectMap, ParentResult
<1> QED
  BY <1>1, <1>2, <1>3

(* Inside a triples map, its rows are those that the dataset ranges over.  *)
LEMMA RowsAreRowsOf ==
  ASSUME IInv, InMap
  PROVE  /\ rows = RowsOf(db, Map) /\ DOMAIN rows = 1 .. Len(rows) /\ Len(rows) \in Nat
         /\ Row = RowsOf(db, Map)[at["row"]]
<1>1. rows = RowsOf(db, Map)
  BY DEF IInv, NodesAreCurrent, RowsOf
<1> QED
  BY <1>1, ScopeFacts DEF Row

LEMMA InsideRow ==
  ASSUME IInv, InRow
  PROVE  /\ InMap /\ at["map"] > 0 /\ at["row"] > 0 /\ at["row"] \in DOMAIN RowsOf(db, Map)
         /\ at["map"] \in Nat /\ at["row"] \in Nat
         /\ QuadsOfRow(at["row"]) = RowQuads(mapping, db, Map, Row)
         /\ FinishedRows = { r \in DOMAIN RowsOf(db, Map) : r < at["row"] }
<1>1. InMap
  BY DEF InMap, InRow, Loops
<1>2. at["map"] > 0 /\ at["row"] > 0 /\ at["row"] <= Len(rows) /\ at["map"] \in Nat /\ at["row"] \in Nat
  BY <1>1 DEF IInv, TypeOK, CursorsInRange, Loops
<1>3. at["row"] \in DOMAIN RowsOf(db, Map) /\ QuadsOfRow(at["row"]) = RowQuads(mapping, db, Map, Row)
  BY <1>1, <1>2, RowsAreRowsOf DEF QuadsOfRow
<1>4. FinishedRows = { r \in DOMAIN RowsOf(db, Map) : r < at["row"] }
  BY <1>2 DEF FinishedRows, InRow, Loops
<1> QED
  BY <1>1, <1>2, <1>3, <1>4

LEMMA OuterKept ==
  ASSUME IInv, OuterWritten, SameRow,
         written' \subseteq written \cup RowQuads(mapping, db, Map, Row)
  PROVE  OuterWritten'
<1>1. Map' = Map /\ Row' = Row
  BY ScopesKept
<1>2. \A r : QuadsOfRow(r)' = QuadsOfRow(r)
  BY <1>1 DEF QuadsOfRow, SameRow
<1>3. FinishedRows' = FinishedRows
  <2>1. pc' \notin {"row", "map", "done"}
    BY DEF SameRow, InRow, Loops
  <2>2. FinishedRows' = { r \in DOMAIN RowsOf(db, Map) : r < at["row"] }
    BY <1>1, <2>1, InsideRow DEF FinishedRows, SameRow
  <2> QED
    BY <2>2, InsideRow DEF SameRow
<1>4. MapsWritten'
  BY DEF OuterWritten, MapsWritten, SameRow
<1>5. RowsWritten'
  <2>1. \A r \in FinishedRows : QuadsOfRow(r) \subseteq written
    BY DEF OuterWritten, RowsWritten
  <2>2. pc' \notin {"map", "done"}
    BY DEF SameRow, InRow, Loops
  <2> QED
    BY <1>2, <1>3, <2>1, <2>2 DEF RowsWritten, SameRow
<1>6. NothingAhead'
  <2>1. Earlier' = Earlier
    BY DEF Earlier, SameRow
  <2>2. Finished' = Finished
    BY <1>2, <1>3 DEF Finished
  <2>3. Current = RowQuads(mapping, db, Map, Row)
    BY InsideRow DEF Current, SameRow
  <2>4. Current' = QuadsOfRow(at["row"])'
    BY InsideRow DEF Current, SameRow
  <2>5. Current' = Current
    BY <1>2, <2>3, <2>4, InsideRow DEF QuadsOfRow, SameRow
  <2> QED
    BY <2>1, <2>2, <2>3, <2>5 DEF OuterWritten, NothingAhead
<1> QED
  BY <1>4, <1>5, <1>6 DEF OuterWritten

LEMMA ClassesKept ==
  ASSUME ClassesWritten, SameRow, Through("class", InClass)' = Through("class", InClass),
         pc' = "class" \/ InClass' \/ at'["class"] = Len(Map.classes)
  PROVE  ClassesWritten'
<1>1. Map' = Map /\ Row' = Row
  BY ScopesKept
<1>2. \A c : QuadsOfClass(c)' = QuadsOfClass(c)
  BY <1>1 DEF QuadsOfClass
<1> QED
  BY <1>1, <1>2 DEF ClassesWritten, SameRow

LEMMA PomsKept ==
  ASSUME PomsWritten, SameRow, Through("pom", InPom)' = Through("pom", InPom)
  PROVE  PomsWritten'
BY ScopesKept DEF PomsWritten, SameRow

LEMMA PredicatesKept ==
  ASSUME PredicatesWritten, SamePom,
         Through("predicate", InPredicate)' = Through("predicate", InPredicate)
  PROVE  PredicatesWritten'
<1>1. Map' = Map /\ Row' = Row /\ Pom' = Pom
  BY ScopesKept DEF SamePom
<1>2. \A q, j : QuadsOfPair(q, j)' = QuadsOfPair(q, j)
  BY <1>1 DEF QuadsOfPair, SamePom, SameRow
<1> QED
  BY <1>1, <1>2 DEF PredicatesWritten, SamePom, SameRow

LEMMA ObjectsKept ==
  ASSUME ObjectsWritten, SamePredicate,
         Through("object", InObject)' = Through("object", InObject)
  PROVE  ObjectsWritten'
<1>1. Map' = Map /\ Row' = Row /\ Pom' = Pom
  BY ScopesKept DEF SamePredicate, SamePom
<1>2. \A j : QuadsOfPair(at["predicate"], j)' = QuadsOfPair(at["predicate"], j)
  BY <1>1 DEF QuadsOfPair, SamePredicate, SamePom, SameRow
<1> QED
  BY <1>1, <1>2 DEF ObjectsWritten, SamePredicate, SamePom, SameRow

LEMMA JoinKept ==
  ASSUME RowsJoined, SameJoin, pc # "join"
  PROVE  RowsJoined'
<1>1. Row' = Row /\ ObjectMap' = ObjectMap /\ ParentResult' = ParentResult
  BY ScopesKept DEF SameJoin, SamePredicate, SamePom
<1> QED
  BY <1>1 DEF RowsJoined, SameJoin

LEMMA ParentsKept ==
  ASSUME ParentsWritten, SameJoin, pc # "join",
         Through("parent", pc = "graph")' = Through("parent", pc = "graph")
  PROVE  ParentsWritten'
<1>1. Map' = Map /\ Row' = Row /\ Pom' = Pom /\ ObjectMap' = ObjectMap
  BY ScopesKept DEF SameJoin, SamePredicate, SamePom
<1>2. \A k : QuadsOfParent(k)' = QuadsOfParent(k)
  BY <1>1 DEF QuadsOfParent, SameJoin, SamePredicate, SamePom, SameRow
<1> QED
  BY <1>1, <1>2 DEF ParentsWritten, SameJoin, SamePredicate, SamePom, SameRow

-----------------------------------------------------------------------------
(***************************************************************************)
(* The loops over triples maps and rows.                                   *)
(***************************************************************************)
LEMMA MapRows ==
  ASSUME IInv, NEW m \in 1 .. Len(mapping)
  PROVE  /\ Len(RowsOf(db, mapping[m])) \in Nat
         /\ DOMAIN RowsOf(db, mapping[m]) = 1 .. Len(RowsOf(db, mapping[m]))
<1>1. IsSequence(<< >>)
  BY DEF IsSequence
<1>2. IsSequence(RowsOf(db, mapping[m]))
  BY <1>1, MapFacts DEF IInv, TypeOK, RowsOf, TriplesMapValid
<1> QED
  BY <1>2, SequenceFacts

LEMMA OutsideRows ==
  ASSUME pc' \in {"map", "row", "done", "failed"}
  PROVE  InnerWritten'
BY DEF InnerWritten, ClassesWritten, PomsWritten, PredicatesWritten, ObjectsWritten, RowsJoined,
       ParentsWritten, ObjectIsCurrent, GraphsWritten, InRow, InPom, InPredicate, InJoin, Loops

(* When control is back at the triples maps, all rows of the last one are  *)
(* finished.                                                               *)
LEMMA MapIsFinished ==
  ASSUME IInv, RowsWritten, pc = "map", at["map"] > 0
  PROVE  Finished = MapQuads(mapping, db, at["map"])
<1>1. /\ at["map"] \in Nat /\ at["row"] \in Nat /\ at["row"] = Len(RowsOf(db, Map))
      /\ at["map"] \in 1 .. Len(mapping)
  BY ScopeFacts DEF RowsWritten, IInv, TypeOK, CursorsInRange, Loops
<1>2. /\ Len(RowsOf(db, Map)) \in Nat
      /\ DOMAIN RowsOf(db, Map) = 1 .. Len(RowsOf(db, Map))
  BY <1>1, MapRows DEF Map
<1>3. FinishedRows = { r \in DOMAIN RowsOf(db, Map) : r < at["row"] \/ r = at["row"] }
  BY <1>1 DEF FinishedRows
<1>4. FinishedRows = DOMAIN RowsOf(db, Map)
  <2>1. \A r \in DOMAIN RowsOf(db, Map) : r < at["row"] \/ r = at["row"]
    BY <1>1, <1>2
  <2> QED
    BY <1>3, <2>1
<1> QED
  BY <1>4 DEF Finished, MapQuads, QuadsOfRow, Map

LEMMA NextMapWritten == ASSUME PInv, NextMap PROVE (OuterWritten /\ InnerWritten)'
<1> USE DEF inputs, nodes
<1>1. IInv /\ MapsWritten /\ RowsWritten /\ NothingAhead
  BY DEF PInv, OuterWritten
<1>2. /\ at'["map"] = at["map"] + 1 /\ at'["row"] = 0 /\ at["map"] \in Nat /\ at["row"] \in Nat
      /\ at["map"] + 1 \in 1 .. Len(mapping) /\ pc = "map" /\ pc' \in {"map", "row", "failed"}
      /\ mapping' = mapping /\ db' = db /\ written' = written
  BY <1>1, ScopeFacts DEF NextMap, IInv, TypeOK, Loops
<1>3. Map' = mapping[at["map"] + 1]
  BY <1>2 DEF Map
<1>4. ~InRow /\ ~InRow' /\ Current = {} /\ Current' = {}
  BY <1>2 DEF InRow, Current, Loops
<1>5. FinishedRows' = {}
  BY <1>1, <1>2, <1>3, MapRows DEF FinishedRows
<1>6. at["map"] > 0 => Finished = MapQuads(mapping, db, at["map"])
  BY <1>1, <1>2, MapIsFinished
<1>7. at["map"] = 0 => Finished = {}
  BY DEF Finished, FinishedRows
<1>8. Finished \subseteq written
  BY <1>1 DEF RowsWritten, Finished
<1>9. \A m \in 1 .. at'["map"] - 1 : m \in 1 .. at["map"] - 1 \/ (m = at["map"] /\ at["map"] > 0)
  BY <1>2
<1>10. \A m \in 1 .. at["map"] - 1 : m \in 1 .. at'["map"] - 1
  BY <1>2
<1>11. MapsWritten'
  BY <1>1, <1>2, <1>6, <1>8, <1>9 DEF MapsWritten
<1>12. RowsWritten'
  <2>1. pc' = "map" => RowsOf(db', Map') = << >>
    BY <1>2, <1>3 DEF NextMap, RowsOf
  <2> QED
    BY <1>2, <1>5, <2>1 DEF RowsWritten
<1>13. NothingAhead'
  <2>1. Earlier \subseteq Earlier'
    BY <1>2, <1>10 DEF Earlier
  <2>2. at["map"] > 0 => MapQuads(mapping, db, at["map"]) \subseteq Earlier'
    BY <1>2 DEF Earlier
  <2>3. Finished \subseteq Earlier'
    BY <1>2, <1>6, <1>7, <2>2
  <2> QED
    BY <1>1, <1>2, <1>4, <2>1, <2>3 DEF NothingAhead
<1>14. InnerWritten'
  BY <1>2, OutsideRows
<1> QED
  BY <1>11, <1>12, <1>13, <1>14 DEF OuterWritten

LEMMA AllMapsDoneWritten == ASSUME PInv, AllMapsDone PROVE (OuterWritten /\ InnerWritten)'
<1> USE DEF inputs, nodes
<1>1. /\ at' = at /\ mapping' = mapping /\ db' = db /\ written' = written
      /\ pc = "map" /\ pc' = "done" /\ ~InRow /\ ~InRow'
  BY DEF AllMapsDone, InRow, Loops
<1>2. Map' = Map /\ FinishedRows' = FinishedRows
  BY <1>1 DEF Map, FinishedRows
<1>3. \A r : QuadsOfRow(r)' = QuadsOfRow(r)
  BY <1>1, <1>2 DEF QuadsOfRow
<1>4. Earlier' = Earlier /\ Finished' = Finished /\ Current' = Current
  BY <1>1, <1>2, <1>3 DEF Earlier, Finished, Current
<1>5. MapsWritten' /\ RowsWritten' /\ NothingAhead'
  BY <1>1, <1>2, <1>3, <1>4
  DEF PInv, OuterWritten, MapsWritten, RowsWritten, NothingAhead
<1>6. InnerWritten'
  BY <1>1, OutsideRows
<1> QED
  BY <1>5, <1>6 DEF OuterWritten

LEMMA NextRowWritten == ASSUME PInv, NextRow PROVE (OuterWritten /\ InnerWritten)'
<1> USE DEF inputs, nodes
<1>1. /\ IInv /\ MapsWritten /\ RowsWritten /\ NothingAhead /\ InMap
  BY DEF PInv, OuterWritten, NextRow, InMap, Loops
<1>2. /\ at'["map"] = at["map"] /\ at'["row"] = at["row"] + 1
      /\ at'["class"] = 0 /\ at'["pom"] = 0
      /\ at["map"] \in Nat /\ at["map"] > 0 /\ at["row"] \in Nat
      /\ pc = "row" /\ pc' \in {"row", "class"}
      /\ mapping' = mapping /\ db' = db /\ written' = written
  BY <1>1 DEF NextRow, IInv, TypeOK, CursorsInRange, Loops
<1>3. Map' = Map
  BY <1>2 DEF Map
<1>4. \A r : QuadsOfRow(r)' = QuadsOfRow(r)
  BY <1>2, <1>3 DEF QuadsOfRow
<1>5. FinishedRows = { r \in DOMAIN RowsOf(db, Map) : r < at["row"] \/ r = at["row"] }
  BY <1>2 DEF FinishedRows
<1>6. /\ DOMAIN RowsOf(db, Map) = 1 .. Len(RowsOf(db, Map)) /\ Len(RowsOf(db, Map)) \in Nat
      /\ rows = RowsOf(db, Map)
  BY <1>1, RowsAreRowsOf
<1>7. FinishedRows \subseteq FinishedRows'
  <2>1. \A r \in DOMAIN RowsOf(db, Map) : r < at["row"] \/ r = at["row"] => r < at'["row"]
    BY <1>2, <1>6
  <2> QED
    BY <1>2, <1>3, <1>5, <2>1 DEF FinishedRows
<1>8. \A r \in FinishedRows' : r \in FinishedRows \/ (r = at["row"] + 1 /\ pc' = "row")
  <2>1. \A r \in DOMAIN RowsOf(db, Map) : r < at["row"] + 1 => r < at["row"] \/ r = at["row"]
    BY <1>2, <1>6
  <2> QED
    BY <1>2, <1>3, <1>5, <2>1 DEF FinishedRows
<1>9. pc' = "row" => QuadsOfRow(at["row"] + 1) = {}
  <2> HAVE pc' = "row"
  <2>1. SubjectNode(Map, rows[at["row"] + 1]) = Nothing
    BY DEF NextRow
  <2> QED
    BY <1>6, <2>1 DEF QuadsOfRow, RowQuads
<1>10. MapsWritten'
  BY <1>1, <1>2 DEF MapsWritten
<1>11. RowsWritten'
  BY <1>1, <1>2, <1>4, <1>8, <1>9 DEF RowsWritten
<1>12. NothingAhead'
  <2>1. Earlier' = Earlier /\ Current = {}
    BY <1>2 DEF Earlier, Current, InRow, Loops
  <2>2. Finished \subseteq Finished'
    BY <1>4, <1>7 DEF Finished
  <2> QED
    BY <1>1, <1>2, <2>1, <2>2 DEF NothingAhead
<1>13. InnerWritten'
  <2>1. CASE pc' = "row"
    BY <2>1, OutsideRows
  <2>2. CASE pc' = "class"
    <3>1. ~InPom' /\ ~InPredicate' /\ ~InJoin' /\ ~InClass'
      BY <2>2 DEF InPom, InPredicate, InJoin, InClass
    <3>2. Through("class", InClass)' = 0 /\ Through("pom", InPom)' = 0
      BY <1>2, <3>1 DEF Through
    <3> QED
      BY <2>2, <3>1, <3>2
      DEF InnerWritten, ClassesWritten, PomsWritten, PredicatesWritten, ObjectsWritten,
          RowsJoined, ParentsWritten, ObjectIsCurrent, GraphsWritten
  <2> QED
    BY <1>2, <2>1, <2>2
<1> QED
  BY <1>10, <1>11, <1>12, <1>13 DEF OuterWritten

LEMMA RowsExhaustedWritten == ASSUME PInv, RowsExhausted PROVE (OuterWritten /\ InnerWritten)'
<1> USE DEF inputs, nodes
<1>1. /\ at' = at /\ mapping' = mapping /\ db' = db /\ written' = written
      /\ pc = "row" /\ pc' = "map" /\ ~InRow /\ ~InRow' /\ InMap /\ IInv
  BY DEF RowsExhausted, InRow, InMap, Loops, PInv
<1>2. Map' = Map /\ FinishedRows' = FinishedRows
  BY <1>1 DEF Map, FinishedRows
<1>3. \A r : QuadsOfRow(r)' = QuadsOfRow(r)
  BY <1>1, <1>2 DEF QuadsOfRow
<1>4. Earlier' = Earlier /\ Finished' = Finished /\ Current' = Current
  BY <1>1, <1>2, <1>3 DEF Earlier, Finished, Current
<1>5. at["row"] = Len(RowsOf(db, Map))
  BY <1>1, RowsAreRowsOf DEF RowsExhausted
<1>6. MapsWritten' /\ RowsWritten' /\ NothingAhead'
  BY <1>1, <1>2, <1>3, <1>4, <1>5
  DEF PInv, OuterWritten, MapsWritten, RowsWritten, NothingAhead
<1>7. InnerWritten'
  BY <1>1, OutsideRows
<1> QED
  BY <1>6, <1>7 DEF OuterWritten

-----------------------------------------------------------------------------
(***************************************************************************)
(* The loops over classes and predicate-object maps.                       *)
(***************************************************************************)
LEMMA NextClassWritten == ASSUME PInv, NextClass PROVE (OuterWritten /\ InnerWritten)'
<1> USE DEF inputs, nodes
<1>1. /\ IInv /\ OuterWritten /\ ClassesWritten /\ PomsWritten
      /\ pc = "class" /\ pc' = "graph" /\ back' = "class" /\ written' = written /\ emitted' = FALSE
  BY DEF PInv, InnerWritten, NextClass
<1>2. /\ at["class"] \in Nat /\ at'["class"] = at["class"] + 1
      /\ at'["pom"] = at["pom"] /\ at'["graph"] = 0
  BY <1>1 DEF NextClass, IInv, TypeOK, Loops
<1>3. SameRow
  BY <1>1 DEF SameRow, NextClass, IInv, TypeOK, InRow, Loops
<1>4. OuterWritten'
  BY <1>1, <1>3, OuterKept
<1>5. ClassesWritten'
  <2>1. ~InClass /\ InClass'
    BY <1>1 DEF InClass
  <2>2. Through("class", InClass)' = Through("class", InClass)
    BY <1>2, <2>1 DEF Through
  <2> QED
    BY <1>1, <1>3, <2>1, <2>2, ClassesKept
<1>6. ~InPom /\ ~InPom' /\ ~InPredicate' /\ ~InJoin'
  BY <1>1 DEF InPom, InPredicate, InJoin
<1>7. PomsWritten'
  BY <1>1, <1>2, <1>3, <1>6, PomsKept DEF Through
<1>8. GraphsWritten'
  BY <1>1, <1>2 DEF GraphsWritten
<1> QED
  BY <1>1, <1>4, <1>5, <1>6, <1>7, <1>8
  DEF InnerWritten, PredicatesWritten, ObjectsWritten, RowsJoined, ParentsWritten, ObjectIsCurrent

LEMMA ClassesExhaustedWritten ==
  ASSUME PInv, ClassesExhausted
  PROVE  (OuterWritten /\ InnerWritten)'
<1> USE DEF inputs, nodes
<1>1. /\ IInv /\ OuterWritten /\ ClassesWritten /\ PomsWritten
      /\ pc = "class" /\ pc' = "pom" /\ written' = written /\ at' = at
  BY DEF PInv, InnerWritten, ClassesExhausted
<1>2. SameRow
  BY <1>1 DEF SameRow, ClassesExhausted, IInv, TypeOK, InRow, Loops
<1>3. OuterWritten'
  BY <1>1, <1>2, OuterKept
<1>4. ~InClass /\ ~InClass' /\ ~InPom /\ ~InPom' /\ ~InPredicate' /\ ~InJoin'
  BY <1>1 DEF InClass, InPom, InPredicate, InJoin
<1>5. ClassesWritten'
  BY <1>1, <1>2, <1>4, ClassesKept DEF Through, ClassesExhausted
<1>6. PomsWritten'
  BY <1>1, <1>2, <1>4, PomsKept DEF Through
<1> QED
  BY <1>1, <1>3, <1>4, <1>5, <1>6
  DEF InnerWritten, PredicatesWritten, ObjectsWritten, RowsJoined, ParentsWritten,
      ObjectIsCurrent, GraphsWritten

LEMMA NextPomWritten == ASSUME PInv, NextPom PROVE (OuterWritten /\ InnerWritten)'
<1> USE DEF inputs, nodes
<1>1. /\ IInv /\ OuterWritten /\ ClassesWritten /\ PomsWritten
      /\ pc = "pom" /\ pc' = "predicate" /\ written' = written
  BY DEF PInv, InnerWritten, NextPom
<1>2. /\ at["pom"] \in Nat /\ at'["pom"] = at["pom"] + 1
      /\ at'["class"] = at["class"] /\ at'["predicate"] = 0
  BY <1>1 DEF NextPom, IInv, TypeOK, Loops
<1>3. SameRow
  BY <1>1 DEF SameRow, NextPom, IInv, TypeOK, InRow, Loops
<1>4. OuterWritten'
  BY <1>1, <1>3, OuterKept
<1>5. ~InClass /\ ~InClass' /\ ~InPom /\ InPom' /\ ~InPredicate' /\ ~InJoin'
  BY <1>1 DEF InClass, InPom, InPredicate, InJoin
<1>6. ClassesWritten'
  BY <1>1, <1>2, <1>3, <1>5, ClassesKept DEF Through, ClassesWritten, SameRow
<1>7. PomsWritten'
  <2>1. Through("pom", InPom)' = Through("pom", InPom)
    BY <1>2, <1>5 DEF Through
  <2> QED
    BY <1>1, <1>3, <2>1, PomsKept
<1>8. PredicatesWritten'
  BY <1>2, <1>5 DEF PredicatesWritten, Through
<1> QED
  BY <1>1, <1>4, <1>5, <1>6, <1>7, <1>8
  DEF InnerWritten, ObjectsWritten, RowsJoined, ParentsWritten, ObjectIsCurrent, GraphsWritten

(* After the last predicate-object map, all quads of the row are written.  *)
LEMMA RowIsWritten ==
  ASSUME IInv, ClassesWritten, PomsWritten, pc = "pom", at["pom"] = Len(Map.poms)
  PROVE  RowQuads(mapping, db, Map, Row) \subseteq written
<1>1. InRow /\ InMap /\ ~InPom /\ ~InClass
  BY DEF InRow, InMap, InPom, InClass, Loops
<1>2. DOMAIN Map.classes = 1 .. Len(Map.classes) /\ DOMAIN Map.poms = 1 .. Len(Map.poms)
  BY <1>1, ScopeFacts, MapLengths
<1>3. ClassQuads(Map, Row) \subseteq written
  BY <1>1, <1>2 DEF ClassesWritten, Through, ClassQuads, QuadsOfClass
<1>4. \A i \in DOMAIN Map.poms : PomQuads(mapping, db, Map, Row, Map.poms[i]) \subseteq written
  BY <1>1, <1>2 DEF PomsWritten, Through
<1> QED
  BY <1>3, <1>4 DEF RowQuads

LEMMA PomsExhaustedWritten == ASSUME PInv, PomsExhausted PROVE (OuterWritten /\ InnerWritten)'
<1> USE DEF inputs, nodes
<1>1. /\ IInv /\ MapsWritten /\ RowsWritten /\ NothingAhead /\ ClassesWritten /\ PomsWritten
      /\ pc = "pom" /\ pc' = "row" /\ written' = written /\ at' = at
      /\ mapping' = mapping /\ db' = db /\ InRow /\ ~InRow'
  BY DEF PInv, OuterWritten, InnerWritten, PomsExhausted, InRow, Loops
<1>2. Map' = Map
  BY <1>1 DEF Map
<1>3. \A r : QuadsOfRow(r)' = QuadsOfRow(r)
  BY <1>1, <1>2 DEF QuadsOfRow
<1>4. QuadsOfRow(at["row"]) \subseteq written
  BY <1>1, InsideRow, RowIsWritten DEF PomsExhausted
<1>5. FinishedRows' = FinishedRows \cup {at["row"]}
  <2>1. FinishedRows' = { r \in DOMAIN RowsOf(db, Map) : r < at["row"] \/ r = at["row"] }
    BY <1>1, <1>2, InsideRow DEF FinishedRows
  <2> QED
    BY <1>1, <2>1, InsideRow
<1>6. MapsWritten'
  BY <1>1 DEF MapsWritten
<1>7. RowsWritten'
  BY <1>1, <1>3, <1>4, <1>5 DEF RowsWritten
<1>8. NothingAhead'
  <2>1. Earlier' = Earlier /\ Current = QuadsOfRow(at["row"])
    BY <1>1 DEF Earlier, Current
  <2>2. Finished \cup QuadsOfRow(at["row"]) \subseteq Finished'
    BY <1>3, <1>5 DEF Finished
  <2> QED
    BY <1>1, <2>1, <2>2 DEF NothingAhead
<1>9. InnerWritten'
  BY <1>1, OutsideRows
<1> QED
  BY <1>6, <1>7, <1>8, <1>9 DEF OuterWritten

-----------------------------------------------------------------------------
(***************************************************************************)
(* The loops over predicate maps and object maps.                          *)
(***************************************************************************)
LEMMA NextPredicateWritten == ASSUME PInv, NextPredicate PROVE (OuterWritten /\ InnerWritten)'
<1> USE DEF inputs, nodes
<1>1. /\ IInv /\ OuterWritten /\ ClassesWritten /\ PomsWritten /\ PredicatesWritten
      /\ pc = "predicate" /\ pc' \in {"predicate", "object"} /\ written' = written
  BY DEF PInv, InnerWritten, NextPredicate
<1>2. /\ at["predicate"] \in Nat /\ at'["predicate"] = at["predicate"] + 1
      /\ at'["class"] = at["class"] /\ at'["pom"] = at["pom"] /\ at'["object"] = 0
  BY <1>1 DEF NextPredicate, IInv, TypeOK, Loops
<1>3. /\ ~InClass /\ ~InClass' /\ InPom /\ InPom' /\ ~InPredicate /\ ~InJoin' /\ ~InObject'
      /\ (InPredicate' <=> pc' = "object")
  BY <1>1 DEF InClass, InPom, InPredicate, InJoin, InObject
<1>4. SameRow /\ SamePom
  BY <1>1, <1>2, <1>3, SMTT(30) DEF SamePom, SameRow, NextPredicate, IInv, TypeOK, InRow, Loops
<1>5. OuterWritten'
  BY <1>1, <1>4, OuterKept
<1>6. ClassesWritten'
  BY <1>1, <1>2, <1>3, <1>4, ClassesKept DEF Through, ClassesWritten, SameRow
<1>7. PomsWritten'
  BY <1>1, <1>2, <1>3, <1>4, PomsKept DEF Through
<1>8. Map' = Map /\ Row' = Row /\ Pom' = Pom
  BY <1>4, ScopesKept
<1>9. PredicatesWritten'
  <2>1. CASE pc' = "object"
    <3>1. Through("predicate", InPredicate)' = Through("predicate", InPredicate)
      BY <1>2, <1>3, <2>1 DEF Through
    <3> QED
      BY <1>1, <1>4, <3>1, PredicatesKept
  <2>2. CASE pc' = "predicate"
    <3>1. NodeOf(Pom.preds[at["predicate"] + 1], Row) = Nothing
      BY <2>2 DEF NextPredicate
    <3>2. \A j : QuadsOfPair(at["predicate"] + 1, j) = {}
      BY <3>1 DEF QuadsOfPair, PairQuads
    <3>3. \A q, j : QuadsOfPair(q, j)' = QuadsOfPair(q, j)
      BY <1>4, <1>8 DEF QuadsOfPair, SameRow
    <3>4. \A q \in 1 .. at["predicate"] + 1 : q \in 1 .. at["predicate"] \/ q = at["predicate"] + 1
      BY <1>2
    <3>5. /\ Through("predicate", InPredicate) = at["predicate"]
          /\ Through("predicate", InPredicate)' = at["predicate"] + 1
      BY <1>2, <1>3, <2>2 DEF Through
    <3> QED
      BY <1>1, <1>3, <1>8, <3>2, <3>3, <3>4, <3>5 DEF PredicatesWritten
  <2> QED
    BY <1>1, <2>1, <2>2
<1>10. ObjectsWritten'
  BY <1>2, <1>3 DEF ObjectsWritten, Through
<1> QED
  BY <1>1, <1>3, <1>5, <1>6, <1>7, <1>9, <1>10
  DEF InnerWritten, RowsJoined, ParentsWritten, ObjectIsCurrent, GraphsWritten

(* After the last predicate map, all quads of the predicate-object map are *)
(* written.                                                                *)
LEMMA PomIsWritten ==
  ASSUME IInv, PredicatesWritten, pc = "predicate", at["predicate"] = Len(Pom.preds)
  PROVE  PomQuads(mapping, db, Map, Row, Pom) \subseteq written
<1>1. InPom /\ ~InPredicate
  BY DEF InPom, InPredicate
<1>2. DOMAIN Pom.preds = 1 .. Len(Pom.preds)
  BY <1>1, ScopeFacts, PomLengths
<1> QED
  BY <1>1, <1>2 DEF PredicatesWritten, Through, PomQuads, QuadsOfPair

LEMMA PredicatesExhaustedWritten ==
  ASSUME PInv, PredicatesExhausted
  PROVE  (OuterWritten /\ InnerWritten)'
<1> USE DEF inputs, nodes
<1>1. /\ IInv /\ OuterWritten /\ ClassesWritten /\ PomsWritten /\ PredicatesWritten
      /\ pc = "predicate" /\ pc' = "pom" /\ written' = written /\ at' = at
  BY DEF PInv, InnerWritten, PredicatesExhausted
<1>2. SameRow
  BY <1>1 DEF SameRow, PredicatesExhausted, IInv, TypeOK, InRow, Loops
<1>3. OuterWritten'
  BY <1>1, <1>2, OuterKept
<1>4. ~InClass /\ ~InClass' /\ InPom /\ ~InPom' /\ ~InPredicate' /\ ~InJoin'
  BY <1>1 DEF InClass, InPom, InPredicate, InJoin
<1>5. ClassesWritten'
  BY <1>1, <1>2, <1>4, ClassesKept DEF Through, ClassesWritten, SameRow
<1>6. PomsWritten'
  <2>1. /\ Map' = Map /\ Row' = Row
    BY <1>2, ScopesKept
  <2>2. PomQuads(mapping, db, Map, Row, Map.poms[at["pom"]]) \subseteq written
    BY <1>1, PomIsWritten DEF PredicatesExhausted, Pom
  <2>3. at["pom"] \in Nat
    BY <1>1 DEF IInv, TypeOK, Loops
  <2>4. \A p \in 1 .. at["pom"] : p \in 1 .. at["pom"] - 1 \/ p = at["pom"]
    BY <2>3
  <2>5. Through("pom", InPom) = at["pom"] - 1 /\ Through("pom", InPom)' = at["pom"]
    BY <1>1, <1>4 DEF Through
  <2> QED
    BY <1>1, <1>2, <2>1, <2>2, <2>4, <2>5 DEF PomsWritten, SameRow
<1> QED
  BY <1>1, <1>3, <1>4, <1>5, <1>6
  DEF InnerWritten, PredicatesWritten, ObjectsWritten, RowsJoined, ParentsWritten,
      ObjectIsCurrent, GraphsWritten

LEMMA ObjectsExhaustedWritten ==
  ASSUME PInv, ObjectsExhausted
  PROVE  (OuterWritten /\ InnerWritten)'
<1> USE DEF inputs, nodes
<1>1. /\ IInv /\ OuterWritten /\ ClassesWritten /\ PomsWritten /\ PredicatesWritten /\ ObjectsWritten
      /\ pc = "object" /\ pc' = "predicate" /\ written' = written /\ at' = at
  BY DEF PInv, InnerWritten, ObjectsExhausted
<1>2. /\ ~InClass /\ ~InClass' /\ InPom /\ InPom' /\ InPredicate /\ ~InPredicate'
      /\ ~InObject /\ ~InJoin'
  BY <1>1 DEF InClass, InPom, InPredicate, InJoin, InObject
<1>3. SameRow /\ SamePom
  BY <1>1, <1>2 DEF SamePom, SameRow, ObjectsExhausted, IInv, TypeOK, InRow, Loops
<1>4. OuterWritten'
  BY <1>1, <1>3, OuterKept
<1>5. ClassesWritten'
  BY <1>1, <1>2, <1>3, ClassesKept DEF Through, ClassesWritten, SameRow
<1>6. PomsWritten'
  BY <1>1, <1>2, <1>3, PomsKept DEF Through
<1>7. PredicatesWritten'
  <2>1. Map' = Map /\ Row' = Row /\ Pom' = Pom
    BY <1>3, ScopesKept
  <2>2. \A q, j : QuadsOfPair(q, j)' = QuadsOfPair(q, j)
    BY <1>3, <2>1 DEF QuadsOfPair, SameRow
  <2>3. DOMAIN Pom.objs = 1 .. Len(Pom.objs) /\ at["object"] = Len(Pom.objs)
    BY <1>1, <1>2, ScopeFacts, PomLengths DEF ObjectsExhausted
  <2>4. \A j \in DOMAIN Pom.objs : QuadsOfPair(at["predicate"], j) \subseteq written
    BY <1>1, <1>2, <2>3 DEF ObjectsWritten, Through
  <2>5. at["predicate"] \in Nat
    BY <1>1 DEF IInv, TypeOK, Loops
  <2>6. \A q \in 1 .. at["predicate"] : q \in 1 .. at["predicate"] - 1 \/ q = at["predicate"]
    BY <2>5
  <2>7. /\ Through("predicate", InPredicate) = at["predicate"] - 1
        /\ Through("predicate", InPredicate)' = at["predicate"]
    BY <1>1, <1>2 DEF Through
  <2> QED
    BY <1>1, <1>2, <2>1, <2>2, <2>4, <2>6, <2>7 DEF PredicatesWritten
<1> QED
  BY <1>1, <1>2, <1>4, <1>5, <1>6, <1>7
  DEF InnerWritten, ObjectsWritten, RowsJoined, ParentsWritten, ObjectIsCurrent, GraphsWritten

(* An object map that yields nothing leaves no quads to write.             *)
LEMMA EmptyPair ==
  ASSUME IInv, InPredicate, NEW j, ObjectNodes(mapping, db, Pom.objs[j], Row) \subseteq {Nothing}
  PROVE  QuadsOfPair(at["predicate"], j) = {}
BY DEF QuadsOfPair, PairQuads

LEMMA ObjectPassedOver ==
  ASSUME ObjectsWritten, SamePredicate, at["object"] \in Nat,
         pc = "object", pc' = "object", at'["object"] = at["object"] + 1,
         QuadsOfPair(at["predicate"], at["object"] + 1) = {}
  PROVE  ObjectsWritten'
<1>1. Map' = Map /\ Row' = Row /\ Pom' = Pom
  BY ScopesKept DEF SamePredicate, SamePom
<1>2. \A j : QuadsOfPair(at["predicate"], j)' = QuadsOfPair(at["predicate"], j)
  BY <1>1 DEF QuadsOfPair, SamePredicate, SamePom, SameRow
<1>3. /\ Through("object", InObject) = at["object"]
      /\ Through("object", InObject)' = at["object"] + 1
  BY DEF Through, InObject
<1>4. \A j \in 1 .. at["object"] + 1 : j \in 1 .. at["object"] \/ j = at["object"] + 1
  OBVIOUS
<1> QED
  BY <1>1, <1>2, <1>3, <1>4 DEF ObjectsWritten, SamePredicate, SamePom, SameRow

LEMMA NextRegularObjectWritten ==
  ASSUME PInv, NextRegularObject
  PROVE  (OuterWritten /\ InnerWritten)'
<1> USE DEF inputs, nodes
<1>1. /\ IInv /\ OuterWritten /\ ClassesWritten /\ PomsWritten /\ PredicatesWritten /\ ObjectsWritten
      /\ pc = "object" /\ pc' \in {"object", "graph"} /\ back' = "object"
      /\ written' = written /\ emitted' = FALSE
  BY DEF PInv, InnerWritten, NextRegularObject
<1>2. /\ at["object"] \in Nat /\ at'["object"] = at["object"] + 1
      /\ at'["class"] = at["class"] /\ at'["pom"] = at["pom"]
      /\ at'["predicate"] = at["predicate"] /\ at'["graph"] = 0
  BY <1>1 DEF NextRegularObject, IInv, TypeOK, Loops
<1>3. /\ ~InClass /\ ~InClass' /\ InPom /\ InPom' /\ InPredicate /\ InPredicate' /\ ~InJoin'
      /\ ~InObject /\ (InObject' <=> pc' = "graph")
  BY <1>1 DEF InClass, InPom, InPredicate, InJoin, InObject
<1>4. SameRow /\ SamePom /\ SamePredicate
  BY <1>1, <1>2, <1>3, SMTT(30)
  DEF SamePredicate, SamePom, SameRow, NextRegularObject, IInv, TypeOK, InRow, Loops
<1>5. OuterWritten'
  BY <1>1, <1>4, OuterKept
<1>6. ClassesWritten'
  BY <1>1, <1>2, <1>3, <1>4, ClassesKept DEF Through, ClassesWritten, SameRow
<1>7. PomsWritten'
  BY <1>1, <1>2, <1>3, <1>4, PomsKept DEF Through
<1>8. PredicatesWritten'
  BY <1>1, <1>2, <1>3, <1>4, PredicatesKept DEF Through
<1>9. Row' = Row /\ Pom' = Pom /\ ObjectMap' = Pom.objs[at["object"] + 1]
  BY <1>2, <1>4, ScopesKept DEF ObjectMap
<1>10. ~Pom.objs[at["object"] + 1].rom /\ obj' = ObjectNode(Pom.objs[at["object"] + 1].map, Row)
  BY DEF NextRegularObject
<1>11. ObjectsWritten'
  <2>1. CASE pc' = "graph"
    BY <1>1, <1>2, <1>3, <1>4, <2>1, ObjectsKept DEF Through
  <2>2. CASE pc' = "object"
    <3>1. ObjectNodes(mapping, db, Pom.objs[at["object"] + 1], Row) \subseteq {Nothing}
      BY <1>10, <2>2 DEF ObjectNodes, NextRegularObject
    <3> QED
      BY <1>1, <1>2, <1>3, <1>4, <2>2, <3>1, EmptyPair, ObjectPassedOver
  <2> QED
    BY <1>1, <2>1, <2>2
<1>12. ObjectIsCurrent'
  BY <1>1, <1>9, <1>10 DEF ObjectIsCurrent
<1>13. GraphsWritten'
  BY <1>1, <1>2 DEF GraphsWritten
<1> QED
  BY <1>3, <1>5, <1>6, <1>7, <1>8, <1>11, <1>12, <1>13
  DEF InnerWritten, RowsJoined, ParentsWritten

LEMMA NextReferencingObjectWritten ==
  ASSUME PInv, NextReferencingObject
  PROVE  (OuterWritten /\ InnerWritten)'
<1> USE DEF inputs, nodes
<1> DEFINE om == Pom.objs[at["object"] + 1]
<1>1. /\ IInv /\ OuterWritten /\ ClassesWritten /\ PomsWritten /\ PredicatesWritten /\ ObjectsWritten
      /\ pc = "object" /\ pc' \in {"object", "join", "failed"} /\ written' = written
  BY DEF PInv, InnerWritten, NextReferencingObject
<1>2. /\ at["object"] \in Nat /\ at'["object"] = at["object"] + 1
      /\ at'["class"] = at["class"] /\ at'["pom"] = at["pom"]
      /\ at'["predicate"] = at["predicate"] /\ at'["join"] = 0
  BY <1>1 DEF NextReferencingObject, IInv, TypeOK, Loops
<1>3. InPom /\ InPredicate /\ ~InObject /\ ~InClass
  BY <1>1 DEF InPom, InPredicate, InObject, InClass
<1>4. SameRow /\ SamePom /\ SamePredicate
  <2>1. at' \in [Loops -> Nat]
    <3>1. at \in [Loops -> Nat]
      BY <1>1 DEF IInv, TypeOK
    <3>2. at' = [at EXCEPT !["object"] = at["object"] + 1, !["join"] = 0]
      BY DEF NextReferencingObject
    <3> QED
      BY <3>1, <3>2 DEF Loops
  <2>2. at'["map"] = at["map"] /\ at'["row"] = at["row"] /\ at'["pom"] = at["pom"]
        /\ at'["predicate"] = at["predicate"]
    BY <1>1, <2>1 DEF NextReferencingObject, IInv, TypeOK, Loops
  <2>3. /\ mapping' = mapping /\ db' = db /\ rows' = rows /\ subj' = subj /\ pred' = pred
        /\ written' = written
    BY DEF NextReferencingObject, inputs, nodes
  <2>4. InRow /\ (InRow' \/ pc' = "failed")
    <3>1. pc = "object" /\ pc' \in {"object", "failed", "join"}
      BY DEF NextReferencingObject
    <3> QED
      BY <3>1 DEF InRow, Loops
  <2> QED
    BY <1>3, <2>1, <2>2, <2>3, <2>4 DEF SamePredicate, SamePom, SameRow
<1>5. OuterWritten'
  BY <1>1, <1>4, OuterKept
<1>6. CASE pc' = "failed"
  BY <1>5, <1>6, OutsideRows
<1>7. CASE pc' \in {"object", "join"}
  <2>1. /\ ~InClass' /\ InPom' /\ InPredicate' /\ (InJoin' <=> pc' = "join")
        /\ (InObject' <=> pc' = "join")
    BY <1>7 DEF InClass, InPom, InPredicate, InJoin, InObject
  <2>2. ClassesWritten'
    BY <1>1, <1>2, <1>3, <1>4, <2>1, ClassesKept DEF Through, ClassesWritten, SameRow
  <2>3. PomsWritten'
    BY <1>1, <1>2, <1>3, <1>4, <2>1, PomsKept DEF Through
  <2>4. PredicatesWritten'
    BY <1>1, <1>2, <1>3, <1>4, <2>1, PredicatesKept DEF Through
  <2>5. ObjectsWritten'
    <3>1. CASE pc' = "join"
      BY <1>1, <1>2, <1>3, <1>4, <2>1, <3>1, ObjectsKept DEF Through
    <3>2. CASE pc' = "object"
      <4>1. ParentRows(mapping, db, om) = << >> /\ om.rom
        BY <1>1, <3>2 DEF NextReferencingObject, ParentRows
      <4>2. ObjectNodes(mapping, db, om, Row) \subseteq {Nothing}
        BY <4>1 DEF ObjectNodes
      <4> QED
        BY <1>1, <1>2, <1>3, <1>4, <3>2, <4>2, EmptyPair, ObjectPassedOver
    <3> QED
      BY <1>7, <3>1, <3>2
  <2>6. RowsJoined'
    <3> SUFFICES ASSUME InJoin' PROVE \A i \in DOMAIN ParentResult' : ~(i <= at'["join"])
      BY <2>1 DEF RowsJoined
    <3>1. IInv'
      BY <1>1, NextReferencingObjectIInv
    <3>2. DOMAIN ParentResult' = 1 .. Len(ParentResult')
      <4>1. IsSequence(ParentResult')
        BY <3>1 DEF IInv, NodesAreCurrent
      <4> QED
        BY <4>1, SequenceFacts
    <3> QED
      BY <1>2, <3>2
  <2> QED
    BY <1>5, <1>7, <2>1, <2>2, <2>3, <2>4, <2>5, <2>6
    DEF InnerWritten, ParentsWritten, ObjectIsCurrent, GraphsWritten
<1> QED
  BY <1>1, <1>6, <1>7

-----------------------------------------------------------------------------
(***************************************************************************)
(* The loops over the rows of the parent.                                  *)
(***************************************************************************)
(* The conjuncts about the loops around a join, which no step of it moves. *)
AroundJoin ==
  /\ ClassesWritten /\ PomsWritten /\ PredicatesWritten /\ ObjectsWritten

LEMMA AroundJoinKept ==
  ASSUME AroundJoin, SamePredicate, InJoin, InJoin',
         at'["class"] = at["class"], at'["object"] = at["object"]
  PROVE  AroundJoin'
<1>1. /\ ~InClass /\ ~InClass' /\ InPom /\ InPom' /\ InPredicate /\ InPredicate'
      /\ InObject /\ InObject' /\ pc # "class"
  BY DEF SamePredicate, InPom, InPredicate, InJoin, InObject, InClass
<1>2. SameRow /\ SamePom
  BY DEF SamePredicate, SamePom
<1>3. ClassesWritten'
  BY <1>1, <1>2, ClassesKept DEF Through, ClassesWritten, SameRow, AroundJoin
<1>4. PomsWritten'
  BY <1>1, <1>2, PomsKept DEF Through, SamePom, AroundJoin
<1>5. PredicatesWritten'
  BY <1>1, <1>2, PredicatesKept DEF Through, SamePredicate, AroundJoin
<1>6. ObjectsWritten'
  BY <1>1, <1>2, ObjectsKept DEF Through, AroundJoin
<1> QED
  BY <1>3, <1>4, <1>5, <1>6 DEF AroundJoin

LEMMA TestParentRowWritten == ASSUME PInv, TestParentRow PROVE (OuterWritten /\ InnerWritten)'
<1> USE DEF inputs, nodes
<1>1. /\ IInv /\ OuterWritten /\ AroundJoin /\ RowsJoined
      /\ pc = "join" /\ pc' = "join" /\ written' = written
  BY DEF PInv, InnerWritten, AroundJoin, TestParentRow
<1>2. /\ at["join"] \in Nat /\ at'["join"] = at["join"] + 1 /\ at'["class"] = at["class"]
      /\ at'["pom"] = at["pom"] /\ at'["predicate"] = at["predicate"] /\ at'["object"] = at["object"]
  BY <1>1 DEF TestParentRow, IInv, TypeOK, Loops
<1>3. InPom /\ InPredicate /\ InJoin /\ InJoin'
  BY <1>1 DEF InPom, InPredicate, InJoin
<1>4. SameRow /\ SamePom /\ SamePredicate
  BY <1>1, <1>2, <1>3, SMTT(30)
  DEF SamePredicate, SamePom, SameRow, TestParentRow, IInv, TypeOK, InRow, Loops
<1>5. OuterWritten'
  BY <1>1, <1>4, OuterKept
<1>6. AroundJoin'
  BY <1>1, <1>2, <1>3, <1>4, AroundJoinKept
<1>7. Row' = Row /\ ObjectMap' = ObjectMap /\ ParentResult' = ParentResult
  <2>1. Row' = Row /\ Pom' = Pom
    BY <1>4, ScopesKept
  <2> QED
    BY <1>2, <1>4, <2>1 DEF ObjectMap, ParentResult, SameRow
<1>8. RowsJoined'
  <2> DEFINE row == ParentResult[at["join"] + 1]
  <2>1. IsSequence(prows) /\ Len(prows) \in Nat /\ DOMAIN prows = 1 .. Len(prows)
    <3>1. prows \in Seq(MatchingRows)
      BY <1>1, <1>3 DEF IInv, NodesAreCurrent
    <3> QED
      BY <3>1 DEF IsSequence
  <2>2. \A k \in DOMAIN prows : k \in DOMAIN prows' /\ prows'[k] = prows[k]
    <3>1. CASE prows' = prows
      BY <3>1
    <3>2. CASE prows' = Append(prows, row)
      BY <2>1, <3>2 DEF IsSequence
    <3> QED
      BY <3>1, <3>2 DEF TestParentRow
  <2>3. Joins(ObjectMap.joins, Row, row) => \E k \in DOMAIN prows' : prows'[k] = row
    <3> HAVE Joins(ObjectMap.joins, Row, row)
    <3>1. prows' = Append(prows, row)
      BY DEF TestParentRow
    <3>2. Len(prows) + 1 \in DOMAIN prows' /\ prows'[Len(prows) + 1] = row
      BY <2>1, <3>1 DEF IsSequence
    <3> QED
      BY <3>2
  <2>4. \A i \in DOMAIN ParentResult : i <= at["join"] + 1 => i <= at["join"] \/ i = at["join"] + 1
    BY <1>2, <1>3, ScopeFacts, <1>1
  <2> QED
    BY <1>1, <1>2, <1>3, <1>7, <2>2, <2>3, <2>4 DEF RowsJoined
<1> QED
  BY <1>1, <1>5, <1>6, <1>8
  DEF InnerWritten, AroundJoin, ParentsWritten, ObjectIsCurrent, GraphsWritten

LEMMA JoinCollectedWritten == ASSUME PInv, JoinCollected PROVE (OuterWritten /\ InnerWritten)'
<1> USE DEF inputs, nodes
<1>1. /\ IInv /\ OuterWritten /\ AroundJoin /\ RowsJoined
      /\ pc = "join" /\ pc' = "parent" /\ written' = written
      /\ at["join"] = Len(ParentResult)
  BY DEF PInv, InnerWritten, AroundJoin, JoinCollected
<1>2. /\ at'["parent"] = 0 /\ at'["class"] = at["class"]
      /\ at'["pom"] = at["pom"] /\ at'["predicate"] = at["predicate"] /\ at'["object"] = at["object"]
  BY <1>1 DEF JoinCollected, IInv, TypeOK, Loops
<1>3. InPom /\ InPredicate /\ InJoin /\ InJoin'
  BY <1>1 DEF InPom, InPredicate, InJoin
<1>4. SameRow /\ SamePredicate /\ SameJoin
  BY <1>1, <1>2, <1>3
  DEF SameJoin, SamePredicate, SamePom, SameRow, JoinCollected, IInv, TypeOK, InRow, Loops
<1>5. OuterWritten'
  BY <1>1, <1>4, OuterKept
<1>6. AroundJoin'
  BY <1>1, <1>2, <1>3, <1>4, AroundJoinKept
<1>7. Row' = Row /\ ObjectMap' = ObjectMap /\ ParentResult' = ParentResult
  BY <1>4, ScopesKept
<1>8. RowsJoined'
  <2>1. \A i \in DOMAIN ParentResult : i <= at["join"]
    BY <1>1, <1>3, ScopeFacts
  <2> QED
    BY <1>1, <1>3, <1>4, <1>7, <2>1 DEF RowsJoined, SameJoin
<1>9. ParentsWritten'
  BY <1>1, <1>2 DEF ParentsWritten, Through
<1> QED
  BY <1>1, <1>5, <1>6, <1>8, <1>9 DEF InnerWritten, AroundJoin, ObjectIsCurrent, GraphsWritten

LEMMA NextParentRowWritten == ASSUME PInv, NextParentRow PROVE (OuterWritten /\ InnerWritten)'
<1> USE DEF inputs, nodes
<1>1. /\ IInv /\ OuterWritten /\ AroundJoin /\ RowsJoined /\ ParentsWritten
      /\ pc = "parent" /\ pc' \in {"parent", "graph"} /\ back' = "parent"
      /\ written' = written /\ emitted' = FALSE
  BY DEF PInv, InnerWritten, AroundJoin, NextParentRow
<1>2. /\ at["parent"] \in Nat /\ at'["parent"] = at["parent"] + 1 /\ at'["class"] = at["class"]
      /\ at'["pom"] = at["pom"] /\ at'["predicate"] = at["predicate"]
      /\ at'["object"] = at["object"] /\ at'["graph"] = 0
  BY <1>1 DEF NextParentRow, IInv, TypeOK, Loops
<1>3. InPom /\ InPredicate /\ InJoin /\ InJoin'
  BY <1>1 DEF InPom, InPredicate, InJoin
<1>4. SameRow /\ SamePredicate /\ SameJoin
  BY <1>1, <1>2, <1>3, SMTT(30)
  DEF SameJoin, SamePredicate, SamePom, SameRow, NextParentRow, IInv, TypeOK, InRow, Loops
<1>5. OuterWritten'
  BY <1>1, <1>4, OuterKept
<1>6. AroundJoin'
  BY <1>1, <1>2, <1>3, <1>4, AroundJoinKept
<1>7. RowsJoined'
  BY <1>1, <1>4, JoinKept
<1>8. /\ mapping' = mapping /\ Map' = Map /\ Row' = Row /\ Pom' = Pom /\ ObjectMap' = ObjectMap
      /\ subj' = subj /\ pred' = pred /\ prows' = prows
  BY <1>4, ScopesKept DEF SameJoin, SamePredicate, SamePom, SameRow
<1>9. obj' = SubjectNode(mapping[ObjectMap.parent], prows[at["parent"] + 1])
  BY DEF NextParentRow
<1>10. ParentsWritten'
  <2>1. CASE pc' = "graph"
    <3>1. Through("parent", pc = "graph")' = Through("parent", pc = "graph")
      BY <1>1, <1>2, <2>1 DEF Through
    <3> QED
      BY <1>1, <1>4, <3>1, ParentsKept
  <2>2. CASE pc' = "parent"
    <3>1. QuadsOfParent(at["parent"] + 1) = {}
      BY <1>9, <2>2 DEF NextParentRow, QuadsOfParent
    <3>2. \A k : QuadsOfParent(k)' = QuadsOfParent(k)
      BY <1>8 DEF QuadsOfParent
    <3>3. \A k \in 1 .. at["parent"] + 1 : k \in 1 .. at["parent"] \/ k = at["parent"] + 1
      BY <1>2
    <3>4. /\ Through("parent", pc = "graph") = at["parent"]
          /\ Through("parent", pc = "graph")' = at["parent"] + 1
      BY <1>1, <1>2, <2>2 DEF Through
    <3> QED
      BY <1>1, <1>3, <3>1, <3>2, <3>3, <3>4 DEF ParentsWritten
  <2> QED
    BY <1>1, <2>1, <2>2
<1>11. ObjectIsCurrent'
  BY <1>1, <1>2, <1>8, <1>9 DEF ObjectIsCurrent
<1>12. GraphsWritten'
  BY <1>1, <1>2 DEF GraphsWritten
<1> QED
  BY <1>5, <1>6, <1>7, <1>10, <1>11, <1>12 DEF InnerWritten, AroundJoin

(* After the last joined row, all quads of the referencing object map are  *)
(* written: every matching row of the parent has had its turn.             *)
LEMMA JoinIsWritten ==
  ASSUME IInv, RowsJoined, ParentsWritten, pc = "parent", at["parent"] = Len(prows)
  PROVE  QuadsOfPair(at["predicate"], at["object"]) \subseteq written
<1>1. InRow /\ InPom /\ InPredicate /\ InJoin
  BY DEF InRow, InPom, InPredicate, InJoin, Loops
<1>2. /\ ObjectMap.rom /\ ParentResult = ParentRows(mapping, db, ObjectMap)
      /\ subj = SubjectNode(Map, Row) /\ pred = NodeOf(Pom.preds[at["predicate"]], Row)
      /\ DOMAIN prows = 1 .. Len(prows)
  BY <1>1, ScopeFacts DEF IInv, NodesAreCurrent
<1>3. \A k \in DOMAIN prows : QuadsOfParent(k) \subseteq written
  BY <1>1, <1>2 DEF ParentsWritten, Through
<1>4. ASSUME NEW o \in ObjectNodes(mapping, db, ObjectMap, Row) \ {Nothing}
      PROVE  Quads(subj, pred, o, GraphsOf(Map.graphs \o Pom.graphs, Row)) \subseteq written
  <2>1. PICK i \in DOMAIN ParentResult : /\ Joins(ObjectMap.joins, Row, ParentResult[i])
                                         /\ o = SubjectNode(mapping[ObjectMap.parent], ParentResult[i])
    BY <1>2, <1>4 DEF ObjectNodes
  <2>2. PICK k \in DOMAIN prows : prows[k] = ParentResult[i]
    BY <1>1, <2>1 DEF RowsJoined
  <2>3. QuadsOfParent(k) = Quads(subj, pred, o, GraphsOf(Map.graphs \o Pom.graphs, Row))
    BY <2>1, <2>2, <1>4 DEF QuadsOfParent
  <2> QED
    BY <1>3, <2>3
<1> QED
  BY <1>2, <1>4 DEF QuadsOfPair, PairQuads, ObjectMap

LEMMA ObjectCompleted ==
  ASSUME ObjectsWritten, SamePredicate, at'["object"] = at["object"], at["object"] \in Nat,
         InObject, pc' = "object",
         QuadsOfPair(at["predicate"], at["object"]) \subseteq written'
  PROVE  ObjectsWritten'
<1>1. Map' = Map /\ Row' = Row /\ Pom' = Pom
  BY ScopesKept DEF SamePredicate, SamePom
<1>2. \A j : QuadsOfPair(at["predicate"], j)' = QuadsOfPair(at["predicate"], j)
  BY <1>1 DEF QuadsOfPair, SamePredicate, SamePom, SameRow
<1>3. /\ Through("object", InObject) = at["object"] - 1
      /\ Through("object", InObject)' = at["object"]
  BY DEF Through, InObject
<1>4. \A j \in 1 .. at["object"] : j \in 1 .. at["object"] - 1 \/ j = at["object"]
  OBVIOUS
<1>5. \A j \in 1 .. at["object"] : QuadsOfPair(at["predicate"], j) \subseteq written'
  <2>1. \A j \in 1 .. at["object"] - 1 : QuadsOfPair(at["predicate"], j) \subseteq written
    BY <1>3 DEF ObjectsWritten, SamePredicate
  <2> QED
    BY <1>4, <2>1 DEF SamePredicate, SamePom, SameRow
<1> QED
  BY <1>2, <1>3, <1>5 DEF ObjectsWritten

LEMMA ParentRowsExhaustedWritten ==
  ASSUME PInv, ParentRowsExhausted
  PROVE  (OuterWritten /\ InnerWritten)'
<1> USE DEF inputs, nodes
<1>1. /\ IInv /\ OuterWritten /\ AroundJoin /\ RowsJoined /\ ParentsWritten
      /\ pc = "parent" /\ pc' = "object" /\ at' = at /\ written' = written
      /\ at["parent"] = Len(prows) /\ at["object"] \in Nat
  BY DEF PInv, InnerWritten, AroundJoin, ParentRowsExhausted, IInv, TypeOK, Loops
<1>2. /\ ~InClass /\ ~InClass' /\ InPom /\ InPom' /\ InPredicate /\ InPredicate'
      /\ ~InJoin' /\ InObject
  BY <1>1 DEF InClass, InPom, InPredicate, InJoin, InObject
<1>3. SameRow /\ SamePom /\ SamePredicate
  BY <1>1, <1>2
  DEF SamePredicate, SamePom, SameRow, ParentRowsExhausted, IInv, TypeOK, InRow, Loops
<1>4. OuterWritten'
  BY <1>1, <1>3, OuterKept
<1>5. ClassesWritten'
  BY <1>1, <1>2, <1>3, ClassesKept DEF Through, ClassesWritten, SameRow, AroundJoin
<1>6. PomsWritten'
  BY <1>1, <1>2, <1>3, PomsKept DEF Through, AroundJoin
<1>7. PredicatesWritten'
  BY <1>1, <1>2, <1>3, PredicatesKept DEF Through, AroundJoin
<1>8. ObjectsWritten'
  BY <1>1, <1>2, <1>3, JoinIsWritten, ObjectCompleted DEF AroundJoin
<1> QED
  BY <1>1, <1>2, <1>4, <1>5, <1>6, <1>7, <1>8
  DEF InnerWritten, RowsJoined, ParentsWritten, ObjectIsCurrent, GraphsWritten

-----------------------------------------------------------------------------
(***************************************************************************)
(* The loop over the graph maps of one triple.                             *)
(***************************************************************************)
(* A step from one graph map to the next.                                  *)
NextGraph ==
  /\ pc = "graph" /\ pc' = "graph" /\ back' = back
  /\ at["graph"] < Len(GraphMaps)
  /\ at' = [at EXCEPT !["graph"] = @ + 1]
  /\ UNCHANGED << inputs, rows, prows, nodes >>
  /\ written \subseteq written'
  /\ written' \subseteq written \cup RowQuads(mapping, db, Map, Row)

LEMMA NextGraphKeeps ==
  ASSUME PInv, NextGraph
  PROVE  /\ OuterWritten' /\ ClassesWritten' /\ PomsWritten' /\ PredicatesWritten'
         /\ ObjectsWritten' /\ RowsJoined' /\ ParentsWritten' /\ ObjectIsCurrent'
         /\ \A i : Named(i)' = Named(i)
         /\ \A i : NodeOf(GraphMaps[i], Row)' = NodeOf(GraphMaps[i], Row)
<1> USE DEF inputs, nodes
<1>1. /\ IInv /\ OuterWritten /\ ClassesWritten /\ PomsWritten /\ PredicatesWritten /\ ObjectsWritten
      /\ RowsJoined /\ ParentsWritten /\ ObjectIsCurrent /\ pc = "graph" /\ pc' = "graph" /\ back' = back
  BY DEF PInv, InnerWritten, NextGraph
<1>2. /\ at'["class"] = at["class"] /\ at'["pom"] = at["pom"] /\ at'["predicate"] = at["predicate"]
      /\ at'["object"] = at["object"] /\ at'["parent"] = at["parent"]
  BY <1>1 DEF NextGraph, IInv, TypeOK, Loops
<1>3. /\ InClass' = InClass /\ InPom' = InPom /\ InPredicate' = InPredicate /\ InJoin' = InJoin
      /\ InObject' = InObject
  BY <1>1 DEF InClass, InPom, InPredicate, InJoin, InObject
<1>4. SameRow
  BY <1>1 DEF SameRow, NextGraph, IInv, TypeOK, InRow, Loops
<1>5. OuterWritten'
  BY <1>1, <1>4, OuterKept DEF NextGraph
<1>6. ClassesWritten'
  BY <1>1, <1>2, <1>3, <1>4, ClassesKept DEF Through, ClassesWritten, SameRow
<1>7. PomsWritten'
  BY <1>1, <1>2, <1>3, <1>4, PomsKept DEF Through
<1>8. InPom => SamePom /\ (InPredicate => SamePredicate /\ (InJoin => SameJoin))
  BY <1>2, <1>4 DEF SameJoin, SamePredicate, SamePom, NextGraph
<1>9. PredicatesWritten'
  <2>1. CASE InPom
    BY <1>1, <1>2, <1>3, <1>8, <2>1, PredicatesKept DEF Through
  <2>2. CASE ~InPom
    BY <1>3, <2>2 DEF PredicatesWritten
  <2> QED
    BY <2>1, <2>2
<1>10. ObjectsWritten'
  <2>1. CASE InPredicate
    <3>1. InPom
      BY <2>1 DEF InPredicate
    <3> QED
      BY <1>1, <1>2, <1>3, <1>8, <2>1, <3>1, ObjectsKept DEF Through
  <2>2. CASE ~InPredicate
    BY <1>3, <2>2 DEF ObjectsWritten
  <2> QED
    BY <2>1, <2>2
<1>11. RowsJoined' /\ ParentsWritten'
  <2>1. CASE InJoin
    <3>1. InPom /\ InPredicate
      BY <1>1, <2>1 DEF InPom, InPredicate, InJoin
    <3>2. SameJoin
      BY <1>8, <2>1, <3>1
    <3>3. Through("parent", pc = "graph")' = Through("parent", pc = "graph")
      BY <1>1, <1>2 DEF Through
    <3> QED
      BY <1>1, <3>2, <3>3, JoinKept, ParentsKept
  <2>2. CASE ~InJoin
    BY <1>3, <2>2 DEF RowsJoined, ParentsWritten
  <2> QED
    BY <2>1, <2>2
<1>12. Map' = Map /\ Row' = Row /\ Pom' = Pom /\ ObjectMap' = ObjectMap /\ GraphMaps' = GraphMaps
  <2>1. Map' = Map /\ Row' = Row
    BY <1>4, ScopesKept
  <2>2. Pom' = Pom
    BY <1>2, <2>1 DEF Pom
  <2> QED
    BY <1>1, <1>2, <2>1, <2>2 DEF ObjectMap, GraphMaps
<1>13. ObjectIsCurrent'
  BY <1>1, <1>2, <1>12 DEF ObjectIsCurrent, NextGraph
<1>14. \A i : NodeOf(GraphMaps[i], Row)' = NodeOf(GraphMaps[i], Row)
  BY <1>12
<1>15. \A i : Named(i)' = Named(i)
  BY <1>12 DEF Named
<1> QED
  BY <1>5, <1>6, <1>7, <1>9, <1>10, <1>11, <1>13, <1>14, <1>15

LEMMA SkipGraphWritten == ASSUME PInv, SkipGraph PROVE (OuterWritten /\ InnerWritten)'
<1> USE DEF inputs, nodes
<1>1. NextGraph /\ written' = written /\ emitted' = emitted /\ ~Named(at["graph"] + 1)
  BY DEF NextGraph, SkipGraph, Named
<1>2. /\ subj' = subj /\ pred' = pred /\ obj' = obj /\ at["graph"] \in Nat
      /\ at'["graph"] = at["graph"] + 1 /\ pc = "graph"
  BY DEF SkipGraph, PInv, IInv, TypeOK, Loops
<1>3. GraphsWritten
  BY DEF PInv, InnerWritten
<1>4. \A i \in 1 .. at["graph"] + 1 : i \in 1 .. at["graph"] \/ i = at["graph"] + 1
  BY <1>2
<1>5. \A i \in 1 .. at["graph"] : i \in 1 .. at["graph"] + 1
  BY <1>2
<1>6. GraphsWritten'
  BY <1>1, <1>2, <1>3, <1>4, <1>5, NextGraphKeeps DEF GraphsWritten
<1> QED
  BY <1>1, <1>6, NextGraphKeeps DEF InnerWritten

LEMMA WriteNamedGraphWritten == ASSUME PInv, WriteNamedGraph PROVE (OuterWritten /\ InnerWritten)'
<1> USE DEF inputs, nodes
<1> DEFINE g == NodeOf(GraphMaps[at["graph"] + 1], Row)
           quad == [s |-> subj, p |-> pred, o |-> obj, g |-> g]
<1>1. /\ subj' = subj /\ pred' = pred /\ obj' = obj /\ at["graph"] \in Nat
      /\ at'["graph"] = at["graph"] + 1 /\ pc = "graph" /\ at["graph"] < Len(GraphMaps)
      /\ IInv /\ SubjectIntact
  BY DEF WriteNamedGraph, PInv, IInv, TypeOK, Loops
<1>2. at["graph"] + 1 \in DOMAIN GraphMaps
  BY <1>1, ScopeFacts
<1>3. g \in GraphsOf(GraphMaps, Row) /\ Named(at["graph"] + 1)
  BY <1>2, NamedGraphs DEF WriteNamedGraph, Named
<1>4. written' = written \cup {quad} /\ quad \in RowQuads(mapping, db, Map, Row)
  <2>1. [subj EXCEPT !.lex = SubjectBytes] = subj /\ quad \in RowQuads(mapping, db, Map, Row)
    BY <1>1, <1>3, StatementOfRow
  <2> QED
    BY <2>1 DEF WriteNamedGraph, WriteStatement
<1>5. NextGraph /\ emitted' = TRUE
  BY <1>4 DEF NextGraph, WriteNamedGraph
<1>6. GraphsWritten
  BY DEF PInv, InnerWritten
<1>7. \A i \in 1 .. at["graph"] + 1 : i \in 1 .. at["graph"] \/ i = at["graph"] + 1
  BY <1>1
<1>8. GraphsWritten'
  <2>1. \A i \in 1 .. at["graph"] + 1 : Named(i) =>
          [s |-> subj, p |-> pred, o |-> obj, g |-> NodeOf(GraphMaps[i], Row)] \in written'
    BY <1>1, <1>4, <1>6, <1>7 DEF GraphsWritten
  <2>2. \E i \in 1 .. at["graph"] + 1 : Named(i)
    BY <1>1, <1>3
  <2> QED
    BY <1>1, <1>5, <2>1, <2>2, NextGraphKeeps DEF GraphsWritten
<1> QED
  BY <1>5, <1>8, NextGraphKeeps DEF InnerWritten

LEMMA WriteFailsWritten == ASSUME PInv, WriteFails PROVE (OuterWritten /\ InnerWritten)'
<1> USE DEF inputs, nodes
<1>1. IInv /\ OuterWritten /\ pc = "graph" /\ pc' = "failed" /\ written' = written /\ at' = at
  BY DEF PInv, WriteFails
<1>2. SameRow
  BY <1>1 DEF SameRow, WriteFails, IInv, TypeOK, InRow, Loops
<1> QED
  BY <1>1, <1>2, OuterKept, OutsideRows

(* After the last graph map, the triple is in every graph it belongs to.   *)
LEMMA TripleIsWritten ==
  ASSUME PInv, GraphsExhausted
  PROVE  /\ Quads(subj, pred, obj, GraphsOf(GraphMaps, Row)) \subseteq written'
         /\ written \subseteq written'
         /\ written' \subseteq written \cup RowQuads(mapping, db, Map, Row)
<1>1. /\ IInv /\ SubjectIntact /\ GraphsWritten /\ pc = "graph" /\ at["graph"] = Len(GraphMaps)
  BY DEF PInv, InnerWritten, GraphsExhausted
<1>2. DOMAIN GraphMaps = 1 .. at["graph"]
  BY <1>1, ScopeFacts
<1>3. CASE emitted
  <2>1. GraphsOf(GraphMaps, Row) = { NodeOf(GraphMaps[i], Row) : i \in DOMAIN GraphMaps }
                                   \ {Nothing, DefaultGraphNode}
    BY <1>1, <1>2, <1>3 DEF GraphsWritten, GraphsOf, Named
  <2>2. \A g \in GraphsOf(GraphMaps, Row) : [s |-> subj, p |-> pred, o |-> obj, g |-> g] \in written
    BY <1>1, <1>2, <2>1 DEF GraphsWritten, Named
  <2> QED
    BY <1>3, <2>2 DEF GraphsExhausted, Quads
<1>4. CASE ~emitted
  <2> DEFINE quad == [s |-> subj, p |-> pred, o |-> obj, g |-> DefaultGraphNode]
  <2>1. \A i \in DOMAIN GraphMaps : NodeOf(GraphMaps[i], Row) \in {Nothing, DefaultGraphNode}
    BY <1>1, <1>2, <1>4 DEF IInv, NodesAreCurrent
  <2>2. GraphsOf(GraphMaps, Row) = {DefaultGraphNode}
    BY <2>1 DEF GraphsOf
  <2>3. [subj EXCEPT !.lex = SubjectBytes] = subj /\ quad \in RowQuads(mapping, db, Map, Row)
    BY <1>1, <2>2, StatementOfRow
  <2>4. written' = written \cup {quad}
    BY <1>4, <2>3 DEF GraphsExhausted, WriteStatement
  <2> QED
    BY <2>2, <2>3, <2>4 DEF Quads
<1> QED
  BY <1>3, <1>4

LEMMA GraphsExhaustedWritten == ASSUME PInv, GraphsExhausted PROVE (OuterWritten /\ InnerWritten)'
<1> USE DEF inputs, nodes
<1>1. /\ IInv /\ OuterWritten /\ ClassesWritten /\ PomsWritten /\ PredicatesWritten /\ ObjectsWritten
      /\ RowsJoined /\ ParentsWritten /\ ObjectIsCurrent
      /\ pc = "graph" /\ pc' = back /\ back' = back /\ at' = at /\ pred' = pred /\ prows' = prows
      /\ back \in {"class", "object", "parent"} /\ \A l \in Loops : at[l] \in Nat
  BY DEF PInv, InnerWritten, GraphsExhausted, IInv, TypeOK
<1>2. Quads(subj, pred, obj, GraphsOf(GraphMaps, Row)) \subseteq written'
  BY TripleIsWritten
<1>3. SameRow
  BY <1>1, TripleIsWritten DEF SameRow, GraphsExhausted, IInv, TypeOK, InRow, Loops
<1>4. OuterWritten'
  BY <1>1, <1>3, TripleIsWritten, OuterKept
<1>5. /\ InPom' = InPom /\ InPredicate' = InPredicate /\ InJoin' = InJoin
      /\ ~InClass' /\ (InClass <=> back = "class") /\ (InPom <=> back # "class")
      /\ (InPredicate <=> back # "class") /\ (InJoin <=> back = "parent") /\ InObject
      /\ (InObject' <=> back = "parent")
  BY <1>1 DEF InClass, InPom, InPredicate, InJoin, InObject
<1>6. PomsWritten'
  BY <1>1, <1>3, <1>5, PomsKept DEF Through
<1>7. Map' = Map /\ Row' = Row
  BY <1>3, ScopesKept
<1>8. InRow /\ subj = SubjectNode(Map, Row)
  BY <1>3 DEF SameRow, PInv, IInv, NodesAreCurrent
<1>9. ObjectIsCurrent' /\ GraphsWritten'
  BY <1>1 DEF ObjectIsCurrent, GraphsWritten
<1>10. CASE back = "class"
  <2>1. /\ pred = ConstantIri(RdfType) /\ obj = ConstantIri(Map.classes[at["class"]])
        /\ GraphMaps = Map.graphs
    BY <1>1, <1>10 DEF IInv, NodesAreCurrent, GraphMaps
  <2>2. QuadsOfClass(at["class"]) \subseteq written'
    BY <1>2, <1>8, <2>1 DEF QuadsOfClass
  <2>3. \A c : QuadsOfClass(c)' = QuadsOfClass(c)
    BY <1>7 DEF QuadsOfClass
  <2>4. /\ Through("class", InClass) = at["class"] - 1
        /\ Through("class", InClass)' = at["class"]
    BY <1>1, <1>5, <1>10 DEF Through
  <2>5. \A c \in 1 .. at["class"] : c \in 1 .. at["class"] - 1 \/ c = at["class"]
    BY <1>1 DEF Loops
  <2>6. ClassesWritten'
    BY <1>1, <1>3, <1>8, <1>10, <2>2, <2>3, <2>4, <2>5 DEF ClassesWritten, SameRow
  <2> QED
    BY <1>4, <1>5, <1>6, <1>9, <1>10, <2>6
    DEF InnerWritten, PredicatesWritten, ObjectsWritten, RowsJoined, ParentsWritten
<1>11. CASE back # "class"
  <2>1. SamePom /\ SamePredicate
    BY <1>1, <1>3, <1>5, <1>11 DEF SamePredicate, SamePom
  <2>2. ClassesWritten'
    BY <1>1, <1>3, <1>5, <1>11, ClassesKept DEF Through, ClassesWritten, SameRow
  <2>3. PredicatesWritten'
    BY <1>1, <1>5, <2>1, PredicatesKept DEF Through
  <2>4. pred = NodeOf(Pom.preds[at["predicate"]], Row) /\ obj # Nothing /\ GraphMaps = Map.graphs \o Pom.graphs
    BY <1>1, <1>5, <1>11 DEF IInv, NodesAreCurrent, GraphMaps
  <2>5. CASE back = "object"
    <3>1. ObjectNodes(mapping, db, ObjectMap, Row) = {obj}
      BY <1>1, <2>5 DEF ObjectIsCurrent, ObjectNodes
    <3>2. QuadsOfPair(at["predicate"], at["object"]) \subseteq written'
      BY <1>2, <1>8, <2>4, <3>1 DEF QuadsOfPair, PairQuads, ObjectMap
    <3>3. ObjectsWritten'
      BY <1>1, <1>5, <2>1, <2>5, <3>2, ObjectCompleted DEF Loops
    <3> QED
      BY <1>4, <1>5, <1>6, <1>9, <2>2, <2>3, <2>5, <3>3
      DEF InnerWritten, RowsJoined, ParentsWritten
  <2>6. CASE back = "parent"
    <3>1. SameJoin
      BY <1>1, <1>5, <2>1, <2>6 DEF SameJoin
    <3>2. ObjectsWritten'
      BY <1>1, <1>5, <2>1, <2>6, ObjectsKept DEF Through
    <3>3. RowsJoined'
      BY <1>1, <3>1, JoinKept
    <3>4. QuadsOfParent(at["parent"]) \subseteq written'
      BY <1>1, <1>2, <2>4, <2>6 DEF ObjectIsCurrent, QuadsOfParent
    <3>5. \A k : QuadsOfParent(k)' = QuadsOfParent(k)
      BY <1>7, <3>1, ScopesKept DEF QuadsOfParent, SameJoin, SamePredicate, SamePom, SameRow
    <3>6. /\ Through("parent", pc = "graph") = at["parent"] - 1
          /\ Through("parent", pc = "graph")' = at["parent"]
      BY <1>1, <2>6 DEF Through
    <3>7. \A k \in 1 .. at["parent"] : k \in 1 .. at["parent"] - 1 \/ k = at["parent"]
      BY <1>1 DEF Loops
    <3>8. ParentsWritten'
      BY <1>1, <1>3, <1>5, <2>6, <3>4, <3>5, <3>6, <3>7 DEF ParentsWritten, SameRow
    <3> QED
      BY <1>4, <1>6, <1>9, <2>2, <2>3, <3>2, <3>3, <3>8 DEF InnerWritten
  <2> QED
    BY <1>1, <1>11, <2>5, <2>6
<1> QED
  BY <1>10, <1>11

-----------------------------------------------------------------------------
(***************************************************************************)
(* The theorems.                                                           *)
(***************************************************************************)
LEMMA InitPInv == Init => PInv
<1> SUFFICES ASSUME Init PROVE PInv
  OBVIOUS
<1>1. pc = "map" /\ at["map"] = 0 /\ written = {}
  BY DEF Init, Loops
<1>2. ~InRow /\ ~InPom /\ ~InPredicate /\ ~InJoin
  BY <1>1 DEF InRow, InPom, InPredicate, InJoin
<1>3. OuterWritten
  BY <1>1 DEF OuterWritten, MapsWritten, RowsWritten, NothingAhead, FinishedRows
<1>4. InnerWritten
  BY <1>1, <1>2
  DEF InnerWritten, ClassesWritten, PomsWritten, PredicatesWritten, ObjectsWritten, RowsJoined,
      ParentsWritten, ObjectIsCurrent, GraphsWritten
<1> QED
  BY <1>1, <1>2, <1>3, <1>4, InitIInv DEF PInv, SubjectIntact, WrittenIsDenoted

LEMMA StutterWritten == ASSUME PInv, UNCHANGED vars PROVE (OuterWritten /\ InnerWritten)'
<1>1. /\ Map' = Map /\ Row' = Row /\ Pom' = Pom /\ ObjectMap' = ObjectMap
      /\ ParentResult' = ParentResult /\ GraphMaps' = GraphMaps
  BY DEF vars, Map, Row, Pom, ObjectMap, ParentResult, GraphMaps
<1>2. /\ InRow' = InRow /\ InPom' = InPom /\ InPredicate' = InPredicate /\ InJoin' = InJoin
      /\ InClass' = InClass /\ InObject' = InObject
  BY DEF vars, InRow, InPom, InPredicate, InJoin, InClass, InObject
<1>3. /\ \A l, b : Through(l, b)' = Through(l, b)
      /\ \A r : QuadsOfRow(r)' = QuadsOfRow(r)
      /\ \A c : QuadsOfClass(c)' = QuadsOfClass(c)
      /\ \A q, j : QuadsOfPair(q, j)' = QuadsOfPair(q, j)
      /\ \A k : QuadsOfParent(k)' = QuadsOfParent(k)
      /\ \A i : Named(i)' = Named(i)
  BY <1>1 DEF vars, Through, QuadsOfRow, QuadsOfClass, QuadsOfPair, QuadsOfParent, Named
<1>4. OuterWritten'
  <2>1. FinishedRows' = FinishedRows
    BY <1>1 DEF vars, FinishedRows
  <2>2. Earlier' = Earlier /\ Finished' = Finished /\ Current' = Current
    BY <1>2, <1>3, <2>1 DEF vars, Earlier, Finished, Current
  <2> QED
    BY <1>1, <1>3, <2>1, <2>2
    DEF vars, PInv, OuterWritten, MapsWritten, RowsWritten, NothingAhead
<1> QED
  BY <1>1, <1>2, <1>3, <1>4
  DEF vars, PInv, InnerWritten, ClassesWritten, PomsWritten, PredicatesWritten, ObjectsWritten,
      RowsJoined, ParentsWritten, ObjectIsCurrent, GraphsWritten, Through

LEMMA NextPInv ==
  ASSUME PInv, [Next]_vars, \A mp \in Mappings : NoSelfReference(mp)
  PROVE  PInv'
<1>1. IInv' /\ SubjectIntact' /\ WrittenIsDenoted'
  BY NextIInv, NextIntact, NextDenoted DEF PInv
<1>2. (OuterWritten /\ InnerWritten)'
  BY StutterWritten, NextMapWritten, AllMapsDoneWritten, NextRowWritten, RowsExhaustedWritten,
     NextClassWritten, ClassesExhaustedWritten, NextPomWritten, PomsExhaustedWritten,
     NextPredicateWritten, PredicatesExhaustedWritten, NextRegularObjectWritten,
     NextReferencingObjectWritten, ObjectsExhaustedWritten, TestParentRowWritten,
     JoinCollectedWritten, NextParentRowWritten, ParentRowsExhaustedWritten,
     SkipGraphWritten, WriteNamedGraphWritten, GraphsExhaustedWritten, WriteFailsWritten
  DEF Next
<1> QED
  BY <1>1, <1>2 DEF PInv

(* At any moment of every run of every mapping over every database, the    *)
(* output holds what the earlier triples maps and rows denote and nothing  *)
(* of the later ones; a run that fails in a query or in a write leaves     *)
(* such a prefix behind.                                                   *)
THEOREM PrefixWritten ==
  ASSUME \A mp \in Mappings : NoSelfReference(mp)
  PROVE  Spec => []OutputIsPrefix
<1>1. Init => PInv
  BY InitPInv
<1>2. PInv /\ [Next]_vars => PInv'
  BY NextPInv
<1>3. PInv => OutputIsPrefix
  <2> HAVE PInv
  <2>1. Earlier \subseteq written /\ Finished \subseteq written
    BY DEF PInv, OuterWritten, MapsWritten, RowsWritten, Earlier, Finished
  <2>2. Earlier \cup Finished \subseteq written /\ written \subseteq (Earlier \cup Finished) \cup Current
    BY <2>1 DEF PInv, OuterWritten, NothingAhead
  <2>3. OutputIsPrefix = (/\ Earlier \cup Finished \subseteq written
                          /\ written \subseteq (Earlier \cup Finished) \cup Current)
    BY DEF OutputIsPrefix, Earlier, Finished, Current
  <2> QED
    BY <2>2, <2>3
<1> QED
  BY <1>1, <1>2, <1>3, PTL DEF Spec

(* A run that ends without an error has written the whole dataset.         *)
LEMMA CompleteAtTheEnd ==
  ASSUME PInv, AllMapsDone
  PROVE  written = Denotation(mapping, db)
<1>1. /\ IInv /\ MapsWritten /\ RowsWritten /\ WrittenIsDenoted
      /\ pc = "map" /\ at["map"] = Len(mapping) /\ at["map"] \in Nat
      /\ DOMAIN mapping = 1 .. Len(mapping)
  BY ScopeFacts DEF PInv, OuterWritten, AllMapsDone
<1>2. at["map"] > 0 => MapQuads(mapping, db, at["map"]) \subseteq written
  BY <1>1, MapIsFinished DEF RowsWritten, Finished
<1>3. \A n \in Nat : \A m \in 1 .. n : m \in 1 .. n - 1 \/ (m = n /\ n > 0)
  OBVIOUS
<1>4. \A m \in DOMAIN mapping : MapQuads(mapping, db, m) \subseteq written
  BY <1>1, <1>2, <1>3 DEF MapsWritten
<1> QED
  BY <1>1, <1>4 DEF WrittenIsDenoted, Denotation

(* What a step does to the output and to the outcome.                      *)
LEMMA StepsOfTheDump ==
  ASSUME IInv, Next
  PROVE  /\ mapping' = mapping /\ db' = db /\ pc \notin Stopped
         /\ \/ AllMapsDone /\ pc' = "done" /\ written' = written
            \/ pc' = "failed" /\ written' = written
            \/ pc' \notin Stopped /\ written' = written
            \/ WriteNamedGraph /\ pc' = "graph"
            \/ GraphsExhausted /\ ~emitted /\ pc' \notin Stopped
<1> USE DEF inputs, nodes, Stopped
<1>1. CASE NextMap
  BY <1>1 DEF NextMap
<1>2. CASE AllMapsDone
  BY <1>2 DEF AllMapsDone
<1>3. CASE NextRow \/ RowsExhausted \/ NextClass \/ ClassesExhausted \/ NextPom \/ PomsExhausted
  BY <1>3 DEF NextRow, RowsExhausted, NextClass, ClassesExhausted, NextPom, PomsExhausted
<1>4. CASE NextPredicate \/ PredicatesExhausted \/ NextRegularObject \/ ObjectsExhausted
  BY <1>4 DEF NextPredicate, PredicatesExhausted, NextRegularObject, ObjectsExhausted
<1>5. CASE NextReferencingObject
  BY <1>5 DEF NextReferencingObject
<1>6. CASE TestParentRow \/ JoinCollected \/ NextParentRow \/ ParentRowsExhausted
  BY <1>6 DEF TestParentRow, JoinCollected, NextParentRow, ParentRowsExhausted
<1>7. CASE SkipGraph \/ WriteNamedGraph \/ WriteFails
  BY <1>7 DEF SkipGraph, WriteNamedGraph, WriteFails
<1>8. CASE GraphsExhausted
  <2>1. pc' = back /\ back \in {"class", "object", "parent"}
    BY <1>8 DEF GraphsExhausted, IInv, TypeOK
  <2> QED
    BY <1>8, <2>1 DEF GraphsExhausted
<1> QED
  BY <1>1, <1>2, <1>3, <1>4, <1>5, <1>6, <1>7, <1>8 DEF Next

LEMMA NextDump == ASSUME PInv, [Next]_vars PROVE [Dump!Next]_(Dump!vars)
<1> USE DEF Stopped
<1>1. CASE UNCHANGED vars
  BY <1>1 DEF vars, Dump!vars
<1>2. CASE Next
  <2> DEFINE target == Denotation(mapping, db)
  <2>1. IInv /\ SubjectIntact
    BY DEF PInv
  <2>2. target' = target /\ pc \notin Stopped
    BY <1>2, <2>1, StepsOfTheDump
  <2>3. CASE AllMapsDone /\ pc' = "done" /\ written' = written
    BY <2>2, <2>3, CompleteAtTheEnd DEF Dump!Next, Dump!Complete
  <2>4. CASE pc' = "failed" /\ written' = written
    BY <2>2, <2>4 DEF Dump!Next, Dump!Abort
  <2>5. CASE pc' \notin Stopped /\ written' = written
    BY <2>2, <2>5 DEF Dump!vars
  <2>6. ASSUME NEW q \in target, written' = written \cup {q}, pc' \notin Stopped
        PROVE  Dump!Next
    <3>1. Dump!Write(q)
      BY <2>2, <2>6 DEF Dump!Write
    <3> QED
      BY <2>6, <3>1 DEF Dump!Next
  <2>7. CASE WriteNamedGraph /\ pc' = "graph"
    <3>1. at["graph"] + 1 \in DOMAIN GraphMaps /\ pc = "graph"
      BY <2>1, <2>7, ScopeFacts DEF WriteNamedGraph, IInv, TypeOK, Loops
    <3>2. NodeOf(GraphMaps[at["graph"] + 1], Row) \in GraphsOf(GraphMaps, Row)
      BY <2>7, <3>1, NamedGraphs DEF WriteNamedGraph
    <3> QED
      BY <2>1, <2>6, <2>7, <3>1, <3>2, StatementDenoted DEF WriteNamedGraph, WriteStatement
  <2>8. CASE GraphsExhausted /\ ~emitted /\ pc' \notin Stopped
    <3>1. \A i \in DOMAIN GraphMaps : NodeOf(GraphMaps[i], Row) \in {Nothing, DefaultGraphNode}
      BY <2>1, <2>8, ScopeFacts DEF GraphsExhausted, IInv, NodesAreCurrent
    <3>2. DefaultGraphNode \in GraphsOf(GraphMaps, Row) /\ pc = "graph"
      BY <2>8, <3>1, OnlyDefaultGraph DEF GraphsExhausted
    <3> QED
      BY <2>1, <2>6, <2>8, <3>2, StatementDenoted DEF GraphsExhausted, WriteStatement
  <2> QED
    BY <1>2, <2>1, <2>3, <2>4, <2>5, <2>7, <2>8, StepsOfTheDump
<1> QED
  BY <1>1, <1>2

(* processDatabase implements RdfDump, with the dataset that the mapping   *)
(* denotes as its target: it writes nothing but quads of the dataset, ends *)
(* without an error only when the output is the dataset, and writes no     *)
(* more once it has ended or failed.                                       *)
THEOREM DumpImplemented ==
  ASSUME \A mp \in Mappings : NoSelfReference(mp)
  PROVE  Spec => ImplementsDump
<1>1. Init => PInv
  BY InitPInv
<1>2. PInv /\ [Next]_vars => PInv'
  BY NextPInv
<1>3. Init => Dump!Init
  BY DEF Init, Dump!Init
<1>4. PInv /\ [Next]_vars => [Dump!Next]_(Dump!vars)
  BY NextDump
<1> QED
  BY <1>1, <1>2, <1>3, <1>4, PTL DEF Spec, ImplementsDump, Dump!Spec
=============================================================================
