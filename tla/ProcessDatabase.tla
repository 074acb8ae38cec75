--------------------------- MODULE ProcessDatabase ---------------------------
(***************************************************************************)
(* R2RMLMapping::processDatabase and everything it calls: the loops over   *)
(* triples maps, rows, classes, predicate-object maps, predicate maps,     *)
(* object maps, joined parent rows and graph maps, and the statements they *)
(* write.                                                                  *)
(*                                                                         *)
(* A subject node does not own its characters: it points into a buffer     *)
(* that belongs to the subject map and that the next evaluation of that    *)
(* map rewrites.  sbuf holds those buffers, one for each triples map.      *)
(* Predicate, regular object and graph maps have such buffers too, but     *)
(* each is evaluated at one place only and written before it is evaluated  *)
(* again; a subject map is evaluated at two, for its own rows and as the   *)
(* object of a referencing object map.                                     *)
(***************************************************************************)
EXTENDS R2RMLModel

CONSTANTS
  Mappings,    (* the mappings that may be run, sequences of triples maps  *)
  Databases,   (* the databases, functions from tables to query outcomes   *)
  Garbage      (* bytes that are the lexical form of no term               *)

(* The mappings are such as the parser builds, a query returns rows or none. *)
ASSUME InputsAssumption ==
  \A mp \in Mappings :
    /\ IsSequence(mp)
    /\ \A m \in DOMAIN mp :
         /\ MapWellFormed(mp, mp[m])
         /\ mp[m].table # NoTable =>
              \A d \in Databases :
                d[mp[m].table] \in {SqlError, NoResult} \/ IsSequence(d[mp[m].table])

VARIABLES
  mapping,  (* the mapping being executed                                  *)
  db,       (* what each logical table's query returns                     *)
  pc,       (* the loop that control is in                                 *)
  at,       (* the cursor of each loop                                     *)
  back,     (* where control returns after the statements of one triple    *)
  rows,     (* the rows of the current triples map                         *)
  prows,    (* the joined rows of the current referencing object map       *)
  subj, pred, obj,  (* the nodes of the triple being written               *)
  emitted,  (* forEachGraphNode has written the triple to a named graph    *)
  sbuf,     (* the buffers of the subject maps                             *)
  written   (* the quads handed to the Serd writer                         *)

inputs == << mapping, db >>
nodes  == << subj, pred, obj >>
vars   == << mapping, db, pc, at, back, rows, prows, subj, pred, obj, emitted, sbuf, written >>

Stopped == {"done", "failed"}
Loops   == {"map", "row", "class", "pom", "predicate", "object", "join", "parent", "graph"}

Map == mapping[at["map"]]
Row == rows[at["row"]]
Pom == Map.poms[at["pom"]]
ObjectMap == Pom.objs[at["object"]]
ParentResult == db[mapping[ObjectMap.parent].table]

(* The graph maps of the triple being written: rr:class triples have those *)
(* of the subject map only.                                                *)
GraphMaps == IF back = "class" THEN Map.graphs ELSE Map.graphs \o Pom.graphs

-----------------------------------------------------------------------------
(* Whether evaluating subject map sm writes to its buffer, and what: a      *)
(* template clears it before it can meet a NULL, a column leaves it alone  *)
(* then, a constant has none.                                              *)
HasBuffer(sm) == sm.kind \in {"template", "column"}

Rewrites(sm, row) ==
  HasBuffer(sm) /\ (YieldsNothing(sm, row) => sm.kind = "template")

Content(sm, row) == IF YieldsNothing(sm, row) THEN Garbage ELSE Expansion(sm, row)

(* The buffers once the subject map of triples map m has made a new node.  *)
Refilled(m, row) ==
  IF Rewrites(mapping[m].subject, row)
    THEN [sbuf EXCEPT ![m] = Content(mapping[m].subject, row)]
    ELSE sbuf

(* What a node that the same subject map made earlier shows after that:    *)
(* the new content, or no term after a reallocation or a change of length. *)
(* A template appends in place, so the same content keeps the storage; a   *)
(* column moves a new string into its buffer, which may free the old one.  *)
BytesAfter(m, row) ==
  LET sm == mapping[m].subject
  IN  IF ~Rewrites(sm, row) \/ (sm.kind = "template" /\ sbuf[m] = Content(sm, row))
        THEN {sbuf[m]}
        ELSE {Content(sm, row), Garbage}

(* The bytes that the writer finds behind the subject node.                *)
SubjectBytes == IF HasBuffer(Map.subject) THEN sbuf[at["map"]] ELSE subj.lex

-----------------------------------------------------------------------------
Init ==
  /\ mapping \in Mappings
  /\ db \in Databases
  /\ pc = "map"
  /\ at = [l \in Loops |-> 0]
  /\ back = "class"
  /\ rows = << >>
  /\ prows = << >>
  /\ subj = Nothing /\ pred = Nothing /\ obj = Nothing
  /\ emitted = FALSE
  /\ sbuf = [m \in DOMAIN mapping |-> Garbage]
  /\ written = {}

-----------------------------------------------------------------------------
(***************************************************************************)
(* Defective variants of some actions below, each a slip that the code     *)
(* could contain.  No specification uses them: the properties are tested   *)
(* against them.                                                           *)
(***************************************************************************)
(* The result set of the joined rows keeps its old position.               *)
JoinCollectedNoRewind ==
  /\ pc = "join"
  /\ at["join"] = Len(ParentResult)
  /\ pc' = "parent"
  /\ UNCHANGED << inputs, at, back, rows, prows, nodes, emitted, sbuf, written >>

(* The vector of matched rows outlives its join.                           *)
ReferencingObjectKeepsRows ==
  /\ pc = "object"
  /\ at["object"] < Len(Pom.objs)
  /\ Pom.objs[at["object"] + 1].rom
  /\ at' = [at EXCEPT !["object"] = @ + 1, !["join"] = 0]
  /\ LET om == Pom.objs[at["object"] + 1] IN
       pc' = IF mapping[om.parent].table = NoTable THEN pc
             ELSE IF db[mapping[om.parent].table] = NoResult THEN pc
             ELSE IF db[mapping[om.parent].table] = SqlError THEN "failed"
             ELSE "join"
  /\ UNCHANGED << inputs, back, rows, prows, nodes, emitted, sbuf, written >>

(* All subject maps share one static buffer.                               *)
NextParentRowSharedBuffer ==
  /\ pc = "parent"
  /\ at["parent"] < Len(prows)
  /\ at' = [at EXCEPT !["parent"] = @ + 1, !["graph"] = 0]
  /\ \E bytes \in BytesAfter(ObjectMap.parent, prows[at["parent"] + 1]) :
       sbuf' = [m \in DOMAIN sbuf |-> bytes]
  /\ obj' = SubjectNode(mapping[ObjectMap.parent], prows[at["parent"] + 1])
  /\ pc' = IF obj' = Nothing THEN "parent" ELSE "graph"
  /\ back' = "parent"
  /\ emitted' = FALSE
  /\ UNCHANGED << inputs, rows, prows, subj, pred, written >>

(* The result set of the joined rows does not move on.                     *)
NextParentRowNoAdvance ==
  /\ pc = "parent"
  /\ at["parent"] < Len(prows)
  /\ at' = [at EXCEPT !["graph"] = 0]
  /\ obj' = SubjectNode(mapping[ObjectMap.parent], prows[at["parent"] + 1])
  /\ pc' = IF obj' = Nothing THEN "parent" ELSE "graph"
  /\ back' = "parent"
  /\ emitted' = FALSE
  /\ UNCHANGED << inputs, rows, prows, subj, pred, sbuf, written >>

(* A parent row is kept whatever the join conditions say.                  *)
TestParentRowKeepsAll ==
  /\ pc = "join"
  /\ at["join"] < Len(ParentResult)
  /\ at' = [at EXCEPT !["join"] = @ + 1]
  /\ prows' = Append(prows, ParentResult[at["join"] + 1])
  /\ UNCHANGED << inputs, pc, back, rows, nodes, emitted, sbuf, written >>

(* A null object or predicate leaves its loop instead of being skipped.    *)
NextRegularObjectBreaks ==
  /\ pc = "object"
  /\ at["object"] < Len(Pom.objs)
  /\ ~Pom.objs[at["object"] + 1].rom
  /\ at' = [at EXCEPT !["object"] = @ + 1, !["graph"] = 0]
  /\ obj' = ObjectNode(Pom.objs[at["object"] + 1].map, Row)
  /\ pc' = IF obj' = Nothing THEN "predicate" ELSE "graph"
  /\ back' = "object"
  /\ emitted' = FALSE
  /\ UNCHANGED << inputs, rows, prows, subj, pred, sbuf, written >>

NextPredicateBreaks ==
  /\ pc = "predicate"
  /\ at["predicate"] < Len(Pom.preds)
  /\ at' = [at EXCEPT !["predicate"] = @ + 1, !["object"] = 0]
  /\ pred' = NodeOf(Pom.preds[at["predicate"] + 1], Row)
  /\ pc' = IF pred' = Nothing THEN "pom" ELSE "object"
  /\ UNCHANGED << inputs, back, rows, prows, subj, obj, emitted, sbuf, written >>

-----------------------------------------------------------------------------
(* The loop of processDatabase over the triples maps: an invalid one is    *)
(* skipped, the query of a valid one may throw or return no result set.    *)
NextMap ==
  /\ pc = "map"
  /\ at["map"] < Len(mapping)
  /\ LET tm == mapping[at["map"] + 1] IN
       /\ at' = [at EXCEPT !["map"] = @ + 1, !["row"] = 0]
       /\ \/ /\ ~TriplesMapValid(tm)
             /\ UNCHANGED << pc, rows >>
          \/ /\ TriplesMapValid(tm)
             /\ db[tm.table] = NoResult
             /\ UNCHANGED << pc, rows >>
          \/ /\ TriplesMapValid(tm)
             /\ db[tm.table] = SqlError
             /\ pc' = "failed"
             /\ UNCHANGED rows
          \/ /\ TriplesMapValid(tm)
             /\ db[tm.table] \notin {SqlError, NoResult}
             /\ pc' = "row"
             /\ rows' = db[tm.table]
  /\ UNCHANGED << inputs, back, prows, nodes, emitted, sbuf, written >>

AllMapsDone ==
  /\ pc = "map"
  /\ at["map"] = Len(mapping)
  /\ pc' = "done"
  /\ UNCHANGED << inputs, at, back, rows, prows, nodes, emitted, sbuf, written >>

(* generateTriples: the subject of the row; a null one skips the row.      *)
NextRow ==
  /\ pc = "row"
  /\ at["row"] < Len(rows)
  /\ at' = [at EXCEPT !["row"] = @ + 1, !["class"] = 0, !["pom"] = 0]
  /\ sbuf' = Refilled(at["map"], rows[at["row"] + 1])
  /\ subj' = SubjectNode(Map, rows[at["row"] + 1])
  /\ pc' = IF subj' = Nothing THEN "row" ELSE "class"
  /\ UNCHANGED << inputs, back, rows, prows, pred, obj, emitted, written >>

RowsExhausted ==
  /\ pc = "row"
  /\ at["row"] = Len(rows)
  /\ pc' = "map"
  /\ UNCHANGED << inputs, at, back, rows, prows, nodes, emitted, sbuf, written >>

(* One rdf:type triple for each rr:class.                                  *)
NextClass ==
  /\ pc = "class"
  /\ at["class"] < Len(Map.classes)
  /\ at' = [at EXCEPT !["class"] = @ + 1, !["graph"] = 0]
  /\ pred' = ConstantIri(RdfType)
  /\ obj' = ConstantIri(Map.classes[at["class"] + 1])
  /\ back' = "class"
  /\ emitted' = FALSE
  /\ pc' = "graph"
  /\ UNCHANGED << inputs, rows, prows, subj, sbuf, written >>

ClassesExhausted ==
  /\ pc = "class"
  /\ at["class"] = Len(Map.classes)
  /\ pc' = "pom"
  /\ UNCHANGED << inputs, at, back, rows, prows, nodes, emitted, sbuf, written >>

NextPom ==
  /\ pc = "pom"
  /\ at["pom"] < Len(Map.poms)
  /\ at' = [at EXCEPT !["pom"] = @ + 1, !["predicate"] = 0]
  /\ pc' = "predicate"
  /\ UNCHANGED << inputs, back, rows, prows, nodes, emitted, sbuf, written >>

PomsExhausted ==
  /\ pc = "pom"
  /\ at["pom"] = Len(Map.poms)
  /\ pc' = "row"
  /\ UNCHANGED << inputs, at, back, rows, prows, nodes, emitted, sbuf, written >>

(* processRow: a null predicate skips every object map.                    *)
NextPredicate ==
  /\ pc = "predicate"
  /\ at["predicate"] < Len(Pom.preds)
  /\ at' = [at EXCEPT !["predicate"] = @ + 1, !["object"] = 0]
  /\ pred' = NodeOf(Pom.preds[at["predicate"] + 1], Row)
  /\ pc' = IF pred' = Nothing THEN "predicate" ELSE "object"
  /\ UNCHANGED << inputs, back, rows, prows, subj, obj, emitted, sbuf, written >>

PredicatesExhausted ==
  /\ pc = "predicate"
  /\ at["predicate"] = Len(Pom.preds)
  /\ pc' = "pom"
  /\ UNCHANGED << inputs, at, back, rows, prows, nodes, emitted, sbuf, written >>

(* A regular object map: a null object is skipped.                         *)
NextRegularObject ==
  /\ pc = "object"
  /\ at["object"] < Len(Pom.objs)
  /\ ~Pom.objs[at["object"] + 1].rom
  /\ at' = [at EXCEPT !["object"] = @ + 1, !["graph"] = 0]
  /\ obj' = ObjectNode(Pom.objs[at["object"] + 1].map, Row)
  /\ pc' = IF obj' = Nothing THEN "object" ELSE "graph"
  /\ back' = "object"
  /\ emitted' = FALSE
  /\ UNCHANGED << inputs, rows, prows, subj, pred, sbuf, written >>

(* A referencing object map runs the parent's query again for every child  *)
(* row.  Without a parent, or a result set, there is nothing to join.      *)
NextReferencingObject ==
  /\ pc = "object"
  /\ at["object"] < Len(Pom.objs)
  /\ LET om == Pom.objs[at["object"] + 1] IN
       /\ om.rom
       /\ at' = [at EXCEPT !["object"] = @ + 1, !["join"] = 0]
       /\ \/ /\ om.parent = 0 \/ mapping[om.parent].table = NoTable
             /\ UNCHANGED << pc, prows >>
          \/ /\ om.parent # 0
             /\ mapping[om.parent].table # NoTable
             /\ LET result == db[mapping[om.parent].table] IN
                  \/ /\ result = NoResult
                     /\ UNCHANGED << pc, prows >>
                  \/ /\ result = SqlError
                     /\ pc' = "failed"
                     /\ UNCHANGED prows
                  \/ /\ result \notin {NoResult, SqlError}
                     /\ pc' = "join"
                     /\ prows' = << >>
  /\ UNCHANGED << inputs, back, rows, nodes, emitted, sbuf, written >>

(* getJoinedRows tests one parent row and keeps a copy of it if it         *)
(* satisfies every join condition.                                         *)
TestParentRow ==
  /\ pc = "join"
  /\ at["join"] < Len(ParentResult)
  /\ at' = [at EXCEPT !["join"] = @ + 1]
  /\ prows' = IF Joins(ObjectMap.joins, Row, ParentResult[at["join"] + 1])
                THEN Append(prows, ParentResult[at["join"] + 1])
                ELSE prows
  /\ UNCHANGED << inputs, pc, back, rows, nodes, emitted, sbuf, written >>

JoinCollected ==
  /\ pc = "join"
  /\ at["join"] = Len(ParentResult)
  /\ at' = [at EXCEPT !["parent"] = 0]
  /\ pc' = "parent"
  /\ UNCHANGED << inputs, back, rows, prows, nodes, emitted, sbuf, written >>

ObjectsExhausted ==
  /\ pc = "object"
  /\ at["object"] = Len(Pom.objs)
  /\ pc' = "predicate"
  /\ UNCHANGED << inputs, at, back, rows, prows, nodes, emitted, sbuf, written >>

(* The parent's subject for one joined row is the object; evaluating it    *)
(* rewrites the parent's buffer.                                           *)
NextParentRow ==
  /\ pc = "parent"
  /\ at["parent"] < Len(prows)
  /\ at' = [at EXCEPT !["parent"] = @ + 1, !["graph"] = 0]
  /\ \E bytes \in BytesAfter(ObjectMap.parent, prows[at["parent"] + 1]) :
       sbuf' = [sbuf EXCEPT ![ObjectMap.parent] = bytes]
  /\ obj' = SubjectNode(mapping[ObjectMap.parent], prows[at["parent"] + 1])
  /\ pc' = IF obj' = Nothing THEN "parent" ELSE "graph"
  /\ back' = "parent"
  /\ emitted' = FALSE
  /\ UNCHANGED << inputs, rows, prows, subj, pred, written >>

ParentRowsExhausted ==
  /\ pc = "parent"
  /\ at["parent"] = Len(prows)
  /\ pc' = "object"
  /\ UNCHANGED << inputs, at, back, rows, prows, nodes, emitted, sbuf, written >>

-----------------------------------------------------------------------------
(* serd_writer_write_statement into graph g.                               *)
WriteStatement(g) ==
  written' = written \cup
    {[s |-> [subj EXCEPT !.lex = SubjectBytes], p |-> pred, o |-> obj, g |-> g]}

(* forEachGraphNode: a graph map that is null or the default graph is      *)
(* passed over, any other gets the triple.                                 *)
SkipGraph ==
  /\ pc = "graph"
  /\ at["graph"] < Len(GraphMaps)
  /\ NodeOf(GraphMaps[at["graph"] + 1], Row) \in {Nothing, DefaultGraphNode}
  /\ at' = [at EXCEPT !["graph"] = @ + 1]
  /\ UNCHANGED << inputs, pc, back, rows, prows, nodes, emitted, sbuf, written >>

WriteNamedGraph ==
  /\ pc = "graph"
  /\ at["graph"] < Len(GraphMaps)
  /\ NodeOf(GraphMaps[at["graph"] + 1], Row) \notin {Nothing, DefaultGraphNode}
  /\ WriteStatement(NodeOf(GraphMaps[at["graph"] + 1], Row))
  /\ at' = [at EXCEPT !["graph"] = @ + 1]
  /\ emitted' = TRUE
  /\ UNCHANGED << inputs, pc, back, rows, prows, nodes, sbuf >>

(* After the last graph map: the default graph if no named one was used.   *)
GraphsExhausted ==
  /\ pc = "graph"
  /\ at["graph"] = Len(GraphMaps)
  /\ IF emitted THEN UNCHANGED written ELSE WriteStatement(DefaultGraphNode)
  /\ pc' = back
  /\ UNCHANGED << inputs, at, back, rows, prows, nodes, emitted, sbuf >>

(* checkWriteStatus: any status but success throws, and nothing between    *)
(* here and the caller of processDatabase catches it.                      *)
WriteFails ==
  /\ pc = "graph"
  /\ \/ at["graph"] < Len(GraphMaps) /\ NodeOf(GraphMaps[at["graph"] + 1], Row) \notin {Nothing, DefaultGraphNode}
     \/ at["graph"] = Len(GraphMaps) /\ ~emitted
  /\ pc' = "failed"
  /\ UNCHANGED << inputs, at, back, rows, prows, nodes, emitted, sbuf, written >>

Next ==
  \/ NextMap             \/ AllMapsDone
  \/ NextRow             \/ RowsExhausted
  \/ NextClass           \/ ClassesExhausted
  \/ NextPom             \/ PomsExhausted
  \/ NextPredicate       \/ PredicatesExhausted
  \/ NextRegularObject   \/ NextReferencingObject \/ ObjectsExhausted
  \/ TestParentRow       \/ JoinCollected
  \/ NextParentRow       \/ ParentRowsExhausted
  \/ SkipGraph           \/ WriteNamedGraph       \/ GraphsExhausted
  \/ WriteFails

Spec == Init /\ [][Next]_vars

(* One thread runs the conversion and none of its calls blocks for ever.   *)
FairSpec == Spec /\ WF_vars(Next)
-----------------------------------------------------------------------------
(* The loops that control is inside, the innermost one included.           *)
InMap       == pc \in Loops \ {"map"}
InRow       == pc \in Loops \ {"map", "row"}
InPom       == pc \in {"predicate", "object", "join", "parent"} \/ (pc = "graph" /\ back # "class")
InPredicate == InPom /\ pc # "predicate"
InJoin      == pc \in {"join", "parent"} \/ (pc = "graph" /\ back = "parent")

CursorsInRange ==
  /\ at["map"] <= Len(mapping)
  /\ InMap => at["map"] > 0 /\ at["row"] <= Len(rows)
  /\ InRow => at["row"] > 0 /\ at["class"] <= Len(Map.classes) /\ at["pom"] <= Len(Map.poms)
  /\ InPom => at["pom"] > 0 /\ at["predicate"] <= Len(Pom.preds)
  /\ InPredicate => at["predicate"] > 0 /\ at["object"] <= Len(Pom.objs)
  /\ InJoin => at["object"] > 0
  /\ pc = "join" => at["join"] <= Len(ParentResult)
  /\ InJoin /\ pc # "join" => at["parent"] <= Len(prows)
  /\ pc = "graph" => at["graph"] <= Len(GraphMaps)

(* The cursor of every loop that control is inside selects an element of   *)
(* the vector it runs over, and that of the innermost loop is in range.    *)
TypeOK ==
  /\ mapping \in Mappings /\ db \in Databases
  /\ pc \in Loops \cup Stopped
  /\ back \in {"class", "object", "parent"}
  /\ emitted \in BOOLEAN
  /\ at \in [Loops -> Nat]
  /\ DOMAIN sbuf = DOMAIN mapping
  /\ CursorsInRange

(* The rows of the parent that the row being processed joins with.         *)
MatchingRows ==
  { ParentResult[i] : i \in { i \in DOMAIN ParentResult : Joins(ObjectMap.joins, Row, ParentResult[i]) } }

(* The rows and nodes that a loop has left behind are never used in        *)
(* another: subject, predicate, joined rows and object all belong to the   *)
(* row, the maps and the triple that the cursors select.                   *)
NodesAreCurrent ==
  /\ InMap => /\ TriplesMapValid(Map)
              /\ db[Map.table] \notin {SqlError, NoResult}
              /\ rows = db[Map.table]
  /\ InRow => subj = SubjectNode(Map, Row) /\ subj # Nothing
  /\ InPredicate => pred = NodeOf(Pom.preds[at["predicate"]], Row) /\ pred # Nothing
  /\ InJoin => /\ ObjectMap.rom
               /\ ParentResult = ParentRows(mapping, db, ObjectMap)
               /\ IsSequence(ParentResult)
               /\ prows \in Seq(MatchingRows)
  /\ pc = "graph" =>
       /\ obj # Nothing
       /\ back = "class" => /\ at["class"] > 0
                            /\ pred = ConstantIri(RdfType)
                            /\ obj = ConstantIri(Map.classes[at["class"]])
       /\ back # "class" => at["object"] > 0 /\ obj \in ObjectNodes(mapping, db, ObjectMap, Row)
       /\ ~emitted => \A i \in 1 .. at["graph"] : NodeOf(GraphMaps[i], Row) \in {Nothing, DefaultGraphNode}

(* The buffer behind the subject node still holds that subject for as long *)
(* as the node may be written.  TemplateTermMap.h says of the buffer that  *)
(* it "keeps buf pointer in returned SerdNode valid".                      *)
SubjectIntact ==
  InRow => SubjectBytes = SubjectNode(Map, Row).lex

(* The mappings whose runs keep it: no triples map refers to itself from   *)
(* an object map while its own subject lives in a buffer.                  *)
NoSelfReference(mp) ==
  \A m \in DOMAIN mp : HasBuffer(mp[m].subject) =>
    \A p \in DOMAIN mp[m].poms : \A o \in DOMAIN mp[m].poms[p].objs :
      mp[m].poms[p].objs[o].rom => mp[m].poms[p].objs[o].parent # m

(* Every statement written is one the mapping denotes: no statement mixes  *)
(* the subject, the object or the graphs of different rows.                *)
WrittenIsDenoted == written \subseteq Denotation(mapping, db)

(* At any moment, also when the run fails, the output holds all quads of   *)
(* the earlier triples maps and rows and nothing of the later ones: only   *)
(* the current row is partial.  Neither the query that a join issues in    *)
(* the middle of a row nor a null term loses a row ("Rows 2 and 3 must     *)
(* never have been reached", tests/test_process_database.cpp:451).         *)
QuadsOfRow(r) == RowQuads(mapping, db, Map, RowsOf(db, Map)[r])

FinishedRows ==
  IF at["map"] = 0 THEN {}
  ELSE { r \in DOMAIN RowsOf(db, Map) : r < at["row"] \/ (r = at["row"] /\ pc \in {"row", "map", "done"}) }

OutputIsPrefix ==
  LET before == (UNION { MapQuads(mapping, db, m) : m \in 1 .. at["map"] - 1 })
                \cup (UNION { QuadsOfRow(r) : r \in FinishedRows })
      current == IF InRow \/ (pc = "failed" /\ at["row"] > 0) THEN QuadsOfRow(at["row"]) ELSE {}
  IN  before \subseteq written /\ written \subseteq before \cup current

(* The conversion as a whole: it implements RdfDump with the denotation of *)
(* the mapping as its target.                                              *)
Dump == INSTANCE RdfDump WITH
          target  <- Denotation(mapping, db),
          written <- written,
          outcome <- CASE pc = "done" -> "complete"
                       [] pc = "failed" -> "aborted"
                       [] OTHER -> "running"

ImplementsDump == Dump!Spec

(* Every conversion ends, with the nested loops and the queries inside     *)
(* them, whether a statement fails or not.                                 *)
Terminates == <>(pc \in Stopped)
=============================================================================
