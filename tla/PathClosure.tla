---------------------------- MODULE PathClosure ----------------------------
(***************************************************************************)
(* The property path E+ : translateOneOrMore chooses the shape of a        *)
(* TransitiveClosureNode from which endpoints are bound, and               *)
(* renderTransitiveClosure turns the node into a recursive common table    *)
(* expression over the one-hop relation of E.  The database evaluates the  *)
(* expression: first the seed, then the recursive term over the rows that  *)
(* the last round added, until a round adds none.                          *)
(*                                                                         *)
(* Terms are lexical forms, as in the generated SQL; `step' is the table   *)
(* of the step relation, its columns fromVar and toVar.                    *)
(***************************************************************************)

CONSTANTS Terms, Variables

VARIABLES step,      \* rows of the one-hop relation
          subject,   \* endpoints of the pattern `subject E+ object'
          object,
          closure,   \* rows of the recursive table
          delta,     \* rows that the last round added
          answers,   \* solution mappings the query returns
          phase

pattern == <<step, subject, object>>
vars == <<step, subject, object, closure, delta, answers, phase>>

IsVar(endpoint) == endpoint \in Variables

Mode == IF IsVar(subject)
          THEN IF IsVar(object) THEN "BothVars" ELSE "BackwardFromObject"
          ELSE IF IsVar(object) THEN "ForwardFromSubject" ELSE "BothBound"

Anchor == IF Mode = "BackwardFromObject" THEN object ELSE subject

\* The hops in the direction that leads away from the anchor.
Hops == IF Mode = "BackwardFromObject"
          THEN {hop \in Terms \X Terms : <<hop[2], hop[1]>> \in step}
          ELSE step

-----------------------------------------------------------------------------

(* One hop from the anchor, never the anchor itself; for two variables,    *)
(* every edge.                                                             *)
SeedRowsWithAnchor ==   \* variant: zero hops count
    IF Mode = "BothVars" THEN step ELSE {Anchor}

SeedRows ==
    IF Mode = "BothVars" THEN step ELSE {n \in Terms : <<Anchor, n>> \in Hops}

(* The recursive term: the given rows, each extended by one hop.           *)
Extended(rows) ==
    IF Mode = "BothVars"
      THEN {r \in Terms \X Terms :
              \E m \in Terms : <<r[1], m>> \in rows /\ <<m, r[2]>> \in step}
      ELSE {n \in Terms : \E m \in rows : <<m, n>> \in Hops}

(* Seed UNION recursive term: only rows not in the table yet are added.    *)
NewRowsAll == Extended(delta)   \* variant: UNION ALL

NewRows == Extended(delta) \ closure

(* What the outer query selects.  A pattern whose two endpoints are one    *)
(* variable keeps the diagonal; two bound endpoints project no column.     *)
DiagonalOmitted == closure   \* variant: ?x E+ ?x like ?x E+ ?y

Diagonal == {r \in closure : subject = object => r[1] = r[2]}

SelectedBindsObject ==   \* variant: every shape projects its rows
    {[v \in {object} |-> n] : n \in closure}

Selected ==
    CASE Mode = "BothVars" ->
           {[v \in {subject, object} |-> IF v = subject THEN r[1] ELSE r[2]] : r \in Diagonal}
      [] Mode = "ForwardFromSubject" -> {[v \in {object} |-> n] : n \in closure}
      [] Mode = "BackwardFromObject" -> {[v \in {subject} |-> n] : n \in closure}
      [] Mode = "BothBound" -> {[v \in {} |-> n] : n \in closure \cap {object}}

-----------------------------------------------------------------------------

Init == /\ step \in SUBSET (Terms \X Terms)
        /\ subject \in Terms \cup Variables
        /\ object \in Terms \cup Variables
        /\ closure = {} /\ delta = {} /\ answers = {}
        /\ phase = "seed"

Seed == /\ phase = "seed"
        /\ closure' = SeedRows
        /\ delta' = SeedRows
        /\ phase' = "recurse"
        /\ UNCHANGED <<pattern, answers>>

Recurse == /\ phase = "recurse" /\ delta # {}
           /\ closure' = closure \cup NewRows
           /\ delta' = NewRows
           /\ UNCHANGED <<pattern, answers, phase>>

Select == /\ phase = "recurse" /\ delta = {}
          /\ answers' = Selected
          /\ phase' = "done"
          /\ UNCHANGED <<pattern, closure, delta>>

Next == Seed \/ Recurse \/ Select

(* The database does not suspend a query it evaluates.                     *)
Spec == Init /\ [][Next]_vars /\ WF_vars(Next)

-----------------------------------------------------------------------------

(* What SPARQL 1.1 asks of E+ (section 18.4): `to' can be reached from     *)
(* `from' over one or more edges, that is, it is in every set of terms     *)
(* that contains the successors of `from' and of its own members.          *)
Reaches(from, to) ==
    \A S \in SUBSET Terms :
       (\A a, b \in Terms : <<a, b>> \in step /\ (a = from \/ a \in S) => b \in S)
         => to \in S

Solutions == [({subject, object} \cap Variables) -> Terms]

Value(solution, endpoint) == IF IsVar(endpoint) THEN solution[endpoint] ELSE endpoint

Denoted == {s \in Solutions : Reaches(Value(s, subject), Value(s, object))}

Rows == IF Mode = "BothVars" THEN Terms \X Terms ELSE Terms

TypeOK == /\ step \subseteq Terms \X Terms
          /\ subject \in Terms \cup Variables
          /\ object \in Terms \cup Variables
          /\ closure \subseteq Rows
          /\ delta \subseteq closure
          /\ answers \subseteq Solutions
          /\ phase \in {"seed", "recurse", "done"}

(* The term that a row of the table stands for is reached, over one hop or *)
(* more, in the direction of the pattern.  Holds of every row, at any      *)
(* moment of the evaluation, also on cyclic data.                          *)
RowHolds(r) ==
    CASE Mode = "BothVars" -> Reaches(r[1], r[2])
      [] Mode = "BackwardFromObject" -> Reaches(r, object)
      [] OTHER -> Reaches(subject, r)

RowsAreReached == \A r \in closure : RowHolds(r)

(* A row that no longer is in the working table has had all its extensions *)
(* added: what the evaluation may still find, it finds from `delta'.       *)
OnlyDeltaIsOpen ==
    phase # "seed" => /\ SeedRows \subseteq closure
                      /\ Extended(closure \ delta) \subseteq closure

(* The query for E+ returns exactly the solutions of SPARQL's definition,  *)
(* whichever endpoints are bound, whether they are the same variable or    *)
(* not, and also when an endpoint lies on a cycle.                         *)
AnswersAreDenoted == phase = "done" => answers = Denoted

(* The recursion ends, also on cyclic edge data: this is why the terms of  *)
(* the table are combined with UNION and not with UNION ALL.               *)
Terminates == <>(phase = "done")

=============================================================================
