------------------------- MODULE PathClosureProofs -------------------------
(***************************************************************************)
(* For all sets of terms, finite or not, and all step relations: the       *)
(* recursive query returns nothing that SPARQL does not ask for, and when  *)
(* it ends it has returned everything.  The argument is that of a least    *)
(* fixed point: a row is added only if it is reached (soundness), and the  *)
(* finished table is closed under a further hop, so that it is one of the  *)
(* sets over which Reaches quantifies (completeness).                      *)
(***************************************************************************)
EXTENDS PathClosure, TLAPS

Modes == {"BothVars", "BackwardFromObject", "ForwardFromSubject", "BothBound"}

IInv == /\ TypeOK
        /\ RowsAreReached
        /\ OnlyDeltaIsOpen
        /\ phase = "seed" => closure = {} /\ delta = {}
        /\ phase = "done" => delta = {} /\ answers = Selected

-----------------------------------------------------------------------------
(* Facts about Reaches.                                                    *)

LEMMA OneHop ==
    ASSUME NEW a \in Terms, NEW b \in Terms, <<a, b>> \in step
    PROVE  Reaches(a, b)
BY DEF Reaches

LEMMA HopAtEnd ==
    ASSUME NEW a \in Terms, NEW m \in Terms, NEW b \in Terms,
           Reaches(a, m), <<m, b>> \in step
    PROVE  Reaches(a, b)
BY DEF Reaches

LEMMA HopAtStart ==
    ASSUME NEW a \in Terms, NEW m \in Terms, NEW b \in Terms,
           <<a, m>> \in step, Reaches(m, b)
    PROVE  Reaches(a, b)
<1> SUFFICES ASSUME NEW S \in SUBSET Terms,
                    \A u, v \in Terms : <<u, v>> \in step /\ (u = a \/ u \in S) => v \in S
             PROVE  b \in S
  BY DEF Reaches
<1>1. m \in S
  OBVIOUS
<1>2. \A u, v \in Terms : <<u, v>> \in step /\ (u = m \/ u \in S) => v \in S
  BY <1>1
<1> QED
  BY <1>2 DEF Reaches

LEMMA ForwardLeast ==
    ASSUME NEW a \in Terms, NEW C \in SUBSET Terms,
           \A n \in Terms : <<a, n>> \in step => n \in C,
           \A m \in C, n \in Terms : <<m, n>> \in step => n \in C,
           NEW b \in Terms, Reaches(a, b)
    PROVE  b \in C
BY DEF Reaches

(* Walking back from b collects every term that reaches b: its complement, *)
(* without b, would otherwise be a set that a cannot leave.                *)
LEMMA BackwardLeast ==
    ASSUME NEW b \in Terms, NEW C \in SUBSET Terms,
           \A n \in Terms : <<n, b>> \in step => n \in C,
           \A m \in C, n \in Terms : <<n, m>> \in step => n \in C,
           NEW a \in Terms, Reaches(a, b)
    PROVE  a \in C
<1> SUFFICES ASSUME a \notin C PROVE FALSE
  OBVIOUS
<1> DEFINE S == Terms \ (C \cup {b})
<1>1. \A u, v \in Terms : <<u, v>> \in step /\ (u = a \/ u \in S) => v \in S
  OBVIOUS
<1>2. b \notin S /\ S \in SUBSET Terms
  OBVIOUS
<1> HIDE DEF S
<1> QED
  BY <1>1, <1>2 DEF Reaches

-----------------------------------------------------------------------------
(* Facts about the generated query.                                        *)

LEMMA ModeCases == Mode \in Modes
BY DEF Mode, Modes

LEMMA SeedIsReached ==
    ASSUME TypeOK
    PROVE  /\ SeedRows \subseteq Rows
           /\ \A r \in SeedRows : RowHolds(r)
<1>1. CASE Mode = "BothVars"
  <2>1. SUFFICES ASSUME NEW r \in step PROVE r \in Terms \X Terms /\ Reaches(r[1], r[2])
    BY <1>1 DEF SeedRows, Rows, RowHolds
  <2>2. r \in Terms \X Terms
    BY DEF TypeOK
  <2>3. <<r[1], r[2]>> \in step /\ r[1] \in Terms /\ r[2] \in Terms
    BY <2>2
  <2> QED
    BY <2>2, <2>3, OneHop
<1>2. CASE Mode = "BackwardFromObject"
  <2>1. ~IsVar(object) /\ object \in Terms
    BY <1>2 DEF Mode, IsVar, TypeOK
  <2>2. SUFFICES ASSUME NEW r \in SeedRows PROVE r \in Terms /\ Reaches(r, object)
    BY <1>2 DEF Rows, RowHolds
  <2>3. r \in Terms /\ <<r, object>> \in step
    BY <1>2 DEF SeedRows, Hops, Anchor
  <2> QED
    BY <2>1, <2>3, OneHop
<1>3. CASE Mode \notin {"BothVars", "BackwardFromObject"}
  <2>1. ~IsVar(subject) /\ subject \in Terms
    BY <1>3 DEF Mode, IsVar, TypeOK
  <2>2. SUFFICES ASSUME NEW r \in SeedRows PROVE r \in Terms /\ Reaches(subject, r)
    BY <1>3 DEF Rows, RowHolds
  <2>3. r \in Terms /\ <<subject, r>> \in step
    BY <1>3 DEF SeedRows, Hops, Anchor
  <2> QED
    BY <2>1, <2>3, OneHop
<1> QED
  BY <1>1, <1>2, <1>3

LEMMA ExtendedIsReached ==
    ASSUME TypeOK, RowsAreReached
    PROVE  /\ Extended(delta) \subseteq Rows
           /\ \A r \in Extended(delta) : RowHolds(r)
<1> USE DEF TypeOK
<1>1. CASE Mode = "BothVars"
  <2>1. SUFFICES ASSUME NEW r \in Extended(delta) PROVE r \in Terms \X Terms /\ Reaches(r[1], r[2])
    BY <1>1 DEF Rows, RowHolds
  <2>2. r \in Terms \X Terms
    BY <1>1 DEF Extended
  <2>3. PICK m \in Terms : <<r[1], m>> \in delta /\ <<m, r[2]>> \in step
    BY <1>1 DEF Extended
  <2>4. Reaches(r[1], m)
    BY <1>1, <2>3 DEF RowsAreReached, RowHolds
  <2> QED
    BY <2>2, <2>3, <2>4, HopAtEnd
<1>2. CASE Mode = "BackwardFromObject"
  <2>1. ~IsVar(object) /\ object \in Terms
    BY <1>2 DEF Mode, IsVar
  <2>2. SUFFICES ASSUME NEW r \in Extended(delta) PROVE r \in Terms /\ Reaches(r, object)
    BY <1>2 DEF Rows, RowHolds
  <2>3. PICK m \in delta : <<m, r>> \in Hops
    BY <1>2 DEF Extended
  <2>4. r \in Terms /\ m \in Terms /\ <<r, m>> \in step
    BY <1>2, <2>3 DEF Extended, Hops, Rows
  <2>5. Reaches(m, object)
    BY <1>2, <2>3 DEF RowsAreReached, RowHolds
  <2> QED
    BY <2>1, <2>4, <2>5, HopAtStart
<1>3. CASE Mode \notin {"BothVars", "BackwardFromObject"}
  <2>1. ~IsVar(subject) /\ subject \in Terms
    BY <1>3 DEF Mode, IsVar
  <2>2. SUFFICES ASSUME NEW r \in Extended(delta) PROVE r \in Terms /\ Reaches(subject, r)
    BY <1>3 DEF Rows, RowHolds
  <2>3. PICK m \in delta : <<m, r>> \in Hops
    BY <1>3 DEF Extended
  <2>4. r \in Terms /\ m \in Terms /\ <<m, r>> \in step
    BY <1>3, <2>3 DEF Extended, Hops, Rows
  <2>5. Reaches(subject, m)
    BY <1>3, <2>3 DEF RowsAreReached, RowHolds
  <2> QED
    BY <2>1, <2>4, <2>5, HopAtEnd
<1> QED
  BY <1>1, <1>2, <1>3

(* The finished table, read with the binding of each shape.                *)
LEMMA SelectedIsTyped ==
    ASSUME TypeOK
    PROVE  Selected \subseteq Solutions
<1> USE DEF TypeOK, Rows
<1>1. CASE Mode = "BothVars"
  <2>1. subject \in Variables /\ object \in Variables
    BY <1>1 DEF Mode, IsVar
  <2>2. {subject, object} \cap Variables = {subject, object}
    BY <2>1
  <2>3. \A r \in Diagonal : r[1] \in Terms /\ r[2] \in Terms
    BY <1>1 DEF Diagonal
  <2>4. Selected = {[v \in {subject, object} |-> IF v = subject THEN r[1] ELSE r[2]] : r \in Diagonal}
    BY <1>1 DEF Selected
  <2>5. SUFFICES ASSUME NEW r \in Diagonal
                 PROVE  [v \in {subject, object} |-> IF v = subject THEN r[1] ELSE r[2]]
                           \in [{subject, object} -> Terms]
    BY <2>2, <2>4 DEF Solutions
  <2> QED
    BY <2>3
<1>2. CASE Mode = "ForwardFromSubject"
  <2>1. {subject, object} \cap Variables = {object}
    BY <1>2 DEF Mode, IsVar
  <2>2. Selected = {[v \in {object} |-> n] : n \in closure} /\ closure \subseteq Terms
    BY <1>2 DEF Selected
  <2> QED
    BY <2>1, <2>2 DEF Solutions
<1>3. CASE Mode = "BackwardFromObject"
  <2>1. {subject, object} \cap Variables = {subject}
    BY <1>3 DEF Mode, IsVar
  <2>2. Selected = {[v \in {subject} |-> n] : n \in closure} /\ closure \subseteq Terms
    BY <1>3 DEF Selected
  <2> QED
    BY <2>1, <2>2 DEF Solutions
<1>4. CASE Mode = "BothBound"
  <2>1. {subject, object} \cap Variables = {}
    BY <1>4 DEF Mode, IsVar
  <2>2. Selected = {[v \in {} |-> n] : n \in closure \cap {object}}
    BY <1>4 DEF Selected
  <2> QED
    BY <2>1, <2>2 DEF Solutions
<1> QED
  BY <1>1, <1>2, <1>3, <1>4, ModeCases DEF Modes

(* The table is closed once no row is left to be extended, and then holds  *)
(* exactly the reached rows.                                               *)
LEMMA FinishedTable ==
    ASSUME TypeOK, RowsAreReached, OnlyDeltaIsOpen, phase # "seed", delta = {}
    PROVE  \A r \in Rows : r \in closure <=> RowHolds(r)
<1> USE DEF TypeOK
<1>1. SeedRows \subseteq closure /\ Extended(closure) \subseteq closure
  <2>1. closure \ delta = closure
    OBVIOUS
  <2> QED
    BY <2>1 DEF OnlyDeltaIsOpen
<1>2. \A r \in closure : RowHolds(r)
  BY DEF RowsAreReached
<1>3. ASSUME NEW r \in Rows, RowHolds(r) PROVE r \in closure
  <2>1. CASE Mode = "BothVars"
    <3> DEFINE C == {n \in Terms : <<r[1], n>> \in closure}
    <3>1. r \in Terms \X Terms /\ r[1] \in Terms /\ r[2] \in Terms /\ r = <<r[1], r[2]>>
      BY <2>1 DEF Rows
    <3>2. Reaches(r[1], r[2])
      BY <1>3, <2>1 DEF RowHolds
    <3>3. \A n \in Terms : <<r[1], n>> \in step => n \in C
      BY <1>1, <2>1 DEF SeedRows
    <3>4. ASSUME NEW m \in C, NEW n \in Terms, <<m, n>> \in step PROVE n \in C
      <4>1. <<r[1], n>> \in Terms \X Terms
        BY <3>1
      <4>2. <<r[1], n>> \in Extended(closure)
        BY <2>1, <3>4, <4>1 DEF Extended
      <4> QED
        BY <1>1, <4>2
    <3>5. C \in SUBSET Terms
      OBVIOUS
    <3> HIDE DEF C
    <3>6. r[2] \in C
      BY <3>1, <3>2, <3>3, <3>4, <3>5, ForwardLeast
    <3> QED
      BY <3>1, <3>6 DEF C
  <2>2. CASE Mode = "BackwardFromObject"
    <3>1. object \in Terms /\ r \in Terms /\ closure \in SUBSET Terms
      BY <2>2 DEF Mode, IsVar, Rows
    <3>2. Reaches(r, object)
      BY <1>3, <2>2 DEF RowHolds
    <3>3. \A n \in Terms : <<n, object>> \in step => n \in closure
      BY <1>1, <2>2, <3>1 DEF SeedRows, Anchor, Hops
    <3>4. \A m \in closure, n \in Terms : <<n, m>> \in step => n \in closure
      BY <1>1, <2>2, <3>1 DEF Extended, Hops
    <3> QED
      BY <3>1, <3>2, <3>3, <3>4, BackwardLeast
  <2>3. CASE Mode \notin {"BothVars", "BackwardFromObject"}
    <3>1. subject \in Terms /\ r \in Terms /\ closure \in SUBSET Terms
      BY <2>3 DEF Mode, IsVar, Rows
    <3>2. Reaches(subject, r)
      BY <1>3, <2>3 DEF RowHolds
    <3>3. \A n \in Terms : <<subject, n>> \in step => n \in closure
      BY <1>1, <2>3, <3>1 DEF SeedRows, Anchor, Hops
    <3>4. \A m \in closure, n \in Terms : <<m, n>> \in step => n \in closure
      BY <1>1, <2>3, <3>1 DEF Extended, Hops
    <3> QED
      BY <3>1, <3>2, <3>3, <3>4, ForwardLeast
  <2> QED
    BY <2>1, <2>2, <2>3
<1> QED
  BY <1>2, <1>3

LEMMA SelectedIsDenoted ==
    ASSUME TypeOK, \A r \in Rows : r \in closure <=> RowHolds(r)
    PROVE  Selected = Denoted
<1> USE DEF TypeOK, Rows
<1>1. CASE Mode = "BothVars"
  <2> DEFINE Bind(r) == [v \in {subject, object} |-> IF v = subject THEN r[1] ELSE r[2]]
  <2>1. subject \in Variables /\ object \in Variables /\ IsVar(subject) /\ IsVar(object)
    BY <1>1 DEF Mode, IsVar
  <2>2. {subject, object} \cap Variables = {subject, object}
    BY <2>1
  <2>3. Denoted = {s \in [{subject, object} -> Terms] : Reaches(s[subject], s[object])}
    BY <2>1, <2>2 DEF Denoted, Solutions, Value
  <2>4. Selected = {Bind(r) : r \in Diagonal}
    BY <1>1 DEF Selected
  <2>5. \A a, b \in Terms : <<a, b>> \in closure <=> Reaches(a, b)
    BY <1>1 DEF RowHolds
  <2>6. ASSUME NEW r \in Diagonal PROVE Bind(r) \in Denoted
    <3>1. r[1] \in Terms /\ r[2] \in Terms /\ <<r[1], r[2]>> \in closure
      BY <1>1 DEF Diagonal
    <3>2. Bind(r)[subject] = r[1] /\ Bind(r)[object] = r[2]
      BY DEF Diagonal
    <3>3. Bind(r) \in [{subject, object} -> Terms]
      BY <3>1
    <3> QED
      BY <2>3, <2>5, <3>1, <3>2, <3>3
  <2>7. ASSUME NEW s \in Denoted PROVE \E r \in Diagonal : s = Bind(r)
    <3>1. s \in [{subject, object} -> Terms] /\ Reaches(s[subject], s[object])
      BY <2>3
    <3>2. s[subject] \in Terms /\ s[object] \in Terms
      BY <3>1
    <3>3. <<s[subject], s[object]>> \in Diagonal
      BY <2>5, <3>1, <3>2 DEF Diagonal
    <3>4. s = Bind(<<s[subject], s[object]>>)
      BY <3>1
    <3> QED
      BY <3>3, <3>4
  <2> QED
    BY <2>4, <2>6, <2>7
<1>2. CASE Mode = "ForwardFromSubject"
  <2>1. {subject, object} \cap Variables = {object} /\ ~IsVar(subject) /\ IsVar(object)
    BY <1>2 DEF Mode, IsVar
  <2>2. Denoted = {s \in [{object} -> Terms] : Reaches(subject, s[object])}
    BY <2>1 DEF Denoted, Solutions, Value
  <2>3. Selected = {[v \in {object} |-> n] : n \in closure}
    BY <1>2 DEF Selected
  <2>4. \A n \in Terms : n \in closure <=> Reaches(subject, n)
    BY <1>2 DEF RowHolds
  <2>5. \A s \in [{object} -> Terms] : s = [v \in {object} |-> s[object]]
    OBVIOUS
  <2>6. closure \subseteq Terms
    BY <1>2
  <2> QED
    BY <2>2, <2>3, <2>4, <2>5, <2>6
<1>3. CASE Mode = "BackwardFromObject"
  <2>1. {subject, object} \cap Variables = {subject} /\ IsVar(subject) /\ ~IsVar(object)
    BY <1>3 DEF Mode, IsVar
  <2>2. Denoted = {s \in [{subject} -> Terms] : Reaches(s[subject], object)}
    BY <2>1 DEF Denoted, Solutions, Value
  <2>3. Selected = {[v \in {subject} |-> n] : n \in closure}
    BY <1>3 DEF Selected
  <2>4. \A n \in Terms : n \in closure <=> Reaches(n, object)
    BY <1>3 DEF RowHolds
  <2>5. \A s \in [{subject} -> Terms] : s = [v \in {subject} |-> s[subject]]
    OBVIOUS
  <2>6. closure \subseteq Terms
    BY <1>3
  <2> QED
    BY <2>2, <2>3, <2>4, <2>5, <2>6
<1>4. CASE Mode = "BothBound"
  <2>1. /\ {subject, object} \cap Variables = {} /\ ~IsVar(subject) /\ ~IsVar(object)
        /\ object \in Terms
    BY <1>4 DEF Mode, IsVar
  <2>2. Denoted = {s \in [{} -> Terms] : Reaches(subject, object)}
    BY <2>1 DEF Denoted, Solutions, Value
  <2>3. Selected = {[v \in {} |-> n] : n \in closure \cap {object}}
    BY <1>4 DEF Selected
  <2>4. object \in closure <=> Reaches(subject, object)
    BY <1>4, <2>1 DEF RowHolds
  <2>5. \A s \in [{} -> Terms] : s = [v \in {} |-> object]
    OBVIOUS
  <2> QED
    BY <2>2, <2>3, <2>4, <2>5
<1> QED
  BY <1>1, <1>2, <1>3, <1>4, ModeCases DEF Modes

-----------------------------------------------------------------------------
(* The pattern is a parameter of the evaluation: what is derived from it   *)
(* does not change.                                                        *)
LEMMA SamePattern ==
    ASSUME UNCHANGED pattern
    PROVE  /\ Mode' = Mode /\ Rows' = Rows /\ Hops' = Hops
           /\ SeedRows' = SeedRows
           /\ Solutions' = Solutions
           /\ \A r : RowHolds(r)' <=> RowHolds(r)
<1> USE DEF pattern
<1>1. Mode' = Mode /\ Solutions' = Solutions
  BY DEF Mode, IsVar, Solutions
<1>2. Rows' = Rows /\ Hops' = Hops /\ Anchor' = Anchor
  BY <1>1 DEF Rows, Hops, Anchor
<1>3. SeedRows' = SeedRows
  BY <1>1, <1>2 DEF SeedRows
<1>4. \A a, b : Reaches(a, b)' <=> Reaches(a, b)
  BY DEF Reaches
<1>5. \A r : RowHolds(r)' <=> RowHolds(r)
  BY <1>1, <1>4 DEF RowHolds
<1> QED
  BY <1>1, <1>2, <1>3, <1>5

LEMMA InitInv == Init => IInv
<1> SUFFICES ASSUME Init PROVE IInv
  OBVIOUS
<1> USE DEF Init
<1>1. TypeOK
  BY DEF TypeOK
<1>2. RowsAreReached /\ OnlyDeltaIsOpen
  BY DEF RowsAreReached, OnlyDeltaIsOpen
<1> QED
  BY <1>1, <1>2 DEF IInv

LEMMA SeedInv == IInv /\ Seed => IInv'
<1> SUFFICES ASSUME IInv, Seed PROVE IInv'
  OBVIOUS
<1> USE DEF IInv
<1>1. /\ UNCHANGED <<pattern, answers>> /\ phase' = "recurse"
      /\ closure' = SeedRows /\ delta' = SeedRows /\ TypeOK
  BY DEF Seed
<1>2. SeedRows \subseteq Rows /\ \A r \in SeedRows : RowHolds(r)
  BY <1>1, SeedIsReached
<1>3. TypeOK'
  BY <1>1, <1>2, SamePattern DEF TypeOK, pattern
<1>4. RowsAreReached'
  BY <1>1, <1>2, SamePattern DEF RowsAreReached
<1>5. OnlyDeltaIsOpen'
  <2>1. SeedRows' \subseteq closure'
    BY <1>1, SamePattern
  <2>2. closure' \ delta' = {}
    BY <1>1
  <2>3. Extended(closure \ delta)' = {}
    BY <2>2 DEF Extended
  <2> QED
    BY <2>1, <2>3 DEF OnlyDeltaIsOpen
<1> QED
  BY <1>1, <1>3, <1>4, <1>5

LEMMA RecurseInv == IInv /\ Recurse => IInv'
<1> SUFFICES ASSUME IInv, Recurse PROVE IInv'
  OBVIOUS
<1> USE DEF IInv
<1>1. /\ UNCHANGED <<pattern, answers>> /\ phase = "recurse" /\ phase' = "recurse"
      /\ closure' = closure \cup NewRows /\ delta' = NewRows
      /\ TypeOK /\ RowsAreReached /\ OnlyDeltaIsOpen
  BY DEF Recurse
<1>2. Extended(delta) \subseteq Rows /\ \A r \in Extended(delta) : RowHolds(r)
  BY <1>1, ExtendedIsReached
<1>3. NewRows \subseteq Extended(delta)
  BY DEF NewRows
<1>4. TypeOK'
  BY <1>1, <1>2, <1>3, SamePattern DEF TypeOK, pattern
<1>5. RowsAreReached'
  BY <1>1, <1>2, <1>3, SamePattern DEF RowsAreReached
<1>6. OnlyDeltaIsOpen'
  <2>1. SeedRows' \subseteq closure'
    BY <1>1, SamePattern DEF OnlyDeltaIsOpen
  <2>2. closure' \ delta' \subseteq closure
    BY <1>1
  <2>3. Extended(closure) \subseteq Extended(closure \ delta) \cup Extended(delta)
    BY DEF Extended
  <2>4. Extended(closure) \subseteq closure'
    BY <1>1, <2>3 DEF OnlyDeltaIsOpen, NewRows
  <2>5. Mode' = Mode /\ Hops' = Hops /\ step' = step
    BY <1>1, SamePattern DEF pattern
  <2>6. Extended(closure \ delta)' \subseteq Extended(closure)
    BY <2>2, <2>5 DEF Extended
  <2> QED
    BY <2>1, <2>4, <2>6 DEF OnlyDeltaIsOpen
<1> QED
  BY <1>1, <1>4, <1>5, <1>6

LEMMA SelectInv == IInv /\ Select => IInv'
<1> SUFFICES ASSUME IInv, Select PROVE IInv'
  OBVIOUS
<1> USE DEF IInv
<1>1. /\ UNCHANGED <<pattern, closure, delta>> /\ phase = "recurse" /\ phase' = "done"
      /\ delta = {} /\ answers' = Selected
      /\ TypeOK /\ RowsAreReached /\ OnlyDeltaIsOpen
  BY DEF Select
<1>2. TypeOK'
  BY <1>1, SamePattern, SelectedIsTyped DEF TypeOK, pattern
<1>3. RowsAreReached'
  BY <1>1, SamePattern DEF RowsAreReached
<1>4. OnlyDeltaIsOpen'
  <2>1. Mode' = Mode /\ Hops' = Hops /\ step' = step
    BY <1>1, SamePattern DEF pattern
  <2>2. Extended(closure \ delta)' = Extended(closure \ delta)
    BY <1>1, <2>1 DEF Extended
  <2> QED
    BY <1>1, <2>2, SamePattern DEF OnlyDeltaIsOpen
<1>5. Selected' = Selected
  <2>1. Mode' = Mode /\ subject' = subject /\ object' = object /\ closure' = closure
    BY <1>1, SamePattern DEF pattern
  <2>2. Diagonal' = Diagonal
    BY <2>1 DEF Diagonal
  <2> QED
    BY <2>1, <2>2 DEF Selected
<1> QED
  BY <1>1, <1>2, <1>3, <1>4, <1>5

LEMMA StutterInv == IInv /\ UNCHANGED vars => IInv'
<1> SUFFICES ASSUME IInv, UNCHANGED vars PROVE IInv'
  OBVIOUS
<1> USE DEF IInv
<1>1. UNCHANGED <<pattern, closure, delta, answers, phase>>
  BY DEF vars, pattern
<1>2. TypeOK' /\ RowsAreReached'
  BY <1>1, SamePattern DEF TypeOK, RowsAreReached, pattern
<1>3. Mode' = Mode /\ Hops' = Hops /\ step' = step /\ subject' = subject /\ object' = object
  BY <1>1, SamePattern DEF pattern
<1>4. OnlyDeltaIsOpen'
  <2>1. Extended(closure \ delta)' = Extended(closure \ delta)
    BY <1>1, <1>3 DEF Extended
  <2> QED
    BY <1>1, <2>1, SamePattern DEF OnlyDeltaIsOpen
<1>5. Selected' = Selected
  <2>1. Diagonal' = Diagonal
    BY <1>1, <1>3 DEF Diagonal
  <2> QED
    BY <1>1, <1>3, <2>1 DEF Selected
<1> QED
  BY <1>1, <1>2, <1>4, <1>5

(* The inductive invariant.  It strengthens soundness by OnlyDeltaIsOpen,  *)
(* without which nothing follows from an empty working table, and says     *)
(* where the answers come from.                                            *)
THEOREM Invariance == Spec => []IInv
<1>1. IInv /\ [Next]_vars => IInv'
  BY SeedInv, RecurseInv, SelectInv, StutterInv DEF Next
<1> QED
  BY InitInv, <1>1, PTL DEF Spec

(* Type correctness, for every set of terms and every step relation.       *)
THEOREM TypeCorrect == Spec => []TypeOK
<1>1. IInv => TypeOK
  BY DEF IInv
<1> QED
  BY Invariance, <1>1, PTL

(* Soundness of the recursive table at every moment of its evaluation: it  *)
(* never holds a term, or a pair, that the path does not connect.          *)
THEOREM Sound == Spec => []RowsAreReached
<1>1. IInv => RowsAreReached
  BY DEF IInv
<1> QED
  BY Invariance, <1>1, PTL

(* Exactness: when the query ends, whatever shape was chosen for it, it    *)
(* has returned the solutions of E+ and nothing else.                      *)
THEOREM Exact == Spec => []AnswersAreDenoted
<1>1. IInv => AnswersAreDenoted
  <2> SUFFICES ASSUME IInv, phase = "done" PROVE answers = Denoted
    BY DEF AnswersAreDenoted
  <2>1. TypeOK /\ RowsAreReached /\ OnlyDeltaIsOpen /\ delta = {} /\ answers = Selected
    BY DEF IInv
  <2>2. \A r \in Rows : r \in closure <=> RowHolds(r)
    BY <2>1, FinishedTable
  <2> QED
    BY <2>1, <2>2, SelectedIsDenoted
<1> QED
  BY Invariance, <1>1, PTL
=============================================================================
