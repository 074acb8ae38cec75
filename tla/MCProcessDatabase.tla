-------------------------- MODULE MCProcessDatabase --------------------------
(***************************************************************************)
(* Instances of ProcessDatabase: hand-picked mappings that reach every     *)
(* construct, over every small database.                                   *)
(***************************************************************************)
EXTENDS ProcessDatabase, SampleMappings, Functions

CONSTANTS MaxRows, MaxParentRows

(* Rows of the child table reach NULL and typed join columns, rows of the  *)
(* parent table both keys.                                                 *)
EmpRows  == { Row2(One, Two), Row2(Two, OneInt), Row2(Two, NULL), Row2(NULL, One) }
DeptRows == { Row2(One, One), Row2(Two, One), Row2(NULL, Two) }

SeqUpTo(S, n) == UNION { [1 .. k -> S] : k \in 0 .. n }

(* The child table has no duplicate rows, the parent table may have.       *)
DatabasesOf(emp, dept) == { [EMP |-> e, DEPT |-> d] : e \in emp, d \in dept }

MCDatabases ==
  DatabasesOf({ s \in SeqUpTo(EmpRows, MaxRows) : IsInjective(s) } \cup {NoResult},
              SeqUpTo(DeptRows, MaxParentRows) \cup {SqlError, NoResult})

MCMappings    == {EmpDept, Graphs, Partial, SelfConstant}
CycleMappings == {Cycle}
=============================================================================
