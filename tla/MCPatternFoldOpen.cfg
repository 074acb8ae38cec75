\* OptionalSelected violates PromisesKept, MinusOfOptional MinusMatches,
\* DroppedArm and Sports OptimizerPreserves; one of them in the place of
\* OpenQueries shows its case alone.
CONSTANTS
  NULL = NULL
  Numbers = {"a"}
  Mapping <- MCMapping
  Queries <- OpenQueries
  TableRows <- MCRows
  Keys <- MCKeys
  Fixed <- MCFixed
  MaxFacts = 3
  MaxCopies = 1

SPECIFICATION Spec

INVARIANTS PromisesKept OptimizerPreserves MinusMatches

\* A query is run once.
CHECK_DEADLOCK FALSE
