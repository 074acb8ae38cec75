CONSTANTS
  NULL = NULL
  Numbers = {"a"}
  Mapping <- MCMapping
  Queries <- MCQueries
  TableRows <- MCRows
  Keys <- MCKeys
  Fixed <- MCFixed
  MaxFacts = 3
  MaxCopies = 2

SPECIFICATION Spec

INVARIANTS TypeOK AnswersMatch OptimizerPreserves OtherPromisesKept

\* A query is run once.
CHECK_DEADLOCK FALSE
