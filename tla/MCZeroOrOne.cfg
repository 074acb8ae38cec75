CONSTANTS
  Terms = {a, b, c}
  Variables = {x, y}
  Predicates <- MCPredicates
  Paths <- OptionalPaths
  MaxTriples = 2

SPECIFICATION Spec

INVARIANT CardinalitiesMatch

\* A query is asked once.
CHECK_DEADLOCK FALSE
