CONSTANTS
  Terms = {a, b, c}
  Variables = {x, y}
  Predicates <- MCPredicates
  Paths <- MCPaths
  MaxTriples = 2

SPECIFICATION Spec

INVARIANTS SolutionsMatch OtherCardinalitiesMatch

\* A query is asked once.
CHECK_DEADLOCK FALSE
