CONSTANTS
  NULL = NULL
  NoType = NoType
  Int32Max = 3
  Unit = 100
  Grain = 10
  MaxRows = 2
  Folded <- MCFolded
  Cases <- OpenCases

SPECIFICATION Spec

INVARIANTS
  ComparableAsText
  NaturalDatatypesAgree
  ClaimsAreDeclared
