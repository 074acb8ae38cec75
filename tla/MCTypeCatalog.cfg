CONSTANTS
  NULL = NULL
  NoType = NoType
  Int32Max = 3
  Unit = 100
  Grain = 10
  MaxRows = 2
  Folded <- MCFolded
  Cases <- MCCases

SPECIFICATION Spec

INVARIANTS
  TypeOK
  ClaimsHold
  ComparableIsLexical
  TextsAgree
