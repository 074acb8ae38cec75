CONSTANTS
  NULL = NULL
  TemplateTexts <- MCTemplateTexts
  Texts <- MCTexts
  Columns <- MCColumns
  Bounds <- MCBounds
  Reserved <- MCReserved
  CodeOf <- MCCodeOf
  CharOf <- MCCharOf

SPECIFICATION Spec

INVARIANTS
  PruningIsAlwaysSound
  NeverIsNever
  KeysAreAlwaysTerms

CHECK_DEADLOCK FALSE
