CONSTANTS
  NULL = NULL
  TemplateTexts <- MCTemplateTexts
  Texts <- MCTexts
  Columns <- MCColumns
  Bounds <- MCBounds
  Reserved <- MCReserved
  CodeOf <- MCCodeOf
  CharOf <- MCCharOf

SPECIFICATION Spec

INVARIANTS
  ReadersAgree
  InversionIsRight
  PruningIsSound
  KeysAreTermsIfSplit

CHECK_DEADLOCK FALSE
