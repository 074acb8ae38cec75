CONSTANTS
  Letters <- MCLetters
  Digits <- MCDigits
  NameCharacters <- MCNameCharacters
  Arity <- MCArity
  NoArguments <- MCNoArguments
  StartKeywords <- MCStartKeywords
  Sources <- MCSources
SPECIFICATION Spec
INVARIANTS
  ParsedIsMeant
  NothingIsDropped
  PrintedIsRead
CHECK_DEADLOCK FALSE
