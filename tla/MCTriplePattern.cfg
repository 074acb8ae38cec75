CONSTANTS
  NULL = NULL
  NoTag = NoTag
  EmptyText = EmptyText
  DefaultGraph = DefaultGraph
  RdfType = RdfType
  NoTable = NoTable
  SqlError = SqlError
  NoResult = NoResult
  AllTerms = AllTerms
  TableRows <- MCTableRows
  MaxRows = 2
  Natural <- MCNatural
  SqlEqual <- MCSqlEqual
  Unlike <- MCUnlike
  Mappings <- MCMappings
  Patterns <- MCPatterns

SPECIFICATION Spec

INVARIANTS
  AnswersMatchGraph
  TermsCoverGraph
  TermsAsAnnotated
