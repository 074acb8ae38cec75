CONSTANTS
  NULL = NULL
  NoTag = NoTag
  EmptyText = EmptyText
  DefaultGraph = DefaultGraph
  RdfType = RdfType
  NoTable = NoTable
  SqlError = SqlError
  NoResult = NoResult
  Documents <- MCDocuments
  Names <- MCNames
  MaxLost = 1

SPECIFICATION Spec

INVARIANTS TypeOK ReturnsWhatIsWritten GapsAreReported

\* A document is parsed once.
CHECK_DEADLOCK FALSE
