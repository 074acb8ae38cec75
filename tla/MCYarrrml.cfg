CONSTANTS
  NULL = NULL
  NoTag = NoTag
  EmptyText = EmptyText
  DefaultGraph = DefaultGraph
  RdfType = RdfType
  NoTable = NoTable
  SqlError = SqlError
  NoResult = NoResult
  YamlNodes <- MCYamlNodes
  NodeName <- MCNodeName
  Documents <- MCDocuments
  BuiltIn <- MCBuiltIn
  SortedNames <- MCSortedNames

SPECIFICATION Spec

INVARIANTS NodesApart TranslationIsFaithful LossesAreReported

\* A document is parsed once.
CHECK_DEADLOCK FALSE
