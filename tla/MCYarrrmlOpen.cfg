CONSTANTS
  NULL = NULL
  NoTag = NoTag
  EmptyText = EmptyText
  DefaultGraph = DefaultGraph
  RdfType = RdfType
  NoTable = NoTable
  SqlError = SqlError
  NoResult = NoResult
  YamlNodes <- MCYamlNodes
  NodeName <- MCNodeName
  Documents <- OpenDocuments
  BuiltIn <- MCBuiltIn
  SortedNames <- MCSortedNames

SPECIFICATION Spec

INVARIANTS TagsAreKept BracesAreText SuffixIsNoText LossesAreReported

\* A document is parsed once.
CHECK_DEADLOCK FALSE
