CONSTANTS
  NULL = NULL
  NoTag = NoTag
  EmptyText = EmptyText
  DefaultGraph = DefaultGraph
  RdfType = RdfType
  NoTable = NoTable
  SqlError = SqlError
  NoResult = NoResult
  Garbage = Garbage
  MaxRows = 2
  MaxParentRows = 0
  Mappings <- CycleMappings
  Databases <- MCDatabases

SPECIFICATION Spec

INVARIANT SubjectIntact

CHECK_DEADLOCK FALSE
