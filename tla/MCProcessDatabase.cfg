CONSTANTS
  NULL = NULL
  NoTag = NoTag
  EmptyText = EmptyText
  DefaultGraph = DefaultGraph
  RdfType = RdfType
  NoTable = NoTable
  SqlError = SqlError
  NoResult = NoResult
  Garbage = Garbage
  MaxRows = 2
  MaxParentRows = 2
  Mappings <- MCMappings
  Databases <- MCDatabases

SPECIFICATION FairSpec

INVARIANTS
  TypeOK
  NodesAreCurrent
  SubjectIntact
  WrittenIsDenoted
  OutputIsPrefix

PROPERTIES
  ImplementsDump
  Terminates

CHECK_DEADLOCK FALSE
