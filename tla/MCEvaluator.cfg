CONSTANTS
  a = a
  b = b
  Other = Other
  Unbound = Unbound
  Names <- MCNames
  MaxMethods = 2
  MaxParents = 2
  MaxIDs = 5
  MaxStmts = 4
SPECIFICATION Spec
INVARIANT UniqueOperations
INVARIANT EdgesTopological
INVARIANT NoDuplicateEdges
PROPERTY ImplementsQueryGraph
