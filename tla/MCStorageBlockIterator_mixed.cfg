\* The service sends integer and float point frames; the storage block's
\* value column has one fixed type.
CONSTANTS
  PointKinds = {"floats", "ints"}
  ValueColType = "floats"
  ExprErrTypes = {}
  Streams <- MCWellFormedStreams
SPECIFICATION Spec
INVARIANT NoPanic
