\* The filter's expression does not compile for the value column's type:
\* Process returns before reading the block and Do waits forever on done.
CONSTANTS
  PointKinds = {"floats"}
  ValueColType = "floats"
  ExprErrTypes = {"floats"}
  Streams <- MCWellFormedStreams
SPECIFICATION Spec
PROPERTY DoTerminates
CHECK_DEADLOCK FALSE
