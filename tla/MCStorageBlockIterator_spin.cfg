\* A stream that opens with point frames: the Do loop's `continue` does not
\* consume them.
CONSTANTS
  PointKinds = {"floats"}
  ValueColType = "floats"
  ExprErrTypes = {}
  Streams <- MCMalformedStreams
SPECIFICATION Spec
PROPERTY DoTerminates
