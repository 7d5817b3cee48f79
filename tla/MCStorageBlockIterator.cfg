\* The storage service sends only frames of the value column's type and
\* the filter's expression compiles for it; streams may open with point
\* frames.  No block ever reads a frame of another series, and on streams
\* that open with a series frame every point is read and Do returns.
CONSTANTS
  PointKinds = {"floats"}
  ValueColType = "floats"
  ExprErrTypes = {}
  Streams <- MCAllStreams
SPECIFICATION Spec
INVARIANT FramesAttributed
PROPERTY AllPointsRead
