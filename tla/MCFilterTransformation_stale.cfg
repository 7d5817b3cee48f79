\* Two blocks of different column sets handed to one filter transformation.
CONSTANT Inputs <- MCInputs
CONSTANT Params = 1
CONSTANT PropertiesErr = FALSE
CONSTANT Properties = {"host", "_value"}
CONSTANT ValueDataTypes = {"bool", "int", "uint", "float", "string"}
\* r._value != 0 does not compile for a bool or string value column
CONSTANT ExprErrTypes = {"bool", "string"}
CONSTANT Pass <- MCPass
SPECIFICATION Spec
\* the transformation stops after its last block or its first error
CHECK_DEADLOCK FALSE
INVARIANT FilterKeepsMatchingRows
