\* One createOp over calls of up to two keyword arguments and the four
\* constructors: arguments are bound as spec.md 4.1 says and arrow
\* functions hold the tree it describes.
CONSTANTS
  Calls <- MCCalls
  Ctors <- MCCtors
  Scope <- MCScope
SPECIFICATION Spec
INVARIANT TypeOK
INVARIANT ArgumentsBoundAsSpecified
INVARIANT CompiledAsSpecified
