\* Arrow functions whose body is not a binary or logical expression.
CONSTANTS
  Calls <- MCCalls
  Ctors <- MCCtors
  Scope <- MCScope
SPECIFICATION Spec
INVARIANT NoPanic
