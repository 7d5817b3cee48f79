\* spec.md 4.5 on ties for max.
CONSTANTS
  Values <- MCValues
  MaxFrames = 3
  MaxRows = 2
SPECIFICATION Spec
INVARIANT SelectsLatestOfTies
