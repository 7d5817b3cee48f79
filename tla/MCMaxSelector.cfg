\* Blocks of up to three frames of up to two rows, values -1..1: ties,
\* empty frames, a maximum in a middle frame and negative maxima occur.
CONSTANTS
  Values <- MCValues
  MaxFrames = 3
  MaxRows = 2
SPECIFICATION Spec
INVARIANT TypeOK
INVARIANT SelectsBlockMaximum
