------------------------------ MODULE MaxSelector ------------------------------
(***************************************************************************)
(* The max row selector (src/unnamed/part_001, package functions): the    *)
(* row selector driver calls DoInt (DoUInt, DoFloat: the same loop) once  *)
(* per frame of a block's value column, with the frame's values and its   *)
(* row reader; set and max persist across the calls, maxIdx does not.     *)
(* After the last frame the driver reads Rows().                          *)
(*                                                                         *)
(* A row is identified by <<frame, index>>; a value by a small integer.   *)
(***************************************************************************)
EXTENDS Integers, Sequences, SequencesExt, FiniteSets

CONSTANTS
  Values,     \* the values a column holds
  MaxFrames,  \* frames (DoInt calls) per block
  MaxRows     \* rows per frame

NoIdx == -1

VARIABLES
  frames,  \* the values of the block's frames, fixed in Init
  k,       \* frames passed to DoInt so far
  set,     \* MaxSelector.set
  max,     \* MaxIntSelector.max
  rows     \* MaxSelector.rows: <<>> or the one captured row

vars == <<frames, k, set, max, rows>>

Frames == SeqOf(SeqOf(Values, MaxRows), MaxFrames)

-----------------------------------------------------------------------------

\* mutant: the first value is compared with Go's zero value of max
MaxStepNoSetGuard(acc, i, v) ==
  IF v > acc.max
  THEN [set |-> TRUE, max |-> v, maxIdx |-> i]
  ELSE acc

\* one iteration of DoInt's loop over vs: acc = [set, max, maxIdx]
MaxStep(acc, i, v) ==
  IF ~acc.set \/ v > acc.max
  THEN [set |-> TRUE, max |-> v, maxIdx |-> i]
  ELSE acc

\* the loop over one frame; maxIdx starts at -1 on every call
ScanFrame(vs) ==
  FoldLeft(LAMBDA acc, i : MaxStep(acc, i, vs[i]),
           [set |-> set, max |-> max, maxIdx |-> NoIdx],
           [i \in DOMAIN vs |-> i])

\* mutant: selectRow appends the captured row to those captured before
SelectRowAppends(idx) == IF idx # NoIdx THEN Append(rows, <<k + 1, idx>>) ELSE rows

\* selectRow: a row is captured only when this frame raised the maximum
SelectRow(idx) == IF idx # NoIdx THEN <<<<k + 1, idx>>>> ELSE rows

\* MaxIntSelector.DoInt on the next frame
DoInt ==
  LET r == ScanFrame(frames[k + 1])
  IN  /\ k < Len(frames)
      /\ set' = r.set
      /\ max' = r.max
      /\ rows' = SelectRow(r.maxIdx)
      /\ k' = k + 1
      /\ UNCHANGED frames

Init ==
  /\ frames \in Frames
  /\ k = 0
  /\ set = FALSE
  /\ max = 0
  /\ rows = <<>>

\* all frames are passed: the driver reads Rows()
Terminated == k = Len(frames) /\ UNCHANGED vars

Next == DoInt \/ Terminated

Spec == Init /\ [][Next]_vars

-----------------------------------------------------------------------------

\* MaxSelector.Rows: nil until some value was seen
Rows == IF set THEN rows ELSE <<>>

Value(r) == frames[r[1]][r[2]]
AllRows == UNION {{<<f, i>> : i \in DOMAIN frames[f]} : f \in DOMAIN frames}
Greatest == {r \in AllRows : \A s \in AllRows : Value(s) <= Value(r)}
\* lexicographic order of rows: the order DoInt sees them in
Before(r, s) == r[1] < s[1] \/ (r[1] = s[1] /\ r[2] < s[2])

TypeOK ==
  /\ frames \in Frames
  /\ k \in 0..Len(frames)
  /\ set \in BOOLEAN
  /\ max \in Values \cup {0}
  /\ rows \in SeqOf((1..MaxFrames) \X (1..MaxRows), 1)

(* Once every frame of the block is passed, Rows() is exactly one row     *)
(* holding the greatest value of the whole block, or none for a block     *)
(* without rows: the maximum is carried across the per-frame DoInt calls, *)
(* while the index found in a frame only selects a row of that frame.     *)
SelectsBlockMaximum ==
  k = Len(frames) =>
     IF AllRows = {} THEN Rows = <<>>
     ELSE Len(Rows) = 1 /\ Rows[1] \in Greatest

(* Among rows holding the greatest value, max selects the latest one      *)
(* (spec.md 4.5: ties broken by latest time for last/max).               *)
SelectsLatestOfTies ==
  (k = Len(frames) /\ AllRows # {}) =>
     \A r \in Greatest : ~Before(Rows[1], r)

=============================================================================
