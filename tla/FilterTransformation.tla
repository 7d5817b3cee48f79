------------------------ MODULE FilterTransformation ------------------------
(***************************************************************************)
(* The filter transformation (src/functions/filter.go): its constructor   *)
(* and Process applied to a sequence of blocks, one call per block, on the *)
(* one transformation value.  The state Process keeps between calls is    *)
(* scopeCols, the Go map from a referenced label to the column index it  *)
(* was last seen at.                                                      *)
(*                                                                         *)
(* A block is [cols, rows]: cols a sequence of [label, type, common], a   *)
(* row a sequence of value texts aligned with cols.  Go's indexes are     *)
(* 0-based, so Go column j is cols[j+1].  The compiled expression is      *)
(* abstracted to the predicate Pass over the scope (label -> value text)  *)
(* and to the set of value types whose compilation failed.               *)
(***************************************************************************)
EXTENDS Naturals, Sequences, SequencesExt

CONSTANTS
  Inputs,         \* the block sequences the transformation may be handed
  Params,         \* number of parameters of the filter's arrow function
  PropertiesErr,  \* whether ObjectProperties fails on the function
  Properties,     \* labels the function body references (ObjectProperties)
  ValueDataTypes, \* execute.ValueDataTypes
  ExprErrTypes,   \* value types whose compiled expression is an error
  Pass(_)         \* the compiled expression's EvalBool on a well-typed scope

VARIABLES
  input,      \* the blocks handed in, in order (history, never changed)
  pending,    \* blocks not yet handed to Process
  scopeCols,  \* filterTransformation.scopeCols
  out,        \* per processed block, the rows appended to its builder
  status      \* "ok", "error" (an error returned) or "panic"

vars == <<input, pending, scopeCols, out, status>>

\* Process indexes cols[valueIdx] (filter.go:195) and the row reader by
\* column: every block handed in has one value column, and rows as wide
\* as its columns.
ASSUME \A in \in Inputs : \A k \in DOMAIN in :
         /\ Cardinality({j \in DOMAIN in[k].cols : in[k].cols[j].label = "_value"}) = 1
         /\ \A i \in DOMAIN in[k].rows : Len(in[k].rows[i]) = Len(in[k].cols)

ValueLabel == "_value"

\* NewFilterTransformation's types map: _value takes the value kind being
\* compiled, every other referenced property is a string
CompiledType(p, typ) == IF p = ValueLabel THEN typ ELSE "string"

\* the ces map: for each value kind, whether its entry holds an error
Ces == [typ \in ValueDataTypes |-> typ \in ExprErrTypes]

\* execute.ValueIdx: the Go index of the value column
ValueIdx(cols) == CHOOSE j \in 0..Len(cols)-1 : cols[j+1].label = ValueLabel

\* the loop of lines 182-193: _value goes to valueIdx, any other column
\* whose label is referenced to its own index; nothing is ever removed
ScopeColsAfter(sc, cols) ==
  LET seen == {cols[j].label : j \in DOMAIN cols} \cap (Properties \cup {ValueLabel})
      last(l) == Max({j \in DOMAIN cols : cols[j].label = l}) - 1
  IN  [l \in seen |-> IF l = ValueLabel THEN ValueIdx(cols) ELSE last(l)] @@ sc

\* reading a Go map: a missing key yields the zero value
Col(sc, p) == IF p \in DOMAIN sc THEN sc[p] ELSE 0

\* the indexes t.scopeCols sends ValueForRow to, one per property
Reads(sc, cols) == {Col(sc, p) : p \in Properties}

\* the scope of row r and whether every slot has its compiled type (the
\* evaluator's error on a mistyped slot logs and skips the row, 4.6.4)
Scope(sc, r)       == [p \in Properties |-> r[Col(sc, p) + 1]]
WellTyped(sc, cols, typ) ==
  \A p \in Properties : cols[Col(sc, p) + 1].type = CompiledType(p, typ)

\* lines 214-234: the non-common values of a row, in column order
Appended(cols, r) ==
  LET keep == SelectSeq([j \in DOMAIN cols |-> j], LAMBDA j : ~cols[j].common)
  IN  [k \in DOMAIN keep |-> r[keep[k]]]

Kept(sc, b, typ) ==
  LET rows == SelectSeq(b.rows, LAMBDA r : WellTyped(sc, b.cols, typ) /\ Pass(Scope(sc, r)))
  IN  [i \in DOMAIN rows |-> Appended(b.cols, rows[i])]

-----------------------------------------------------------------------------
(* createFilterTransformation and NewFilterTransformation: an arrow       *)
(* function of more than one parameter, or whose properties cannot be     *)
(* listed, is rejected before any block.                                  *)

Init ==
  /\ input \in Inputs
  /\ pending = input
  /\ scopeCols = <<>>
  /\ out = <<>>
  /\ status = IF Params # 1 \/ PropertiesErr THEN "error" ELSE "ok"

\* Process: scopeCols is updated first; then the value kind's compiled
\* expression is looked up and an error returned; otherwise the rows pass
\* through ValueForRow, which panics on an index past the block's columns.
Process ==
  /\ status = "ok"
  /\ pending # <<>>
  /\ LET b   == Head(pending)
         sc  == ScopeColsAfter(scopeCols, b.cols)
         typ == b.cols[ValueIdx(b.cols) + 1].type
     IN  /\ scopeCols' = sc
         /\ pending' = Tail(pending)
         /\ UNCHANGED input
         /\ CASE Ces[typ] ->
                   /\ status' = "error"
                   /\ UNCHANGED out
              [] b.rows # <<>> /\ \E j \in Reads(sc, b.cols) : j >= Len(b.cols) ->
                   /\ status' = "panic"
                   /\ UNCHANGED out
              [] OTHER ->
                   /\ out' = Append(out, Kept(sc, b, typ))
                   /\ UNCHANGED status

Next == Process

Spec == Init /\ [][Next]_vars

-----------------------------------------------------------------------------
TypeOK ==
  /\ status \in {"ok", "error", "panic"}
  /\ \A p \in DOMAIN scopeCols : scopeCols[p] \in Nat

\* What spec.md 4.7 asks of Process: a block's rows are kept on the values
\* of that block's own columns.  A property the block has no column for
\* reads as "missing" (Pass then decides, as for an absent tag).
OwnScope(b, r) ==
  [p \in Properties |->
     IF \E j \in DOMAIN b.cols : b.cols[j].label = p
     THEN r[Max({j \in DOMAIN b.cols : b.cols[j].label = p})]
     ELSE "missing"]

OwnTyped(b, typ) ==
  \A p \in Properties, j \in DOMAIN b.cols :
    b.cols[j].label = p => b.cols[j].type = CompiledType(p, typ)

Expected(b) ==
  LET typ  == b.cols[ValueIdx(b.cols) + 1].type
      rows == SelectSeq(b.rows, LAMBDA r : OwnTyped(b, typ) /\ Pass(OwnScope(b, r)))
  IN  [i \in DOMAIN rows |-> Appended(b.cols, rows[i])]

\* Every block Process has appended rows for was filtered on its own
\* columns, and Process never panics: the scopeCols indexes it reads
\* (filter.go:206) are those of the block being processed.
FilterKeepsMatchingRows ==
  /\ status # "panic"
  /\ \A k \in DOMAIN out : out[k] = Expected(input[k])

====
