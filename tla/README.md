# TLA+ models of IFQL

These modules model the IFQL query engine snapshot under `src/`. They cover
the evaluator that lowers a program into a query spec, the filter's
push-down into the storage source, the storage reader's block iterator with
the filter transformation that consumes it, and the max selector. TLC checks
each model with the configurations listed below. `PROJECT.json` lists the
components, runs, mutants, the map from TLA+ definitions to source lines,
the findings and the hazards.

## The system and its parts

A query goes through the following stages (spec.md §2–§4):

1. **Evaluator** (`src/ifql/eval.go`, lines 1–964). `Evaluate` walks the
   program's statements.
   - A call chain `f(..).g(..).h(..)` creates one operation per call, through
     `createOp`. Each operation's id comes from the counter `nextID`.
   - Each call gets an edge from the chain's tail (`CallChain.Parent`), plus an
     edge from every *additional parent* a constructor names through
     `Context.AdditionalParent`.
   - A variable declaration stores the chain in the scope. `addChain` then
     drains the chain's operations and edges into the spec.
   - A later chain on the variable works on a copy of the stored chain
     (`memberFunction`), so it branches from the variable's tail.
   - Keyword arguments, literals, arrays and the expression compiler
     (`binaryExpression`, `primaryNode`…) turn AST nodes into values.
     `createOp` binds the arguments (`resolveParameters`) before the
     operation's registered constructor reads them through typed getters.
     It then rejects any keyword the constructor did not read.
2. **Planner.** Not in this snapshot, except the filter's hooks.
   - A procedure with a `PushDownRule` is fused into an ancestor `from`
     source, passing through the rule's `through` kinds.
   - `FilterProcedureSpec.PushDownRule` and `PushDown` are in
     `src/functions/filter.go`, lines 74–91.
   - When the source already has a filter, `PushDown` calls `dup()`, which
     copies the source for the branch.
3. **Execution.** `src/unnamed/part_000` is the storage reader.
   - `storageBlockIterator.Do` reads a gRPC stream of frames. Every series
     frame becomes a block that it hands to the downstream transformation.
   - It then waits on the block's `done` channel. The transformation runs the
     block's value iterator (`DoFloat`/`DoTime`…, `advance`) in another
     goroutine, over the point frames that follow. The iterator closes `done`
     when it reaches the next series frame or the end of the stream.
   - The filter transformation's `Process` (`filter.go`, lines 173–238) is
     such a consumer.
4. **Selectors.** The max selector (`src/unnamed/part_001`) is driven once
   per frame of a block (`DoInt`/`DoUInt`/`DoFloat`) and returns `Rows()` at
   the end.

The storage source's read spec is built by `createSelectSource`
(`src/functions/select.go`). This is straight-line code that computes a
window and bounds.

## Modules

| Module | Models | State ↔ code |
|---|---|---|
| `EvalSyntax` | The shape of the expressions a statement can hold: call chains with a function or variable head, `MaxMethods` method calls and additional parents; identifiers; literals | — |
| `Evaluator` | `eval`, `doVariableDeclaration`, `doExpression`, `callFunction`, `memberFunction`, `createOp`'s id and parents, `context.AdditionalParent`, `addChain` | `id`, `scope`, `operations` and `edges` are the evaluator's fields. A scope value is a chain record (`Parent`, `Operations`, `Edges`), a non-chain value, or unset. One action per statement kind, plus the error path and the end of the program |
| `QueryGraph` | The abstract evaluator of spec §4.1: a graph of operations, and for every variable the tail it is bound to | Refined by `Evaluator` (`ImplementsQueryGraph`). Both modules keep a history variable `last`, the statement evaluated last, so that the mapping ties every step to its statement |
| `ExprCompiler` | `binaryOperation`, `binaryExpression` (its `isRegexp`), `expressionOperator`, `logicalOperator`, `primaryNode`, `propertyName`, `logicalExpression`, and `Lowered`, the tree spec §4.1 describes | Pure recursive operators over AST records. A result is `Ok(node)` or `Fail(error)`, and the first error in the code's order of evaluation wins |
| `CreateOp` | One `createOp`: `nextID`, the one-object check, `resolveParameters` with `doExpression`/`doLiteral`/`doArray` and the arrow case on each value, `newArguments`, the constructor's getter calls (`get`, `GetTime`/`ToQueryTime`, `GetArray`, `GetDuration`, `GetExpression`, the other typed getters), `listUnused` | `pc` is the position in `createOp`. `props` is the rest of the object. `params` and `used` are the `arguments` fields. `reads` is the rest of the constructor's getter calls and `got` what it read. `out` is the result. A constructor is the sequence of getter calls it makes |
| `StorageBlockIterator` | `Do` / `more` / `peek` / `next` / `wait` (reader goroutine) composed with `filterTransformation.Process` → `DoTime` → `advance` and the typed accessors (transformation goroutine) | `data` is the shared `readState`: the frames left in the last message and the count of messages received. `rpc` is the `Do` loop's position. `pending` is the blocks handed downstream. `done` is the set of closed channels. `cpc`/`cur` are the transformation's position. `consumed` is a history of which block read which frame. `panicked` records a failed type assertion |
| `MaxSelector` | `MaxIntSelector.DoInt` (the same loop as `DoUInt` and `DoFloat`), `selectRow`, `Rows` | `set` and `max` persist across frames. `maxIdx` is local to one call. `rows` is the captured row |
| `FilterTransformation` | `createFilterTransformation`/`NewFilterTransformation` (the one-parameter check, the per-kind types map and `ces`) and `filterTransformation.Process` over a sequence of blocks whose columns differ: the `scopeCols` loop, the expression-error return, the scope read through `ValueForRow`, `EvalBool` skipping a mistyped row, and the append of the non-common columns | `scopeCols` is the transformation's map, kept across `Process` calls. `pending` is the blocks still to come and `input` all of them. `out` holds, per processed block, the rows appended to its builder. `status` is the error returned or a panic. The compiled expression is the constant predicate `Pass` and the set of value kinds that failed to compile |
| `PushDownPlanner` | The push-down walk of spec §4.2 with the filter's `PushDownRule`/`PushDown` from code. The range's push-down, `dup()` and the splice come from the spec | `procs` is the plan being rewritten. `order` is the rest of the logical order. `result` is a ghost map from each logical result to the procedure producing it now |

Each `MC*` module gives the constants their values for TLC. `MCEvaluator`
uses model values `a`, `b` for variable names. `MCStorageBlockIterator`
defines all streams of up to 3 messages, 2 frames per message and 4 frames
in total, with the well-formed subset being the streams that open with a
series frame. `MCMaxSelector` uses values −1..1. `MCPushDownPlanner`
enumerates logical plans and builds the plan of `TestFilter_PushDown_Branch`.
`MCCreateOp` gives four constructors: filter's required `f` and max's
optional `useRowTime` from the code, the range of spec S2 (a required
`start` and an optional `stop` time), and one reading a string array. It
also gives the calls: no argument, a non-object argument, and objects of
up to two properties. Their values are literals, identifiers, members,
arrays and arrow functions, and the arrow bodies are compiled
expressions. The scope binds a chain `t` and a stored predicate `p`.
`MCFilterTransformation` filters on `r.host == "a" and r._value != 0`. It
hands one transformation up to two blocks. A block has one of four column
sets, `[_time, host, _value]`, `[_time, _value, host]`,
`[_time, region, _value]`, the storage block's `[_time, _value]`, and
`[_time, _value, region, host]` with `region` a common tag, like `t1` of
the test's tagged block. Each block has one row, with every choice of tag
and value text. An `ASSUME` states what `Process` relies on: each block
has one value column, and each row is as wide as the block's columns.

## Runs

| Run | Checks | Result |
|---|---|---|
| `storage_read` | `FramesAttributed` on every stream; `AllPointsRead` on streams that open with a series frame | pass |
| `storage_spin` | `DoTerminates` on those streams | **violated**: `continue` never consumes the frame |
| `storage_exprerr` | `DoTerminates` when the filter's expression does not compile | **violated**: `Process` returns before `DoTime`, `done` stays open, `Do` blocks forever |
| `storage_mixed` | `NoPanic` when the service sends integer and float frames | **violated**: `AtFloat` asserts `[]float64` on `intBuf` |
| `evaluator` | `UniqueOperations`, `EdgesTopological`, `NoDuplicateEdges`, `ImplementsQueryGraph`; ≤ 4 statements, 2 variables, ≤ 2 methods per chain, ≤ 2 additional parents, ≤ 5 ids | pass (110k states) |
| `max_selector` | `TypeOK`, `SelectsBlockMaximum`; ≤ 3 frames of ≤ 2 rows, values −1..1 | pass |
| `max_ties` | `SelectsLatestOfTies` (spec §4.5) | **violated**: strict `>` keeps the earliest tie |
| `pushdown` | `TypeOK` on every logical plan of ≤ 5 procedures: every path of the filter's `PushDown` (set, or dup and clear) and the splice leave each parent pointer naming a procedure of the plan, and each logical result mapped to one | pass (56k states) |
| `pushdown_branch` | `PushDownPreservesResults` on the plan of `TestFilter_PushDown_Branch` | **violated**: the duplicate's filter is cleared, not set to B |
| `create_op` | `TypeOK`, `ArgumentsBoundAsSpecified`, `CompiledAsSpecified` over about 13,800 calls × constructors | pass (61k states) |
| `create_op_panic` | `NoPanic` | **violated**: `max(f: (r) => true)` panics at the arrow case's type assertion |
| `filter_stale` | `FilterKeepsMatchingRows`: each block's rows are kept on that block's own columns (spec §4.7), and `Process` does not panic | **violated**: after a block with `host` at index 1, a `[_time, region, _value]` block's row is kept when `region` is `"a"` |

What the properties say:
- `FramesAttributed`: a block's iterator reads only the frames of its own
  series. It depends on `Do` waiting on `done`, and on `advance` stopping at
  a series frame.
- `AllPointsRead`: every point frame is read and `Do` returns.
- `UniqueOperations`: `addChain` drains the chain, so an operation never
  enters the spec twice, however often a variable is reused.
- `EdgesTopological`: every edge joins two operations, listed parent first.
- `NoDuplicateEdges`: callFunction skips an additional parent equal to the
  tail, so no edge enters the spec twice.
- `SelectsBlockMaximum`: after the last frame, `Rows()` holds one row with
  the greatest value of the block. This holds although `maxIdx` restarts
  every frame.
- `ArgumentsBoundAsSpecified`: `createOp` builds the operation exactly
  when the arguments are valid by spec §4.1. Valid means one object whose
  properties all evaluate, no keyword twice, every keyword read, every
  value of the getter's type, and every required keyword present. On
  success the constructor has read each keyword's own value. The check
  covers the duplicate check after evaluation, `get` marking before its
  checks, `GetTime` converting without a Type check (an int is Unix
  seconds), `GetArray`'s element check, and `listUnused` after the
  constructor.
- `CompiledAsSpecified`: an arrow-function argument holds `Lowered(body)`
  with its parameter names. `Lowered` is the spec's tree: `==`/`!=` become
  regexp match when either side is a regexp literal, and every other
  operator is kept. This composes `ExprCompiler` with `doExpression`.
- `PushDownPreservesResults` (checked only by `pushdown_branch`): after the
  walk, the plan's leaves are exactly the logical results. Each computes the
  same predicates, in the same segments between order-sensitive procedures
  (limit, max). No passing run checks it. Every path of the filter's hook
  other than setting an unset filter breaks it: the dup path (a finding),
  a filter below a limit, and a filter on a shared source. The last two
  are hazards, because the planner's duplication rule and limit are not in
  the repository. A plan set that avoids all three would check only the
  simple path.
- The storage and evaluator modules have no type invariant. The only
  mutants that broke one changed the model's own counters and bounds,
  which no bug in the code could do.

Each property of a passing run has a mutant in `PROJECT.json`: a plausible
bug in the definition it is about, which TLC finds. Examples are the reader
not waiting on `done`, `addChain` not draining, the tail advancing before
the edge, the `!s.set` guard dropped, and the splice keeping the removed
procedure as its children's parent.

### Bounds

The bounds are chosen so that each interesting case occurs:
- **Storage.** Four frames over three messages give every split of a
  series' points across messages, two series in one stream, and a series
  frame at the start of a message while a block is still being read.
- **Evaluator.** Five ids and four statements give a declaration, a
  reassignment, two branches from one variable and a method naming its own
  chain as an additional parent.
- **Max selector.** Three frames of two rows give a maximum in the first,
  middle or last frame, an empty frame, ties within and across frames, and
  all-negative blocks.
- **Push-down planner.** Every plan of up to five procedures gives shared
  sources, two filters or two ranges on one branch (dup paths), filters
  below a limit and chains of group and max.
- **createOp.** Two properties over three keywords give a duplicate, an
  extra keyword, and a missing required keyword. They also give a value of
  the wrong type next to a valid one, and an error in the first or the
  second value. The arrow bodies are every comparison of four operators
  over seven operands: references, members with an identifier, a string
  or an integer property, and string, regexp and integer literals. A
  regexp sits on either side. The bodies also include logical expressions,
  comparisons nested in comparisons and in logical expressions, and bodies
  that are not expressions.

### Fairness

`StorageBlockIterator` assumes weak fairness for each of its two
goroutines. The Go scheduler runs a runnable goroutine eventually, and
neither goroutine holds a lock the other needs. Nothing else assumes
fairness: the evaluator, the planner and the selectors are sequential, and
only their safety is checked.

## Findings

`PROJECT.json` lists the findings with their source lines. In short:
- The filter's expression error hangs the read (`filter.go:198`).
- Mixed point types panic the storage block (`part_000:151`).
- A stream opening with point frames spins `Do` (`part_000:138`).
- Max ties select the earliest row (`part_001:130`).
- The filter's duplicate is left unfiltered (`filter.go:82`).
- The filter's `scopeCols` keeps the column indexes of earlier blocks
  (`filter.go:188`). A block without a referenced tag is filtered on
  whatever column sits at the old index. In the same state space, a
  `[_time, _value]` block after a `[_time, _value, host]` block panics at
  index 2.
- An arrow function whose body is not an expression panics the evaluator
  (`eval.go:163`).

A filter pushed into a source shared with another branch (`filter.go:81`)
is kept as a hazard. The duplication rule it breaks is the spec's planner,
which is not in the repository. The same holds for the filter's rule
passing through limit (`filter.go:77`). Limit's semantics are not in the
repository either. On `from → limit → filter`, the push-down model violates
`PushDownPreservesResults`, because the filter ends up applied before the
limit.

## Not modelled, and the plan

Done:
1. `StorageBlockIterator` with the filter's `Process` as the consumer.
2. `Evaluator` with its refinement to `QueryGraph`.
3. `MaxSelector`.
4. `PushDownPlanner` with the filter's hooks.
5. `ExprCompiler` and `CreateOp`: keyword arguments and the expression
   compiler, composed through the arrow case of `doExpression`.
6. `FilterTransformation`: the constructor, and `Process` over blocks whose
   columns differ.

What is left is not modelled, for the reasons below. `DoUInt` and
`DoFloat` are the `DoInt` loop over other value types, so a model of them
would repeat `MaxSelector`.

Not modelled, with the reason:
- `Evaluator` and `CreateOp` are not composed into one module. `Evaluator`
  abstracts a call's arguments away, and `CreateOp` checks one call. Composing
  them would multiply the evaluator's 110k states by the argument space. `CreateOp` evaluates no call expression as an argument value.
- A call with two or more argument expressions is not enumerated: spec
  §4.1 passes one object. The code ignores them all (a hazard).
- The registries panic on duplicates only during package initialisation.
- `createSelectSource` is straight-line arithmetic over `ResolveTime` and
  `execute.Window`, which are not in the repository. Its int64 overflow
  with an unbounded start is listed as a hazard.
- Connection pooling in `storageReader.connect`/`Close` holds no state that
  any property reads.
- The test helpers are not part of the system.
- The expression the filter compiles is abstracted to a predicate over the
  scope. `CompileExpression` and `EvalBool` are in `execute`, which is not
  in the repository. So is `ValueForRow`: the model takes a read past the
  block's columns to panic, and a slot of another type than its compiled
  type to be an evaluation error, logged and skipped (spec §4.6.4).
  `PanicUnknownType` (`filter.go:232`) is not reached, because every column
  type is one of the six. Only `filter_stale` runs `FilterTransformation`.
  A passing run of it would need a thirteenth run. With `Inputs`
  restricted to sequences whose blocks share one column set, as the
  storage reader's blocks do, TLC finds `FilterKeepsMatchingRows` and
  `TypeOK` to hold (393 states). That check is not one of the project's
  runs.
- `createFilterOpSpec`, `newFilterProcedure` and `Copy`
  (`filter.go:27-72`) only build values. They use `query.Arguments`'
  `GetRequiredFunction`, an API that `eval.go`'s `arguments` does not
  have. `Copy` refers to a field `s.Fn` that the spec type does not have.
- Several hazards in `PROJECT.json` have no property. Each would need a
  violation run of its own, and all twelve runs are in use. These are
  `part_000:111` and `:124`, `eval.go:428` and `filter.go:77`. Others
  depend on code outside the repository: `filter.go:80` and `:176`,
  and `select.go:94`.
- The planner outside push-down, bounds resolution, and the scheduler are
  not in this snapshot.
