------------------------------ MODULE EvalSyntax ------------------------------
(***************************************************************************)
(* The expressions of the programs Evaluator and QueryGraph evaluate, as  *)
(* the statements of an ast.Program reach eval (src/ifql/eval.go).        *)
(***************************************************************************)
EXTENDS Naturals, Sequences, SequencesExt

CONSTANTS
  Names,       \* variable names of the program
  MaxMethods,  \* method calls after the head of a chain expression
  MaxParents,  \* variables a call names as additional parents
  Other,       \* model value: a variable bound to a value that is no chain
  Unbound      \* model value: a variable never set

Fn == "fn"     \* a registered top-level function (functionsMap)

\* f(...).m(...).m(...) or x.m(...).m(...): a call chain; its last call may
\* name variables whose chains become additional parents
CallExprs ==
  {e \in [kind : {"call"}, head : {Fn} \cup Names, methods : 0..MaxMethods,
          extras : SeqOf(Names, MaxParents)] :
     e.head \in Names => e.methods >= 1}

Exprs == CallExprs \cup [kind : {"ident"}, name : Names] \cup [kind : {"lit"}]

\* the operations a chain expression creates, one per call
NumCalls(e) == (IF e.head = Fn THEN 1 ELSE 0) + e.methods

\* a statement as the history variable `last` records it
Stmt(kind, x, e) == [stmt |-> kind, name |-> x, expr |-> e]
NoStmt == Stmt("none", Unbound, [kind |-> "lit"])

IDsUsed(e) == IF e.kind = "call" THEN NumCalls(e) ELSE 0
=============================================================================
