------------------------------ MODULE Evaluator ------------------------------
(***************************************************************************)
(* The IFQL evaluator's lowering of a program into a query specification  *)
(* (src/ifql/eval.go): the scope, the operation id counter, call chains   *)
(* and how a chain's operations and edges are drained into the spec.      *)
(*                                                                         *)
(* A statement is evaluated in one step, as eval does it: the evaluator   *)
(* is a single goroutine.  Expressions are drawn from a small set: a call *)
(* chain headed by a registered function or by a variable, followed by   *)
(* method calls, the last of which may declare additional parents by     *)
(* naming variables (Context.AdditionalParent); a variable reference; or  *)
(* a literal.  Operations are identified by the counter value createOp    *)
(* gives them (fmt.Sprintf("%s%d", name, ev.nextID())).                   *)
(***************************************************************************)
EXTENDS EvalSyntax, FiniteSets, Functions

CONSTANTS
  MaxIDs,      \* bound on ev.id, the operation counter
  MaxStmts     \* bound on the number of statements

TChain == "chain"
TOther == "other"   \* any value that is not a call chain
NoValue == [type |-> "none"]

VARIABLES
  id,          \* ev.id
  scope,       \* ev.scope.vars; NoValue for a name never set
  operations,  \* ev.operations
  edges,       \* ev.edges
  status,      \* "running", "done" (Evaluate returns the spec) or "failed"
  stmts,       \* statements evaluated so far
  last         \* history: the statement evaluated last

vars == <<id, scope, operations, edges, status, stmts, last>>

ChainValues ==
  [type : {TChain}, parent : Nat, ops : Seq(Nat), edges : Seq(Nat \X Nat)]

-----------------------------------------------------------------------------
(* Call chains.                                                            *)

\* context.AdditionalParent: append the id unless it is already there
AdditionalParent(ps, p) == IF Contains(ps, p) THEN ps ELSE Append(ps, p)

\* the ids the constructor declares as parents, one
\* LookupIDFromIdentifier + AdditionalParent per named variable
ParentsOf(extras) ==
  FoldLeft(AdditionalParent, <<>>, [i \in DOMAIN extras |-> scope[extras[i]].parent])

\* mutant: the function's additional parents are not turned into edges
FunctionChainNoParents(op, parents) ==
  [type |-> TChain, parent |-> op, ops |-> <<op>>, edges |-> <<>>]

\* callFunction on an identifier callee: a new chain anchored on the
\* function's operation, with an edge from every additional parent
FunctionChain(op, parents) ==
  [type |-> TChain, parent |-> op, ops |-> <<op>>,
   edges |-> [i \in DOMAIN parents |-> <<parents[i], op>>]]

\* mutant: the tail advances before the chain edge is added
MethodChainTailFirst(c, op, parents) ==
  LET others == SelectSeq(parents, LAMBDA p : p # op)
  IN  [type |-> TChain, parent |-> op, ops |-> Append(c.ops, op),
       edges |-> Append(c.edges, <<op, op>>)
                   \o [i \in DOMAIN others |-> <<others[i], op>>]]

\* mutant: an additional parent equal to the chain's tail is not skipped
MethodChainAllParents(c, op, parents) ==
  [type |-> TChain, parent |-> op, ops |-> Append(c.ops, op),
   edges |-> Append(c.edges, <<c.parent, op>>)
               \o [i \in DOMAIN parents |-> <<parents[i], op>>]]

\* callFunction on a member callee: the method's operation is appended,
\* with an edge from the chain's tail and from every additional parent
\* that is not that tail; the tail advances
MethodChain(c, op, parents) ==
  LET others == SelectSeq(parents, LAMBDA p : p # c.parent)
  IN  [type |-> TChain, parent |-> op, ops |-> Append(c.ops, op),
       edges |-> Append(c.edges, <<c.parent, op>>)
                   \o [i \in DOMAIN others |-> <<others[i], op>>]]

\* the additional parents of the k-th call of e: only its last call names any
CallParents(e, k) == IF k = NumCalls(e) THEN ParentsOf(e.extras) ELSE <<>>

\* memberFunction recursing down to the head of the chain, then every
\* method call in order; the head of a variable is a copy of its chain
RECURSIVE Extend(_, _, _)
Extend(c, k, e) ==
  IF k > NumCalls(e) THEN c
  ELSE Extend(MethodChain(c, id + k - 1, CallParents(e, k)), k + 1, e)

ChainOf(e) ==
  IF e.head = Fn THEN Extend(FunctionChain(id, CallParents(e, 1)), 2, e)
  ELSE Extend(scope[e.head], 1, e)

\* the value doExpression returns
ValueOf(e) ==
  CASE e.kind = "call"  -> ChainOf(e)
    [] e.kind = "ident" -> scope[e.name]
    [] e.kind = "lit"   -> [type |-> TOther]

\* doExpression returns an error: an undefined identifier, a variable that
\* is not a function chain, or a constructor's LookupIDFromIdentifier
\* failing on an additional parent
EvalFails(e) ==
  CASE e.kind = "call"  -> \/ e.head \in Names /\ scope[e.head].type # TChain
                           \/ \E i \in DOMAIN e.extras :
                                 scope[e.extras[i]].type # TChain
    [] e.kind = "ident" -> scope[e.name] = NoValue
    [] e.kind = "lit"   -> FALSE

\* mutant: addChain leaves the chain's buffers as they are
DrainedKeepsBuffers(v) == v

\* addChain: the chain's operations and edges are appended to the spec and
\* the chain's own buffers are emptied
Drained(v) == IF v.type = TChain THEN [v EXCEPT !.ops = <<>>, !.edges = <<>>]
              ELSE v
OpsOf(v) == IF v.type = TChain THEN v.ops ELSE <<>>
EdgesOf(v) == IF v.type = TChain THEN v.edges ELSE <<>>

-----------------------------------------------------------------------------
(* Statements of eval.                                                     *)

CanEvaluate(e) ==
  /\ status = "running"
  /\ stmts < MaxStmts
  /\ id + IDsUsed(e) <= MaxIDs

\* doVariableDeclaration: scope.Set, then addChain on the stored chain
VariableDeclaration(x, e) ==
  LET v == ValueOf(e)
  IN  /\ CanEvaluate(e)
      /\ ~EvalFails(e)
      /\ scope' = [scope EXCEPT ![x] = Drained(v)]
      /\ operations' = operations \o OpsOf(v)
      /\ edges' = edges \o EdgesOf(v)
      /\ id' = id + IDsUsed(e)
      /\ stmts' = stmts + 1
      /\ last' = Stmt("decl", x, e)
      /\ UNCHANGED status

\* an expression statement: addChain when its value is a chain
ExpressionStatement(e) ==
  LET v == ValueOf(e)
  IN  /\ CanEvaluate(e)
      /\ ~EvalFails(e)
      /\ operations' = operations \o OpsOf(v)
      /\ edges' = edges \o EdgesOf(v)
      /\ id' = id + IDsUsed(e)
      /\ stmts' = stmts + 1
      /\ last' = Stmt("expr", Unbound, e)
      /\ UNCHANGED <<scope, status>>

\* any statement whose expression fails aborts Evaluate with the error
StatementError(e) ==
  /\ CanEvaluate(e)
  /\ EvalFails(e)
  /\ status' = "failed"
  /\ last' = Stmt("fail", Unbound, e)
  /\ UNCHANGED <<id, scope, operations, edges, stmts>>

\* the program has no more statements: Evaluate returns ev.spec()
EndOfProgram ==
  /\ status = "running"
  /\ status' = "done"
  /\ UNCHANGED <<id, scope, operations, edges, stmts, last>>

Init ==
  /\ id = 0
  /\ scope = [x \in Names |-> NoValue]
  /\ operations = <<>>
  /\ edges = <<>>
  /\ status = "running"
  /\ stmts = 0
  /\ last = NoStmt

Terminated == status # "running" /\ UNCHANGED vars

Next ==
  \/ \E x \in Names, e \in Exprs : VariableDeclaration(x, e)
  \/ \E e \in Exprs : ExpressionStatement(e)
  \/ \E e \in Exprs : StatementError(e)
  \/ EndOfProgram
  \/ Terminated

Spec == Init /\ [][Next]_vars

-----------------------------------------------------------------------------

(* Every operation enters the query spec exactly once, however often the  *)
(* variable holding its chain is used, extended or reassigned: addChain   *)
(* drains a chain's buffers and every later use of it starts from them    *)
(* empty.                                                                  *)
UniqueOperations == IsInjective(operations)

(* Every edge of the spec joins two operations of the spec, and the       *)
(* parent is listed before the child: the operations are in topological   *)
(* order and the graph is acyclic.                                         *)
EdgesTopological ==
  \A i \in DOMAIN edges :
     \E j, k \in DOMAIN operations :
        /\ j < k
        /\ operations[j] = edges[i][1]
        /\ operations[k] = edges[i][2]

(* No edge enters the spec twice, also when a method names its own chain,  *)
(* or two variables holding the same chain, as additional parents.        *)
NoDuplicateEdges == IsInjective(edges)

-----------------------------------------------------------------------------
(* Refinement: the evaluator implements QueryGraph.  A variable is bound  *)
(* to the tail (Parent) of the chain stored in the scope; the graph is    *)
(* the operations and edges drained into the spec.                        *)

ScopeTail ==
  [x \in Names |-> CASE scope[x].type = TChain -> scope[x].parent
                     [] scope[x] = NoValue    -> Unbound
                     [] OTHER                 -> Other]

QG == INSTANCE QueryGraph
        WITH nextId <- id, tail <- ScopeTail,
             gops <- ToSet(operations), gedges <- ToSet(edges)

(* Every behaviour of the evaluator is one of QueryGraph: in particular   *)
(* a = f(); b = a.g(); c = a.h() makes g and h both children of f's        *)
(* operation, because memberFunction extends a copy of the stored chain   *)
(* and never the chain the scope holds.                                    *)
ImplementsQueryGraph == QG!Spec

=============================================================================
