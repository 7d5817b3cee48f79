---------------------------- MODULE ExprCompiler ----------------------------
(***************************************************************************)
(* The evaluator's expression compiler (src/ifql/eval.go, binaryOperation *)
(* to logicalExpression): it turns the AST of a binary or logical         *)
(* expression into an expression.Node tree.  These are pure operators; a  *)
(* result is Ok(node) or Fail(error), and the first error met in the     *)
(* code's order of evaluation is the one returned.                        *)
(*                                                                         *)
(* An AST node is a record with a `node` tag.  A literal keeps its value  *)
(* as a model value; the parser's positions and the regexp's compiled    *)
(* form are left out.                                                     *)
(***************************************************************************)
EXTENDS Naturals, Sequences

Lit(k, v)         == [node |-> k, value |-> v]
Ident(n)          == [node |-> "ident", name |-> n]
Member(o, p)      == [node |-> "member", object |-> o, property |-> p]
Binary(op, l, r)  == [node |-> "binary", op |-> op, left |-> l, right |-> r]
Logical(op, l, r) == [node |-> "logical", op |-> op, left |-> l, right |-> r]
Arrow(ps, b)      == [node |-> "arrow", params |-> ps, body |-> b]
ArrayExpr(es)     == [node |-> "array", elements |-> es]

LiteralKinds ==
  {"string", "bool", "number", "integer", "duration", "datetime", "regexp"}

Ok(x)   == [ok |-> TRUE, val |-> x]
Fail(e) == [ok |-> FALSE, err |-> e]

\* expression.Node values
LiteralNode(t, v)     == [type |-> t, value |-> v]
ReferenceNode(n)      == [type |-> "reference", name |-> n]
MemberRefNode(o, p)   == [type |-> "memberref", object |-> o, property |-> p]
BinaryNode(op, l, r)  == [type |-> "binary", op |-> op, left |-> l, right |-> r]

\* primaryNode's literal cases: the node built for each literal kind
LiteralNodeType ==
  [string |-> "string", bool |-> "bool", number |-> "float",
   integer |-> "integer", duration |-> "duration", datetime |-> "time",
   regexp |-> "regexp"]

-----------------------------------------------------------------------------
(* Operators.  The expression operators keep the AST operator's name,     *)
(* except the two regexp ones.                                             *)

RegexpMatch    == "=~"
RegexpNotMatch == "!~"

\* the AST operators expressionOperator maps one to one
DirectOperators ==
  {"startsWith", "*", "/", "+", "-", "<=", "<", ">=", ">", "in", "notEmpty"}

\* mutant: != stays a plain comparison against a regexp
ExpressionOperatorNoRegexpNotEqual(op, isRegexp) ==
  CASE op = "==" -> Ok(IF isRegexp THEN RegexpMatch ELSE "==")
    [] op = "!=" -> Ok("!=")
    [] op \in DirectOperators -> Ok(op)
    [] OTHER -> Fail("unknown operator")

ExpressionOperator(op, isRegexp) ==
  CASE op = "==" -> Ok(IF isRegexp THEN RegexpMatch ELSE "==")
    [] op = "!=" -> Ok(IF isRegexp THEN RegexpNotMatch ELSE "!=")
    [] op \in DirectOperators -> Ok(op)
    [] OTHER -> Fail("unknown operator")

LogicalOperator(op) ==
  IF op \in {"and", "or"} THEN Ok(op) ELSE Fail("unknown logical operator")

\* mutant: only a regexp on the left makes a regexp comparison
IsRegexpLeftOnly(lhs, rhs) == lhs.type = "regexp"

\* binaryExpression's isRegexp: either compiled operand is a regexp literal
IsRegexp(lhs, rhs) == lhs.type = "regexp" \/ rhs.type = "regexp"

PropertyName(m) ==
  CASE m.property.node = "ident"  -> Ok(m.property.name)
    [] m.property.node = "string" -> Ok(m.property.value)
    [] OTHER -> Fail("unsupported property expression")

-----------------------------------------------------------------------------
(* The mutually recursive compiler.                                        *)

RECURSIVE PrimaryNode(_), BinaryExpression(_), LogicalExpression(_),
          BinaryOperation(_)

PrimaryNode(e) ==
  CASE e.node = "binary"       -> BinaryExpression(e)
    [] e.node \in LiteralKinds -> Ok(LiteralNode(LiteralNodeType[e.node], e.value))
    [] e.node = "ident"        -> Ok(ReferenceNode(e.name))
    [] e.node = "member" ->
         LET o == PrimaryNode(e.object)
             p == PropertyName(e)
         IN  CASE ~o.ok -> o
               [] ~p.ok -> p
               [] OTHER -> Ok(MemberRefNode(o.val, p.val))
    [] OTHER -> Fail("unknown primary type")

BinaryExpression(e) ==
  LET lhs == PrimaryNode(e.left)
      rhs == PrimaryNode(e.right)
      op  == ExpressionOperator(e.op, IsRegexp(lhs.val, rhs.val))
  IN  CASE ~lhs.ok -> lhs
        [] ~rhs.ok -> rhs
        [] ~op.ok  -> op
        [] OTHER   -> Ok(BinaryNode(op.val, lhs.val, rhs.val))

BinaryOperation(e) ==
  CASE e.node = "binary"  -> BinaryExpression(e)
    [] e.node = "logical" -> LogicalExpression(e)
    [] OTHER -> Fail("expected arithmetic, relational or logical")

LogicalExpression(e) ==
  LET lhs == BinaryOperation(e.left)
      rhs == BinaryOperation(e.right)
      op  == LogicalOperator(e.op)
  IN  CASE ~lhs.ok -> lhs
        [] ~rhs.ok -> rhs
        [] ~op.ok  -> op
        [] OTHER   -> Ok(BinaryNode(op.val, lhs.val, rhs.val))

-----------------------------------------------------------------------------
(* The tree spec.md 4.1 asks for: binary and logical expressions become   *)
(* BinaryNode{op, left, right} over references, member references and     *)
(* literals of each kind, and == / != become regexp match / not-match     *)
(* when either side is a regexp literal.                                  *)

RECURSIVE Lowered(_)
Lowered(e) ==
  CASE e.node \in {"binary", "logical"} ->
         LET rx == /\ e.node = "binary"
                   /\ "regexp" \in {e.left.node, e.right.node}
             op == CASE rx /\ e.op = "==" -> RegexpMatch
                     [] rx /\ e.op = "!=" -> RegexpNotMatch
                     [] OTHER -> e.op
         IN  BinaryNode(op, Lowered(e.left), Lowered(e.right))
    [] e.node \in LiteralKinds -> LiteralNode(LiteralNodeType[e.node], e.value)
    [] e.node = "ident" -> ReferenceNode(e.name)
    [] e.node = "member" ->
         MemberRefNode(Lowered(e.object),
                       IF e.property.node = "ident" THEN e.property.name
                       ELSE e.property.value)

=============================================================================
