---------------------------- MODULE MCEvaluator ----------------------------
(* Bounds for Evaluator: two variables, chains of up to two methods, up to *)
(* two additional parents, four operations and three statements: enough  *)
(* for a = f(); b = a.g(); c = a.h() branching, for reassignment, and for  *)
(* a method naming its own chain or an alias of it as a parent.           *)
EXTENDS Evaluator

CONSTANTS a, b

MCNames == {a, b}
=============================================================================
