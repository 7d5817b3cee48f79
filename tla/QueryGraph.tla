------------------------------ MODULE QueryGraph ------------------------------
(***************************************************************************)
(* What the evaluator promises (spec.md 4.1), stated without call-chain   *)
(* buffers: every statement adds one operation per call to the graph; a   *)
(* call chain links them in order from the operation the head names (a    *)
(* new function operation, or the tail a variable was bound to) and      *)
(* links every additional parent to its call; a declaration binds the     *)
(* variable to the chain's tail, so later chains on it branch from there. *)
(***************************************************************************)
EXTENDS EvalSyntax, FiniteSets

CONSTANTS MaxIDs, MaxStmts

VARIABLES nextId, tail, gops, gedges, status, stmts,
          last   \* history: the statement evaluated last

vars == <<nextId, tail, gops, gedges, status, stmts, last>>

IsTable(x) == tail[x] \notin {Other, Unbound}

\* the operations of a chain expression, in call order
NewOps(e) == nextId .. (nextId + NumCalls(e) - 1)
LastOp(e) == nextId + NumCalls(e) - 1

NewEdges(e) ==
     {<<tail[e.head], nextId>> : i \in (IF e.head \in Names THEN {1} ELSE {})}
  \cup {<<o, o + 1>> : o \in nextId .. (LastOp(e) - 1)}
  \cup {<<tail[e.extras[i]], LastOp(e)>> : i \in DOMAIN e.extras}

Fails(e) ==
  CASE e.kind = "call"  -> \/ e.head \in Names /\ ~IsTable(e.head)
                           \/ \E i \in DOMAIN e.extras : ~IsTable(e.extras[i])
    [] e.kind = "ident" -> tail[e.name] = Unbound
    [] e.kind = "lit"   -> FALSE

Bound(e) ==
  CASE e.kind = "call"  -> LastOp(e)
    [] e.kind = "ident" -> tail[e.name]
    [] e.kind = "lit"   -> Other

Enabled(e) ==
  /\ status = "running"
  /\ stmts < MaxStmts
  /\ nextId + IDsUsed(e) <= MaxIDs

AddGraph(e) ==
  IF e.kind = "call"
  THEN /\ gops' = gops \cup NewOps(e)
       /\ gedges' = gedges \cup NewEdges(e)
  ELSE UNCHANGED <<gops, gedges>>

Declare(x, e) ==
  /\ Enabled(e)
  /\ ~Fails(e)
  /\ tail' = [tail EXCEPT ![x] = Bound(e)]
  /\ AddGraph(e)
  /\ nextId' = nextId + IDsUsed(e)
  /\ stmts' = stmts + 1
  /\ last' = Stmt("decl", x, e)
  /\ UNCHANGED status

Express(e) ==
  /\ Enabled(e)
  /\ ~Fails(e)
  /\ AddGraph(e)
  /\ nextId' = nextId + IDsUsed(e)
  /\ stmts' = stmts + 1
  /\ last' = Stmt("expr", Unbound, e)
  /\ UNCHANGED <<tail, status>>

Fail(e) ==
  /\ Enabled(e)
  /\ Fails(e)
  /\ status' = "failed"
  /\ last' = Stmt("fail", Unbound, e)
  /\ UNCHANGED <<nextId, tail, gops, gedges, stmts>>

Finish ==
  /\ status = "running"
  /\ status' = "done"
  /\ UNCHANGED <<nextId, tail, gops, gedges, stmts, last>>

Init ==
  /\ nextId = 0
  /\ tail = [x \in Names |-> Unbound]
  /\ gops = {}
  /\ gedges = {}
  /\ status = "running"
  /\ stmts = 0
  /\ last = NoStmt

Next ==
  \/ \E x \in Names, e \in Exprs : Declare(x, e)
  \/ \E e \in Exprs : Express(e)
  \/ \E e \in Exprs : Fail(e)
  \/ Finish

Spec == Init /\ [][Next]_vars
=============================================================================
