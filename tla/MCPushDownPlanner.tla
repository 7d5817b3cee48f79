-------------------------- MODULE MCPushDownPlanner --------------------------
(***************************************************************************)
(* Logical plans for PushDownPlanner.  A plan is given by the kinds of    *)
(* its procedures 1..n and their parents; procedure 1 is the from source, *)
(* every other has one parent with a smaller number, and the logical     *)
(* order is the numbering (a topological order).                          *)
(***************************************************************************)
EXTENDS PushDownPlanner

MaxProcs == 5

MCPlan(kinds, parents) ==
  LET n == Len(kinds)
  IN  [procs |-> [y \in {<<i>> : i \in 1..n} |->
                    [kind |-> kinds[y[1]], lid |-> y[1],
                     parent |-> IF parents[y[1]] = 0 THEN NoParent
                                ELSE <<parents[y[1]]>>,
                     filter |-> None, bounds |-> None]],
       order |-> [i \in 1..n |-> <<i>>]]

\* every plan of 2..MaxProcs procedures, numbered breadth first
Shapes(n) == {ps \in [1..n -> 0..n] :
                /\ ps[1] = 0
                /\ \A i \in 2..n : ps[i] \in 1..(i - 1)
                /\ \A i \in 3..n : ps[i - 1] <= ps[i]}
Labels(n) == {ks \in [1..n -> Kinds] :
                /\ ks[1] = FromKind
                /\ \A i \in 2..n : ks[i] # FromKind}
AllPlans == UNION {{MCPlan(ks, ps) : ks \in Labels(n), ps \in Shapes(n)} :
                   n \in 2..MaxProcs}

\* TestFilter_PushDown_Branch: from -> range -> (filterA, filterB)
TestBranchPlan ==
  {MCPlan(<<FromKind, RangeKind, FilterKind, FilterKind>>, <<0, 1, 2, 2>>)}


=============================================================================
