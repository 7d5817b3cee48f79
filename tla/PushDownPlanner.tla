--------------------------- MODULE PushDownPlanner ---------------------------
(***************************************************************************)
(* The physical planner's push-down rewrite (spec.md 4.2) with the filter *)
(* procedure's push-down hooks (src/functions/filter.go).                 *)
(*                                                                         *)
(* The planner walks the logical plan's procedures in its order; for one  *)
(* with a PushDownRule it walks up through the rule's `through` kinds to   *)
(* an ancestor of the rule's root kind and calls p.PushDown(root, dup),    *)
(* then removes p and splices p's children onto the root's branch: the    *)
(* original one, or the copy dup() made of the path from the root down to *)
(* p's parent.  The planner itself, dup and the range procedure's hooks   *)
(* are not in the repository and follow the spec; the filter hooks follow *)
(* the code.                                                               *)
(*                                                                         *)
(* A procedure is a record: its kind, the logical procedure it stands for *)
(* (lid, kept by copies), its parent, and for a from procedure the filter *)
(* and bounds it absorbed (the lid of the absorbed procedure, or None).   *)
(***************************************************************************)
EXTENDS Naturals, Sequences, SequencesExt, FiniteSets

CONSTANTS Plans   \* logical plans: [procs |-> procedures, order |-> ids]

FromKind   == "from"
RangeKind  == "range"
FilterKind == "filter"
GroupKind  == "group"
LimitKind  == "limit"
MaxKind    == "max"
Kinds == {FromKind, RangeKind, FilterKind, GroupKind, LimitKind, MaxKind}

None == 0
NoParent == <<>>

VARIABLES
  logical,  \* the logical plan's procedures, fixed in Init
  procs,    \* the plan being rewritten: procedure id -> procedure
  order,    \* the procedures of the logical order not yet visited
  result    \* every logical result (leaf) -> the procedure producing it now

vars == <<logical, procs, order, result>>

Children(ps, x) == {y \in DOMAIN ps : ps[y].parent = x}
Leaves(ps) == {x \in DOMAIN ps : Children(ps, x) = {}}

-----------------------------------------------------------------------------
(* Push-down rules and hooks.                                              *)

\* FilterProcedureSpec.PushDownRule
FilterRule == [root |-> FromKind, through |-> {GroupKind, LimitKind, RangeKind}]

\* the range procedure is fused into the from procedure directly above it
RangeRule == [root |-> FromKind, through |-> {}]

HasRule(k) == k \in {FilterKind, RangeKind}
RuleOf(k) == IF k = FilterKind THEN FilterRule ELSE RangeRule

\* ProcedureIDForDuplicate: a fixed function of the original id
Dup(x) == <<0>> \o x

\* the walk up from x through the rule's through kinds to its root kind
RECURSIVE RootOf(_, _, _)
RootOf(ps, x, rule) ==
  LET q == ps[x].parent
  IN  CASE q = NoParent                 -> NoParent
        [] ps[q].kind = rule.root       -> q
        [] ps[q].kind \in rule.through  -> RootOf(ps, q, rule)
        [] OTHER                        -> NoParent

\* the procedures from x up to the root r
RECURSIVE PathUp(_, _, _)
PathUp(ps, r, x) == IF x = r THEN {r} ELSE {x} \cup PathUp(ps, r, ps[x].parent)

\* dup(): the plan with a copy of the path from r down to x, each copy
\* under the copy of its parent; a copy replaces a procedure of its id
Duplicated(ps, r, x) ==
  LET copies == [y \in {Dup(z) : z \in PathUp(ps, r, x)} |->
                   [ps[Tail(y)] EXCEPT !.parent =
                      IF Tail(y) = r THEN NoParent ELSE Dup(@)]]
  IN  copies @@ ps

\* FilterProcedureSpec.PushDown: with the root's filter already set, dup()
\* and clear the copy's filter; otherwise set the root's filter.  The
\* record is the plan and the root p's branch now hangs from.
FilterPushDown(ps, r, p, dupd) ==
  IF ps[r].filter # None
  THEN [plan |-> [dupd EXCEPT ![Dup(r)].filter = None], root |-> Dup(r)]
  ELSE [plan |-> [ps EXCEPT ![r].filter = ps[p].lid], root |-> r]

\* the range procedure's PushDown: the bounds of a root that has bounds
\* already go to a duplicate
RangePushDown(ps, r, p, dupd) ==
  IF ps[r].bounds # None
  THEN [plan |-> [dupd EXCEPT ![Dup(r)].bounds = ps[p].lid], root |-> Dup(r)]
  ELSE [plan |-> [ps EXCEPT ![r].bounds = ps[p].lid], root |-> r]

PushDownOf(ps, r, p) ==
  LET dupd == Duplicated(ps, r, ps[p].parent)
  IN  IF ps[p].kind = FilterKind THEN FilterPushDown(ps, r, p, dupd)
      ELSE RangePushDown(ps, r, p, dupd)

\* mutant: the removed procedure's children keep their parent pointer
SpliceKeepsParents(ps, p, at) == [y \in DOMAIN ps \ {p} |-> ps[y]]

\* removeProcedure: p's children now hang from `at`
Splice(ps, p, at) ==
  [y \in DOMAIN ps \ {p} |->
     IF ps[y].parent = p THEN [ps[y] EXCEPT !.parent = at] ELSE ps[y]]

-----------------------------------------------------------------------------
(* The planner's walk over the logical order.                              *)

\* the next procedure has no rule, or no root reachable: it stays
KeepProcedure ==
  LET p == Head(order)
  IN  /\ order # <<>>
      /\ \/ ~HasRule(procs[p].kind)
         \/ RootOf(procs, p, RuleOf(procs[p].kind)) = NoParent
      /\ order' = Tail(order)
      /\ UNCHANGED <<logical, procs, result>>

\* p.PushDown(root, dup), then p is removed and spliced out
PushDownProcedure ==
  LET p   == Head(order)
      r   == RootOf(procs, p, RuleOf(procs[p].kind))
      out == PushDownOf(procs, r, p)
      at  == IF out.root = r THEN procs[p].parent ELSE Dup(procs[p].parent)
  IN  /\ order # <<>>
      /\ HasRule(procs[p].kind)
      /\ r # NoParent
      /\ procs' = Splice(out.plan, p, at)
      /\ result' = [l \in DOMAIN result |-> IF result[l] = p THEN at
                                            ELSE result[l]]
      /\ order' = Tail(order)
      /\ UNCHANGED logical

Init ==
  \E pl \in Plans :
     /\ logical = pl.procs
     /\ procs = pl.procs
     /\ order = pl.order
     /\ result = [l \in Leaves(pl.procs) |-> l]

\* the walk is over: the physical plan's results are its leaves
Terminated == order = <<>> /\ UNCHANGED vars

Next == KeepProcedure \/ PushDownProcedure \/ Terminated

Spec == Init /\ [][Next]_vars

-----------------------------------------------------------------------------
(* What a result computes: the path from its source, as the sequence of   *)
(* segments between order-sensitive procedures (limit, max), each with    *)
(* the set of row predicates (filters, ranges, and those a from absorbed) *)
(* applied in it.  Predicates commute with each other and with group.     *)

RECURSIVE PathFromRoot(_, _)
PathFromRoot(ps, x) ==
  IF ps[x].parent = NoParent THEN <<x>>
  ELSE Append(PathFromRoot(ps, ps[x].parent), x)

Segment(ps, acc, y) ==
  CASE ps[y].kind = FromKind ->
         <<[sep |-> ps[y].lid,
            preds |-> {ps[y].filter, ps[y].bounds} \ {None}]>>
    [] ps[y].kind \in {FilterKind, RangeKind} ->
         [acc EXCEPT ![Len(acc)].preds = @ \cup {ps[y].lid}]
    [] ps[y].kind = GroupKind -> acc
    [] OTHER -> Append(acc, [sep |-> ps[y].lid, preds |-> {}])

Sem(ps, x) == FoldLeft(LAMBDA acc, y : Segment(ps, acc, y), <<>>,
                       PathFromRoot(ps, x))

Ids == DOMAIN procs

TypeOK ==
  /\ \A x \in Ids :
        /\ procs[x].kind \in Kinds
        /\ procs[x].parent \in Ids \cup {NoParent}
        /\ procs[x].filter \in Nat /\ procs[x].bounds \in Nat
  /\ order \in Seq(DOMAIN logical)
  /\ result \in [Leaves(logical) -> Ids]

(* Push-down preserves semantics (spec.md 5.3): once the walk is over,    *)
(* the results of the physical plan are exactly its leaves, one for each  *)
(* result of the logical plan, and each computes what its logical result  *)
(* computes: the same predicates, in the same segments.  This is about    *)
(* the filter's PushDownRule and PushDown and the splice and dup around   *)
(* them.                                                                   *)
PushDownPreservesResults ==
  order = <<>> =>
     /\ {result[l] : l \in DOMAIN result} = Leaves(procs)
     /\ Cardinality(Leaves(procs)) = Cardinality(DOMAIN result)
     /\ \A l \in DOMAIN result : Sem(procs, result[l]) = Sem(logical, l)

=============================================================================
