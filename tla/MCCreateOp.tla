------------------------------ MODULE MCCreateOp ------------------------------
(***************************************************************************)
(* Calls and constructors for CreateOp.  The constructors are those of    *)
(* the repository (filter's required "f", max's optional "useRowTime"),   *)
(* the range of spec.md S2 (a required start and an optional stop time),  *)
(* and one reading an array, the getter no constructor here uses.         *)
(***************************************************************************)
EXTENDS CreateOp

Obj(ps)    == [node |-> "object", properties |-> ps]
Prop(k, v) == [key |-> k, value |-> v]

\* createFilterOpSpec reads "f" as a function, GetRequiredExpression here
FilterCtor == <<Read("f", "expression", TRUE)>>
\* createMaxOpSpec
MaxCtor    == <<Read("useRowTime", "bool", FALSE)>>
RangeCtor  == <<Read("start", "time", TRUE), Read("stop", "time", FALSE)>>
TagsCtor   == <<ReadArray("f", "string", FALSE)>>
MCCtors == {FilterCtor, MaxCtor, RangeCtor, TagsCtor}

ArgKeys == {"f", "useRowTime", "start"}

\* r, r.a, r["a"], r[1] and literals as operands of a comparison
R == Ident("r")
RA == Member(R, Ident("a"))
Operands == {R, RA, Member(R, Lit("string", "a")), Member(R, Lit("integer", "1")),
             Lit("string", "a"), Lit("regexp", "x"), Lit("integer", "1")}
BinOps == {"==", "!=", "<", "startsWith"}
Comparisons == {Binary(op, a, b) : op \in BinOps, a, b \in Operands}
SomeComparisons ==
  {Binary("==", RA, Lit("regexp", "x")), Binary("!=", Lit("regexp", "x"), RA),
   Binary("<", RA, Lit("integer", "1"))}
Logicals == {Logical(op, a, b) : op \in {"and", "or"},
                                 a, b \in SomeComparisons \cup {RA}}
Nested == {Binary("==", c, Lit("bool", "true")) : c \in SomeComparisons \cup Logicals}
          \cup {Logical("and", l, c) : l \in Logicals, c \in SomeComparisons}
\* arrow bodies: compiled expressions, and a literal, a member, a stored
\* predicate and a chain
Bodies == Comparisons \cup Logicals \cup Nested
          \cup {Lit("bool", "true"), RA, Ident("p"), Ident("t")}
Arrows == {Arrow(<<"r">>, b) : b \in Bodies}

Values ==
  {Lit("integer", "1"), Lit("string", "a"), Lit("bool", "true"),
   Lit("number", "1.0"), Lit("datetime", "d"), Lit("duration", "h"),
   Lit("regexp", "x"),
   Ident("t"), Ident("u"), RA,
   ArrayExpr(<<>>), ArrayExpr(<<Lit("string", "a")>>),
   ArrayExpr(<<Lit("integer", "1")>>),
   ArrayExpr(<<Lit("string", "a"), Lit("integer", "1")>>),
   Binary("==", RA, Lit("string", "a")),
   Arrow(<<"r">>, Binary("==", RA, Lit("regexp", "x")))}

\* no argument, a non-object argument, and objects of up to two properties
MCCalls ==
  {<<>>, <<Lit("integer", "1")>>, <<Obj(<<>>)>>}
  \cup {<<Obj(<<Prop(k, v)>>)>> : k \in ArgKeys, v \in Values \cup Arrows}
  \cup {<<Obj(<<Prop(k1, v1), Prop(k2, v2)>>)>> :
          k1, k2 \in ArgKeys, v1, v2 \in Values}

\* a chain bound by a declaration, and a predicate bound to a variable
MCScope ==
  [t |-> Value("chain", [chain |-> "t"]),
   p |-> ExprValue(BinaryNode("==", ReferenceNode("r"),
                              LiteralNode("integer", "1")), <<>>)]
=============================================================================
