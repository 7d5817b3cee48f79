------------------------------ MODULE CreateOp ------------------------------
(***************************************************************************)
(* One call of createOp (src/ifql/eval.go): the keyword arguments of a    *)
(* function or method call are evaluated (doExpression on each property,  *)
(* with doLiteral, doArray, arrow functions and the expression compiler   *)
(* of ExprCompiler), bound by resolveParameters, read by the operation's   *)
(* constructor through the typed getters of `arguments`, and checked for  *)
(* unread keywords by listUnused.                                          *)
(*                                                                         *)
(* A constructor is given by the sequence of getter calls it makes; every *)
(* constructor of the repository returns the first error a getter gives.  *)
(* A Value is a record [type, value]; the value of a literal holds the    *)
(* literal's text, an array's its element type and elements, an          *)
(* expression's its root node and parameter names.                        *)
(***************************************************************************)
EXTENDS ExprCompiler, FiniteSets, SequencesExt

CONSTANTS
  Calls,    \* the argument lists of the call: sequences of AST expressions
  Ctors,    \* constructors: sequences of reads [name, type, elem, required]
  Scope     \* the evaluator's scope: identifier -> Value

VARIABLES
  args,     \* the call's arguments
  ctor,     \* the reads the constructor makes
  pc,       \* "start", "resolve", "construct" or "done"
  props,    \* the object's properties resolveParameters has not reached
  params,   \* paramMap, then arguments.params: keyword -> Value
  used,     \* arguments.used
  reads,    \* the constructor's reads not made yet
  got,      \* the values the constructor has read: keyword -> value
  id,       \* the evaluator's operation counter (nextID)
  out       \* createOp's result, once pc = "done"

vars == <<args, ctor, pc, props, params, used, reads, got, id, out>>

Value(t, v) == [type |-> t, value |-> v]

\* the Types a Value can have (TInvalid only ever tags an empty array)
ValueTypes == {"string", "int", "float", "bool", "time", "duration", "array",
               "map", "chain", "expression"}

NoOutcome == [ok |-> FALSE, err |-> "none"]

-----------------------------------------------------------------------------
(* Evaluating an argument's value.                                         *)

\* doLiteral: the Type each literal kind is tagged with
LiteralType ==
  [datetime |-> "time", duration |-> "duration", number |-> "float",
   integer |-> "int", string |-> "string", bool |-> "bool"]

\* mutant: a number literal is left untagged
DoLiteralNumberInvalid(e) ==
  CASE e.node = "number" -> Ok(Value("invalid", [lit |-> e.value]))
    [] e.node \in DOMAIN LiteralType -> Ok(Value(LiteralType[e.node], [lit |-> e.value]))
    [] OTHER -> Fail("unknown literal type")

DoLiteral(e) ==
  IF e.node \in DOMAIN LiteralType THEN Ok(Value(LiteralType[e.node], [lit |-> e.value]))
  ELSE Fail("unknown literal type")

\* the Types doArray's switch builds an array of: all but TInvalid
ArrayElementTypes == ValueTypes

ExprValue(root, ps) == Value("expression", [root |-> root, params |-> ps])

RECURSIVE DoExpression(_), DoArrayFrom(_, _, _)

\* doArray's loop: the element type so far ("invalid" before the first)
\* and the elements evaluated so far
DoArrayFrom(es, t, vs) ==
  IF es = <<>>
  THEN IF t \in ArrayElementTypes
       THEN Ok(Value("array", [elem |-> t, elements |-> vs]))
       ELSE Fail("cannot define an array with elements of type")
  ELSE LET v  == DoExpression(Head(es))
           t2 == IF t = "invalid" THEN v.val.type ELSE t
       IN  CASE ~v.ok -> v
             [] v.val.type # t2 -> Fail("cannot mix types in an array")
             [] OTHER -> DoArrayFrom(Tail(es), t2, Append(vs, v.val.value))

\* doExpression, except the call expression (callFunction, in Evaluator);
\* the arrow case asserts that its body's value holds an Expression
DoExpression(e) ==
  CASE e.node \in LiteralKinds -> DoLiteral(e)
    [] e.node = "ident" ->
         IF e.name \in DOMAIN Scope THEN Ok(Scope[e.name])
         ELSE Fail("undefined identifier")
    [] e.node = "binary" ->
         LET r == BinaryExpression(e)
         IN  IF r.ok THEN Ok(ExprValue(r.val, <<>>)) ELSE r
    [] e.node = "logical" ->
         LET r == LogicalExpression(e)
         IN  IF r.ok THEN Ok(ExprValue(r.val, <<>>)) ELSE r
    [] e.node = "arrow" ->
         LET v == DoExpression(e.body)
         IN  CASE ~v.ok -> v
               [] v.val.type # "expression" -> Fail("panic")
               [] OTHER -> Ok(ExprValue(v.val.value.root, e.params))
    [] e.node = "array" -> DoArrayFrom(e.elements, "invalid", <<>>)
    [] OTHER -> Fail("unsupported expression")

-----------------------------------------------------------------------------
(* The typed getters of `arguments`.  Each marks the keyword used first.  *)

Read(n, t, req) == [name |-> n, type |-> t, elem |-> "invalid", required |-> req]
ReadArray(n, t, req) == [name |-> n, type |-> "array", elem |-> t, required |-> req]

NotFound == [found |-> FALSE]
Found(x) == [found |-> TRUE, value |-> x]

\* arguments.get: a missing keyword is an error only when required
Get(ps, n, typ, req) ==
  CASE n \notin DOMAIN ps -> IF req THEN Fail("missing required keyword argument")
                             ELSE Ok(NotFound)
    [] ps[n].type # typ -> Fail("keyword argument should be of type")
    [] OTHER -> Ok(Found(ps[n].value))

\* ToQueryTime switches on the Go value: time.Time, time.Duration, or an
\* int64 taken as Unix seconds
ToQueryTime(v) ==
  CASE v.type = "time"     -> Ok([absolute |-> v.value])
    [] v.type = "duration" -> Ok([relative |-> v.value])
    [] v.type = "int"      -> Ok([absolute |-> v.value])
    [] OTHER -> Fail("value is not a time")

\* GetTime and GetRequiredTime: no Type check, only ToQueryTime's
GetTime(ps, r) ==
  IF r.name \notin DOMAIN ps
  THEN IF r.required THEN Fail("missing required keyword argument") ELSE Ok(NotFound)
  ELSE LET qt == ToQueryTime(ps[r.name])
       IN  IF qt.ok THEN Ok(Found(qt.val)) ELSE qt

\* GetArray and GetRequiredArray: get, then the element type
GetArray(ps, r) ==
  LET v == Get(ps, r.name, "array", r.required)
  IN  IF v.ok /\ v.val.found /\ v.val.value.elem # r.elem
      THEN Fail("keyword argument should be of an array of type")
      ELSE v

\* GetDuration and GetRequiredDuration, between GetTime and GetArray in the
\* code: get with TDuration
GetDuration(ps, r) == Get(ps, r.name, "duration", r.required)

\* GetExpression and GetRequiredExpression: get with TExpression
GetExpression(ps, r) == Get(ps, r.name, "expression", r.required)

\* the getter the constructor calls for a read; GetString to
\* GetRequiredBool are get with their own Type
ArgumentGet(ps, r) ==
  CASE r.type = "time"       -> GetTime(ps, r)
    [] r.type = "array"      -> GetArray(ps, r)
    [] r.type = "duration"   -> GetDuration(ps, r)
    [] r.type = "expression" -> GetExpression(ps, r)
    [] OTHER -> Get(ps, r.name, r.type, r.required)

-----------------------------------------------------------------------------
(* createOp's steps.                                                       *)

\* nextID, then: one argument that is not an object is an error; one
\* object is resolved; no argument (or several) leaves paramMap nil
CreateOpStart ==
  /\ pc = "start"
  /\ id' = id + 1
  /\ \/ /\ Len(args) = 1 /\ args[1].node # "object"
        /\ out' = Fail("arguments not a valid object expression")
        /\ pc' = "done"
        /\ UNCHANGED props
     \/ /\ Len(args) = 1 /\ args[1].node = "object"
        /\ props' = args[1].properties
        /\ pc' = "resolve"
        /\ UNCHANGED out
     \/ /\ Len(args) # 1
        /\ pc' = "construct"
        /\ UNCHANGED <<props, out>>
  /\ UNCHANGED <<args, ctor, params, used, reads, got>>

\* resolveParameters, one property: its value first, then the duplicate
ResolveProperty ==
  LET p == Head(props)
      v == DoExpression(p.value)
  IN  /\ pc = "resolve" /\ props # <<>>
      /\ \/ /\ ~v.ok
            /\ out' = v /\ pc' = "done"
            /\ UNCHANGED <<props, params>>
         \/ /\ v.ok /\ p.key \in DOMAIN params
            /\ out' = Fail("duplicate keyword parameter specified")
            /\ pc' = "done"
            /\ UNCHANGED <<props, params>>
         \/ /\ v.ok /\ p.key \notin DOMAIN params
            /\ params' = params @@ (p.key :> v.val)
            /\ props' = Tail(props)
            /\ UNCHANGED <<pc, out>>
      /\ UNCHANGED <<args, ctor, used, reads, got, id>>

\* every property bound: newArguments(paramMap), then the constructor
ResolveDone ==
  /\ pc = "resolve" /\ props = <<>>
  /\ pc' = "construct"
  /\ UNCHANGED <<args, ctor, props, params, used, reads, got, id, out>>

\* the constructor's next getter call; its error ends the constructor
CtorRead ==
  LET r == Head(reads)
      v == ArgumentGet(params, r)
  IN  /\ pc = "construct" /\ reads # <<>>
      /\ used' = used \cup {r.name}
      /\ \/ /\ ~v.ok
            /\ out' = v /\ pc' = "done"
            /\ UNCHANGED <<reads, got>>
         \/ /\ v.ok
            /\ got' = IF v.val.found THEN got @@ (r.name :> v.val.value) ELSE got
            /\ reads' = Tail(reads)
            /\ UNCHANGED <<pc, out>>
      /\ UNCHANGED <<args, ctor, props, params, id>>

\* mutant: the difference taken the wrong way round
ListUnusedSwapped(ps, u) == u \ DOMAIN ps

\* arguments.listUnused: the keywords provided and never read
ListUnused(ps, u) == DOMAIN ps \ u

\* the constructor returned its spec: listUnused, then the operation
CreateOpEnd ==
  /\ pc = "construct" /\ reads = <<>>
  /\ out' = IF ListUnused(params, used) = {} THEN Ok(got)
            ELSE Fail("extra arguments provided")
  /\ pc' = "done"
  /\ UNCHANGED <<args, ctor, props, params, used, reads, got, id>>

Init ==
  /\ args \in Calls
  /\ ctor \in Ctors
  /\ pc = "start"
  /\ props = <<>>
  /\ params = [k \in {} |-> Value("invalid", "none")]
  /\ used = {}
  /\ reads = ctor
  /\ got = [k \in {} |-> "none"]
  /\ id = 0
  /\ out = NoOutcome

\* createOp has returned; the evaluator goes on or stops with the error
Returned == pc = "done" /\ UNCHANGED vars

Next == CreateOpStart \/ ResolveProperty \/ ResolveDone \/ CtorRead
          \/ CreateOpEnd \/ Returned

Spec == Init /\ [][Next]_vars

-----------------------------------------------------------------------------
(* Properties.                                                             *)

Keys == {r.name : r \in UNION {ToSet(c) : c \in Ctors}}
       \cup UNION {{p.key : p \in ToSet(a[1].properties)} :
                   a \in {c \in Calls : Len(c) = 1 /\ c[1].node = "object"}}

TypeOK ==
  /\ pc \in {"start", "resolve", "construct", "done"}
  /\ DOMAIN params \subseteq Keys
  /\ \A k \in DOMAIN params : params[k].type \in ValueTypes
  /\ used \subseteq Keys
  /\ DOMAIN got \subseteq used
  /\ id \in {0, 1}

\* the object's properties, as the parser gave them
Object == IF args = <<>> THEN <<>> ELSE args[1].properties
ObjectKeys == {Object[i].key : i \in DOMAIN Object}
\* the first property of keyword k: the one resolveParameters binds
FirstWith(k) == CHOOSE i \in DOMAIN Object :
                  Object[i].key = k /\ \A j \in 1..(i - 1) : Object[j].key # k
ValueOf(k) == DoExpression(Object[FirstWith(k)].value).val

\* what a typed accessor accepts (spec.md 4.1): its own Type; for a time,
\* an absolute time, a duration relative to now, or Unix seconds; for an
\* array, an array of the element type asked for
Accepts(r, v) ==
  CASE r.type = "time"  -> v.type \in {"time", "duration", "int"}
    [] r.type = "array" -> v.type = "array" /\ v.value.elem = r.elem
    [] OTHER -> v.type = r.type

\* spec.md 4.1: the keyword arguments are one object literal whose
\* properties all evaluate, with no keyword twice, every keyword read by
\* the constructor with a value of the accessor's type, and every
\* required keyword present
ArgumentsValid ==
  /\ Len(args) = 0 \/ args[1].node = "object"
  /\ \A i \in DOMAIN Object : DoExpression(Object[i].value).ok
  /\ IsInjective([i \in DOMAIN Object |-> Object[i].key])
  /\ \A k \in ObjectKeys : \E r \in ToSet(ctor) : r.name = k
  /\ \A r \in ToSet(ctor) :
        IF r.name \in ObjectKeys THEN Accepts(r, ValueOf(r.name))
        ELSE ~r.required

\* what the constructor is handed when the arguments are valid
Binding ==
  [k \in ObjectKeys |->
     LET r == CHOOSE r \in ToSet(ctor) : r.name = k
     IN  IF r.type = "time" THEN ToQueryTime(ValueOf(k)).val
         ELSE ValueOf(k).value]

(* Keyword arguments are bound as spec.md 4.1 says: createOp builds the   *)
(* operation exactly when the arguments are valid, and then the           *)
(* constructor has read every argument's own value.  This is about         *)
(* resolveParameters' duplicate check, get marking a keyword used and      *)
(* checking its Type, GetTime's conversion, GetArray's element check and   *)
(* listUnused after the constructor.                                       *)
ArgumentsBoundAsSpecified ==
  pc = "done" =>
     /\ out.ok <=> ArgumentsValid
     /\ out.ok => out.val = Binding

(* An arrow function argument holds the tree spec.md 4.1 describes for    *)
(* its body, with its parameter names: binaryExpression's regexp          *)
(* operators, primaryNode's literals and member references, and           *)
(* logicalExpression, as the arrow case of doExpression binds them.       *)
CompiledAsSpecified ==
  \A k \in DOMAIN params :
     LET e == Object[FirstWith(k)].value
     IN  e.node = "arrow" /\ e.body.node \in {"binary", "logical"} =>
            params[k] = ExprValue(Lowered(e.body), e.params)

(* Evaluating the arguments never panics: spec.md 4.1 says every          *)
(* evaluation error is returned as an error.  This is about the type      *)
(* assertion in doExpression's arrow case.                                 *)
NoPanic == out # Fail("panic")

=============================================================================
