------------------------------- MODULE Syntax -------------------------------
(***************************************************************************)
(* Abstract syntax of the language after reduction (parsing/nodes.h), with *)
(* one operator per node.  Locations and spellings are left out: an        *)
(* identifier is a name.  Shared by the code generator (Codegen), by the   *)
(* meaning it must preserve (Meaning) and by the programs that are checked.*)
(***************************************************************************)
EXTENDS Integers, Sequences

\* LiteralNode, by literal type.
Number(n) == [kind |-> "literal", type |-> "int", value |-> n]
Boolean(b) == [kind |-> "literal", type |-> "bool", value |-> IF b THEN 1 ELSE 0]
Unit == [kind |-> "literal", type |-> "unit", value |-> 0]

Identifier(x) == [kind |-> "identifier", ident |-> x]
Underscore == [kind |-> "underscore"]

BinOp(op, l, r) == [kind |-> "bin_op", op |-> op, l |-> l, r |-> r]
UnaryOp(op, e) == [kind |-> "unary_op", op |-> op, val |-> e]
ConsExpr(l, r) == BinOp("CONS", l, r)

Application(f, a) == [kind |-> "application", function |-> f, argument |-> a]
Lambda(params, e) == [kind |-> "lambda", params |-> params, body |-> e]
IfExpr(c, t, e) == [kind |-> "if", condition |-> c, then |-> t, else |-> e]

\* A declaration without parameters, or with a lambda as its body (reduction.c).
Declaration(x, e) == [name |-> x, body |-> e]
LetExpr(declarations, e) == [kind |-> "let", declarations |-> declarations, body |-> e]

\* One branch of a case; the condition is Null or an expression.
Null == [kind |-> "null"]
CasePattern(p, condition, e) == [pattern |-> p, condition |-> condition, body |-> e]
CaseExpr(e, patterns) == [kind |-> "case", value |-> e, patterns |-> patterns]

Constructor == [kind |-> "constructor"]

\* @std_builtin(x)
Attribute(x) == [kind |-> "attribute", ident |-> x]

\* f applied to several arguments, as the parser nests them.
RECURSIVE Apply(_, _)
Apply(f, arguments) ==
  IF arguments = <<>> THEN f
  ELSE Apply(Application(f, Head(arguments)), Tail(arguments))

\* The function of nested applications, and their arguments, last first.
RECURSIVE Callee(_)
Callee(e) == IF e.kind = "application" THEN Callee(e.function) ELSE e
RECURSIVE ArgumentsOf(_)
ArgumentsOf(e) ==
  IF e.kind = "application" THEN <<e.argument>> \o ArgumentsOf(e.function) ELSE <<>>

\* Whether a top-level declaration is a constructor, with or without parameters.
IsConstructor(d) ==
  \/ d.body.kind = "constructor"
  \/ d.body.kind = "lambda" /\ d.body.body.kind = "constructor"
=============================================================================
