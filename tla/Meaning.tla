------------------------------ MODULE Meaning ------------------------------
(***************************************************************************)
(* What a program means, defined on its syntax tree with environments and  *)
(* without addresses, stacks or jumps: the abstract specification that the *)
(* code generator and the machine implement together.                      *)
(*                                                                         *)
(* Produce is the value an expression leaves; it may be delayed.  Operators*)
(* are applied and conditions are decided as soon as they are met; an      *)
(* application and the body of a declaration wait until Force needs them.  *)
(* An error anywhere is an error of the program.                           *)
(***************************************************************************)
EXTENDS Syntax, SequencesExt

IntValue(n) == [kind |-> "int", n |-> n]
BoolValue(b) == [kind |-> "bool", n |-> IF b THEN 1 ELSE 0]
ConsValue(l, r) == [kind |-> "cons", l |-> l, r |-> r]
\* An object of a constructor, and its arguments.
ObjectValue(name, fields) == [kind |-> "object", name |-> name, fields |-> fields]
Error == [kind |-> "error"]

\* A function with the arguments it was given so far; with enough of them it is
\* a call that waits to be forced.
Function(name, params, body, env) ==
  [kind |-> "function", name |-> name, params |-> params, body |-> body, env |-> env, args |-> <<>>]
Delayed(name, body, env) == [kind |-> "delayed", name |-> name, body |-> body, env |-> env]

\* The value of a declaration; entering it binds its name to itself.
Bound(name, body, env) ==
  IF body.kind = "lambda" THEN Function(name, body.params, body.body, env)
  ELSE Delayed(name, body, env)

Lookup(p, env, x) ==
  IF x \in DOMAIN env THEN env[x]
  ELSE LET d == CHOOSE d \in p.globals : d.name = x IN Bound(x, d.body, <<>>)

IsVariant(p, x) == \E d \in p.globals : d.name = x /\ IsConstructor(d)

\* The environment in which a body runs.
Entered(v) ==
  IF v.kind = "function"
  THEN [x \in ToSet(v.params) |-> v.args[CHOOSE i \in DOMAIN v.params : v.params[i] = x]]
         @@ (v.name :> [v EXCEPT !.args = <<>>]) @@ v.env
  ELSE (v.name :> v) @@ v.env

-----------------------------------------------------------------------------
(***************************************************************************)
(* Operators on forced values.                                             *)
(***************************************************************************)
Abs(n) == IF n < 0 THEN -n ELSE n
Arithmetic(op, l, r) ==
  CASE op = "ADD" -> IntValue(l + r)
    [] op = "SUB" -> IntValue(l - r)
    [] op = "MUL" -> IntValue(l * r)
    \* truncated towards zero
    [] op = "DIV" -> LET q == Abs(l) \div Abs(r) IN IntValue(IF (l < 0) = (r < 0) THEN q ELSE -q)
    [] op = "LESS" -> BoolValue(l < r)
    [] op = "LESS_EQ" -> BoolValue(l <= r)
    [] op = "GREATER" -> BoolValue(l > r)
    [] op = "GREATER_EQ" -> BoolValue(l >= r)

Strict(op, l, r) ==
  IF op = "EQUAL"
  THEN IF l.kind = r.kind /\ l.kind \in {"int", "bool", "unit"} THEN BoolValue(l.n = r.n) ELSE Error
  ELSE IF l.kind = "int" /\ r.kind = "int" THEN Arithmetic(op, l.n, r.n) ELSE Error

\* A connective looks at its second operand only when the first does not decide.
Unary(op, v) ==
  CASE op = "NEG" /\ v.kind = "int" -> IntValue(-v.n)
    [] op = "NOT" /\ v.kind = "bool" -> BoolValue(v.n = 0)
    [] op = "FORCE" -> v
    [] OTHER -> Error
Connective(op, truth, r) ==
  IF truth.kind # "bool" THEN Error
  ELSE IF (truth.n = 1) = (op = "AND") THEN r ELSE truth

RECURSIVE Force(_, _), Produce(_, _, _), Match(_, _, _, _), Branches(_, _, _, _)

\* The weak head normal form of a value: a call is carried out, and its result
\* is given the arguments that were too many for it.
Given(p, result, extra) ==
  IF extra = <<>> THEN result
  ELSE IF result.kind # "function" THEN Error
  ELSE Force(p, [result EXCEPT !.args = @ \o extra])
Run(p, v) ==
  IF v.body.kind = "constructor"
  THEN ObjectValue(v.name, IF v.kind = "function" THEN SubSeq(v.args, 1, Len(v.params)) ELSE <<>>)
  ELSE Force(p, Produce(p, v.body, Entered(v)))
IsCall(v) == v.kind = "function" /\ Len(v.args) >= Len(v.params)
Force(p, v) ==
  IF v.kind = "delayed" \/ IsCall(v)
  THEN Given(p, Run(p, v), IF IsCall(v) THEN SubSeq(v.args, Len(v.params) + 1, Len(v.args)) ELSE <<>>)
  ELSE v

\* A value given arguments, the last one first.
Applied(f, args) ==
  IF (\E i \in DOMAIN args : args[i].kind = "error") \/ f.kind # "function" THEN Error
  ELSE [f EXCEPT !.args = @ \o Reverse(args)]
\* What an operator other than composition yields of the values of its operands.
Combined(p, op, l, r) ==
  IF l.kind = "error" \/ r.kind = "error" THEN Error
  ELSE IF op = "CONS" THEN ConsValue(l, r)
  ELSE IF op \in {"AND", "OR"} THEN Connective(op, Force(p, l), r)
  ELSE Strict(op, Force(p, l), Force(p, r))
WithDeclaration(d, env) == (d.name :> Bound(d.name, d.body, env)) @@ env
LetEnv(declarations, env) ==
  LET declared[i \in 0..Len(declarations)] ==
        IF i = 0 THEN env
        ELSE WithDeclaration(declarations[i], declared[i - 1])
  IN  declared[Len(declarations)]
\* The branch that a condition chooses.
Chosen(truth, e) ==
  CASE truth.kind # "bool" -> Error
    [] truth = BoolValue(TRUE) -> e.then
    [] OTHER -> e.else

Produce(p, e, env) ==
  CASE e.kind = "literal" -> [kind |-> e.type, n |-> e.value]
    [] e.kind = "error" -> Error
    [] e.kind = "identifier" -> Lookup(p, env, e.ident)
    [] e.kind = "lambda" -> Function("", e.params, e.body, env)
    [] e.kind = "let" -> Produce(p, e.body, LetEnv(e.declarations, env))
    [] e.kind = "application" ->
         Applied(Force(p, Produce(p, Callee(e), env)),
                 [i \in DOMAIN ArgumentsOf(e) |-> Produce(p, ArgumentsOf(e)[i], env)])
    [] e.kind = "if" -> Produce(p, Chosen(Force(p, Produce(p, e.condition, env)), e), env)
    [] e.kind = "case" -> Branches(p, e.patterns, Produce(p, e.value, env), env)
    [] e.kind = "unary_op" -> Unary(e.op, Force(p, Produce(p, e.val, env)))
    [] e.kind = "bin_op" /\ e.op = "COMPOSITION" ->
         Produce(p, Apply(Identifier("compose"), <<e.l, e.r>>), env)
    [] e.kind = "bin_op" /\ e.op # "COMPOSITION" ->
         Combined(p, e.op, Produce(p, e.l, env), Produce(p, e.r, env))

(***************************************************************************)
(* Matching a value gives the environment of the branch, NoMatch or Error. *)
(* A pattern forces only what it has to look at; the arguments of a        *)
(* constructor are looked at last first.                                   *)
(***************************************************************************)
NoMatch == [kind |-> "no match"]
Matched(env) == [kind |-> "matched", env |-> env]

\* A forced value against the head of a pattern.
Fits(pattern, w) ==
  CASE pattern.kind = "literal" -> w.kind = pattern.type /\ w.n = pattern.value
    [] pattern.kind = "bin_op" -> w.kind = "cons"
    [] OTHER -> w.kind = "object" /\ w.name = Callee(pattern).ident
\* The components of a pattern with those of the value it fits, in order.
Components(pattern, w) ==
  CASE pattern.kind = "literal" -> <<>>
    [] pattern.kind = "bin_op" -> << <<pattern.l, w.l>>, <<pattern.r, w.r>> >>
    [] OTHER -> LET last_first == ArgumentsOf(pattern)
                IN  [i \in DOMAIN last_first |-> <<last_first[i], w.fields[Len(last_first) - i + 1]>>]

AllMatched(p, components, env) ==
  LET matched[i \in 0..Len(components)] ==
        IF i = 0 THEN Matched(env)
        ELSE IF matched[i - 1].kind # "matched" THEN matched[i - 1]
        ELSE Match(p, components[i][1], components[i][2], matched[i - 1].env)
  IN  matched[Len(components)]
Inspect(p, pattern, w, env) ==
  IF w.kind = "error" THEN Error
  ELSE IF ~Fits(pattern, w) THEN NoMatch
  ELSE AllMatched(p, Components(pattern, w), env)
Match(p, pattern, v, env) ==
  IF pattern.kind = "underscore" THEN Matched(env)
  ELSE IF pattern.kind = "identifier" /\ ~IsVariant(p, pattern.ident)
  THEN Matched((pattern.ident :> v) @@ env)
  ELSE Inspect(p, pattern, Force(p, v), env)

\* The first branch that matches and whose condition, if it has one, is true.
Condition(b) == IF b.condition.kind = "null" THEN Boolean(TRUE) ELSE b.condition
Enter(p, patterns, v, m, truth, env) ==
  CASE m.kind = "error" \/ (m.kind = "matched" /\ truth.kind # "bool") -> Error
    [] m.kind = "matched" /\ truth = BoolValue(TRUE) -> Produce(p, Head(patterns).body, m.env)
    [] OTHER -> Branches(p, Tail(patterns), v, env)
Decide(p, patterns, v, m, env) ==
  Enter(p, patterns, v, m,
        IF m.kind = "matched" THEN Force(p, Produce(p, Condition(Head(patterns)), m.env)) ELSE m, env)
Branches(p, patterns, v, env) ==
  IF patterns = <<>> \/ v.kind = "error" THEN Error
  ELSE Decide(p, patterns, v, Match(p, Head(patterns).pattern, v, env), env)

(***************************************************************************)
(* A value as it can be seen in the heap, to a depth: numbers, objects with *)
(* their fields, functions with the arguments they hold.                   *)
(***************************************************************************)
Cut == [kind |-> "cut"]

RECURSIVE Value(_, _, _)
Seen(w) ==
  CASE w.kind = "cons" -> [kind |-> "cons", fields |-> <<w.l, w.r>>]
    [] w.kind = "function" -> IF w.args = <<>> THEN [kind |-> "closure"]
                              ELSE [kind |-> "application", fields |-> w.args]
    [] OTHER -> w
ValueOf(p, seen, depth) ==
  IF "fields" \in DOMAIN seen
  THEN [seen EXCEPT !.fields = [i \in DOMAIN @ |-> Value(p, @[i], depth - 1)]]
  ELSE seen
Value(p, v, depth) == IF depth = 0 THEN Cut ELSE ValueOf(p, Seen(Force(p, v)), depth)

\* The program: main handed to run, and the result forced.
Result(p, depth) ==
  Value(p, Produce(p, Application(Identifier("run"), p.main), <<>>), depth)
=============================================================================
