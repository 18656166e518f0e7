------------------------------- MODULE Parser -------------------------------
(***************************************************************************)
(* parsing/parser.c: build_ast, which makes the tree of one source.        *)
(*                                                                         *)
(* The state of the parser is [lexer, prev, current, has_error, err,       *)
(* crashed]: crashed is set where the code reads a member of a node that   *)
(* is null.  A node is [kind, name, kids]: its children in the order the   *)
(* code links them.  Locations are left out, and the wording of errors: an *)
(* error is the token it is reported at.                                   *)
(*                                                                         *)
(* A step is one iteration of the loop of build_ast: one module, one use   *)
(* declaration or one declaration.                                         *)
(***************************************************************************)
EXTENDS Lexer, SequencesExt

CONSTANT NumberModulus   \* 2^32: number literals are computed in a u32

N(kind, name, kids) == [kind |-> kind, name |-> name, kids |-> kids]
Null == N("null", <<>>, <<>>)

\* What a function of the parser returns, and the state it leaves.
Return(s, node) == [s |-> s, node |-> node]

-----------------------------------------------------------------------------
move_to(s, next) == [s EXCEPT !.prev = s.current, !.current = next.token, !.lexer = next.lexer]
advance(s) == move_to(s, next_token(s.lexer))
\* Only the first error is kept; behind a crash there is none.
error(s, token) ==
  IF s.has_error \/ s.crashed THEN s ELSE [s EXCEPT !.has_error = TRUE, !.err = token]
Fails(s, token) == Return(error(s, token), Null)
Crashes(s) == Return([s EXCEPT !.crashed = TRUE], Null)
consume(s, type) ==
  CASE s.current.type = type -> advance(s)
    [] s.current.type = "EOF" -> error(s, s.prev)
    [] OTHER -> error(s, s.current)

-----------------------------------------------------------------------------
(***************************************************************************)
(* Precedences, and the table of rules.                                    *)
(***************************************************************************)
PREC == [NONE |-> 0, EXPR |-> 1, COLON |-> 2, OR |-> 3, AND |-> 4, EQUALITY |-> 5,
         COMPARISON |-> 6, TERM |-> 7, FACTOR |-> 8, UNARY |-> 9, COMPOSITION |-> 10,
         APPLICATION |-> 11, NAMESPACE |-> 12, PRIMARY |-> 13]

\* The tokens an argument starts with: they are not consumed as an operator.
leave_op_token ==
  {"L_PAREN", "IDENT", "BACKTICK", "UNIT", "NUM", "CHAR", "STRING", "TRUE", "FALSE"}
UnaryOps == {"SUB", "NOT", "FORCE"}
\* Tokens with a precedence between operands, but no function to parse them there.
NoInfix == {"NOT", "FORCE"}

custom_precedence(char) ==
  CASE char \in {"=", ">", "<", "|", "&", "$", ":"} -> PREC.OR
    [] char \in {"^", "@"} -> PREC.COMPARISON
    [] char \in {"+", "-"} -> PREC.TERM
    [] char \in {"/", "*", "%"} -> PREC.FACTOR
    [] char = "#" -> PREC.COMPOSITION
    [] OTHER -> PREC.NONE
infix_precedence(token) ==
  CASE token.type = "CUSTOM_OP" -> custom_precedence(token.text[1])
    [] token.type \in leave_op_token \cup {"DOUBLE_COLON", "FORCE"} -> PREC.APPLICATION
    [] token.type = "TWO_DOT" -> PREC.NAMESPACE
    [] token.type = "DOT" -> PREC.COMPOSITION
    [] token.type = "NOT" -> PREC.UNARY
    [] token.type \in {"MUL", "DIV"} -> PREC.FACTOR
    [] token.type \in {"ADD", "SUB"} -> PREC.TERM
    [] token.type \in {"EQUAL", "GREATER", "GREATER_EQ", "LESS", "LESS_EQ"} -> PREC.COMPARISON
    [] token.type = "AND" -> PREC.AND
    [] token.type = "OR" -> PREC.OR
    [] token.type = "COLON" -> PREC.COLON
    [] OTHER -> PREC.NONE

\* The operators that leave their own precedence to their right operand.
\* Mutant: cons does not.
RightAssociative_NoCons(op) ==
  op.type = "DOT" \/ (op.type = "CUSTOM_OP" /\ op.text[1] \in {"&", "^"})
RightAssociative(op) ==
  op.type \in {"DOT", "DOUBLE_COLON"} \/ (op.type = "CUSTOM_OP" /\ op.text[1] \in {"&", "^"})
operand_precedence(op) ==
  IF RightAssociative(op) THEN infix_precedence(op) ELSE infix_precedence(op) + 1

-----------------------------------------------------------------------------
(***************************************************************************)
(* Leaves.                                                                 *)
(***************************************************************************)
identifier(token) == N("identifier", token.text, <<>>)

DigitValue(char) == CHOOSE d \in 0..9 : ToString(d) = char
Figures(chars) == SelectSeq(chars, LAMBDA c : c # "_")
RECURSIVE number_value(_)
number_value(figures) ==
  IF figures = <<>> THEN 0
  ELSE (number_value(Front(figures)) * 10 + DigitValue(Last(figures))) % NumberModulus

escaped_char(char) ==
  CASE char = "n" -> "\n" [] char = "t" -> "\t" [] char = "r" -> "\r"
    [] char = "v" -> "vertical tab" [] char = "0" -> EOF_CHAR [] OTHER -> char
Character(chars) == IF chars[2] = "\\" THEN escaped_char(chars[3]) ELSE chars[2]

literal(token) ==
  CASE token.type = "NUM" -> N("number", <<ToString(number_value(Figures(token.text)))>>, <<>>)
    [] token.type = "CHAR" -> N("character", <<Character(token.text)>>, <<>>)
    [] token.type = "STRING" -> N("string", SubSeq(token.text, 2, Len(token.text) - 1), <<>>)
    [] token.type \in {"TRUE", "FALSE"} -> N("boolean", <<token.text[1]>>, <<>>)
    [] token.type = "UNIT" -> N("unit", <<>>, <<>>)
Literals == {"NUM", "CHAR", "STRING", "TRUE", "FALSE", "UNIT"}

\* Mutant: a name between backticks that is no operator is given up without an error.
custom_op_Silent(s) ==
  LET op == advance(s)
  IN IF op.prev.type # "CUSTOM_OP" THEN Return(op, Null)
     ELSE Return(consume(op, "BACKTICK"), identifier(op.prev))
custom_op(s) ==
  LET op == advance(s)
  IN IF op.prev.type # "CUSTOM_OP" THEN Fails(op, op.prev)
     ELSE Return(consume(op, "BACKTICK"), identifier(op.prev))

\* A list that was parsed up to its end, and one that was given up.
Ended(s, found) == [s |-> s, found |-> found, ok |-> TRUE]
Stopped(s) == [s |-> s, found |-> <<>>, ok |-> FALSE]

\* bindings, up to the token that ends them.
RECURSIVE more_bindings(_, _, _)
more_bindings(s, end, found) ==
  LET next == advance(s)
  IN CASE s.current.type = end -> Ended(s, found)
       [] s.current.type # end /\ next.prev.type # "IDENT" -> Stopped(error(next, next.prev))
       [] OTHER -> more_bindings(next, end, Append(found, N("binding", next.prev.text, <<>>)))
bindings(s, end) == more_bindings(s, end, <<>>)

RECURSIVE check_valid_pattern(_)
check_valid_pattern(pattern) ==
  \/ pattern.kind \in {"null", "number", "character", "string", "boolean", "unit",
                       "identifier", "underscore", "namespace"}
  \/ /\ \/ pattern.kind = "application"
        \/ pattern.kind = "binary" /\ pattern.name = <<"DOUBLE_COLON">>
     /\ \A i \in DOMAIN pattern.kids : check_valid_pattern(pattern.kids[i])

IsPath(node) == node.kind \in {"identifier", "namespace"}

-----------------------------------------------------------------------------
(***************************************************************************)
(* Expressions.  The first token of a prefix form, and the operator of an  *)
(* infix form, is s.prev.                                                  *)
(***************************************************************************)
\* What a function does after a call is an operator of its own, of what the call
\* returned.
RECURSIVE expr(_, _), infix_loop(_, _, _), let_declarations(_, _), case_patterns(_, _),
          use_items(_, _, _), function_declaration(_)

closed_group(inner) == Return(consume(inner.s, "R_PAREN"), inner.node)
grouping(s) == closed_group(expr(s, PREC.EXPR))

unary_of(op, val) == Return(val.s, N("unary", <<op>>, <<val.node>>))
unary(s) == unary_of(s.prev.type, expr(s, PREC.UNARY))

attribute_value(name, body) == Return(consume(body.s, "R_PAREN"), N("attribute", name, <<body.node>>))
attribute_named(named) ==
  CASE named.has_error -> Return(named, Null)
    [] ~named.has_error /\ named.current.type = "L_PAREN" ->
         attribute_value(named.prev.text, expr(advance(named), PREC.EXPR))
    [] OTHER -> Return(named, N("attribute", named.prev.text, <<Null>>))
attribute(s) == attribute_named(consume(s, "IDENT"))

lambda_of(found, body) == Return(body.s, N("lambda", <<>>, Append(found, body.node)))
lambda_bound(bound) == lambda_of(bound.found, expr(consume(bound.s, "ARROW"), PREC.EXPR))
lambda(s) == lambda_bound(bindings(s, "ARROW"))

if_of(condition, then_expr, else_expr) ==
  Return(else_expr.s, N("if", <<>>, <<condition, then_expr, else_expr.node>>))
if_then(condition, then_expr) ==
  if_of(condition, then_expr.node, expr(consume(then_expr.s, "ELSE"), PREC.EXPR))
if_condition(condition) ==
  if_then(condition.node, expr(consume(condition.s, "THEN"), PREC.EXPR))
if_expr(s) == if_condition(expr(s, PREC.EXPR))

let_of(found, body) == Return(body.s, N("let", <<>>, Append(found, body.node)))
let_declared(decls) ==
  IF decls.ok THEN let_of(decls.found, expr(consume(decls.s, "IN"), PREC.EXPR)) ELSE Return(decls.s, Null)
let_expr(s) == let_declared(let_declarations(s, <<>>))
add_declaration(decl, found) ==
  IF decl.s.has_error THEN Stopped(decl.s) ELSE let_declarations(decl.s, Append(found, decl.node))
let_declarations(s, found) ==
  IF s.current.type = "IN" THEN Ended(s, found) ELSE add_declaration(function_declaration(s), found)

case_of(value, cases) == Return(cases.s, N("case", <<>>, <<value>> \o cases.found))
case_value(value) == case_of(value.node, case_patterns(consume(value.s, "OF"), <<>>))
case_expr(s) == case_value(expr(s, PREC.EXPR))
add_pattern(pattern, condition, body, found) ==
  case_patterns(body.s, Append(found, N("pattern", <<>>, <<pattern, condition, body.node>>)))
case_condition(pattern, condition, found) ==
  add_pattern(pattern, condition.node, expr(consume(condition.s, "ARROW"), PREC.EXPR), found)
case_checked(pattern, s, found) ==
  case_condition(pattern, IF s.current.type = "IF" THEN expr(advance(s), PREC.EXPR) ELSE Return(s, Null), found)
case_pattern(p, found) ==
  case_checked(p.node, IF check_valid_pattern(p.node) THEN p.s ELSE error(p.s, p.s.prev), found)
case_patterns(s, found) ==
  IF s.current.type = "PIPE" THEN case_pattern(expr(advance(s), PREC.EXPR), found) ELSE Ended(s, found)

\* The path and the items of a use; the items are linked last first.
use_of(path, items) ==
  IF items.ok THEN Return(consume(items.s, "R_BRACE"), N("use", <<>>, <<path>> \o items.found))
  ELSE Return(items.s, Null)
use_path(path, allow_non_functions) ==
  IF path.node # Null /\ ~IsPath(path.node) THEN Fails(path.s, path.s.prev)
  ELSE use_of(path.node, use_items(consume(path.s, "L_BRACE"), <<>>, allow_non_functions))
use_expr_body(s, allow_non_functions) == use_path(expr(s, PREC.NAMESPACE), allow_non_functions)
ItemKind(type) == CASE type = "WITH" -> "with" [] type = "MOD" -> "mod" [] OTHER -> "fun"
use_item(type, entry, found, allow_non_functions) ==
  CASE entry.node = Null -> Stopped(entry.s)
    [] entry.node # Null /\ entry.node.kind # "identifier" -> Stopped(error(entry.s, entry.s.prev))
    [] entry.node.kind = "identifier" /\ entry.s.current.type \in {"SEMICOLON", "R_BRACE"} ->
         use_items(IF entry.s.current.type = "SEMICOLON" THEN advance(entry.s) ELSE entry.s,
                   <<N(ItemKind(type), entry.node.name, <<>>)>> \o found, allow_non_functions)
    [] OTHER -> Stopped(error(entry.s, entry.s.current))
use_items(s, found, allow_non_functions) ==
  LET qualified == allow_non_functions /\ s.current.type \in {"WITH", "MOD"}
  IN CASE s.current.type = "R_BRACE" -> Ended(s, found)
       [] s.current.type \notin {"R_BRACE", "IDENT", "BACKTICK"} /\ ~qualified ->
            Stopped(error(s, s.prev))
       [] OTHER -> use_item(s.current.type, expr(IF qualified THEN advance(s) ELSE s, PREC.EXPR),
                            found, allow_non_functions)

use_in(use, body) ==
  IF body.node = Null THEN body ELSE Return(body.s, N("use", <<>>, Append(use.kids, body.node)))
use_body(use) ==
  IF use.node = Null THEN use ELSE use_in(use.node, expr(consume(use.s, "IN"), PREC.EXPR))
use_expr(s) == use_body(use_expr_body(s, FALSE))

\* The function a token has for the start of an expression.
prefix(s) ==
  LET type == s.prev.type
  IN CASE type = "IDENT" -> Return(s, identifier(s.prev))
       [] type \in Literals -> Return(s, literal(s.prev))
       [] type = "UNDERSCORE" -> Return(s, N("underscore", <<>>, <<>>))
       [] type = "BACKTICK" -> custom_op(s)
       [] type = "L_PAREN" -> grouping(s)
       [] type \in UnaryOps -> unary(s)
       [] type = "ATTR" -> attribute(s)
       [] type = "FUN" -> lambda(s)
       [] type = "IF" -> if_expr(s)
       [] type = "LET" -> let_expr(s)
       [] type = "CASE" -> case_expr(s)
       [] type = "USE" -> use_expr(s)
       [] OTHER -> Fails(s, s.prev)
NoPrefix(token) ==
  token.type \notin leave_op_token \cup UnaryOps
     \cup {"UNDERSCORE", "ATTR", "FUN", "IF", "LET", "CASE", "USE", "ERROR"}

access(lhs, rhs) == N("namespace", <<>>, <<lhs, rhs>>)
access_type(lhs, named) == Return(named, access(lhs, identifier(named.prev)))
access_path(lhs, rhs) ==
  CASE rhs.s.has_error -> Return(rhs.s, Null)
    [] ~rhs.s.has_error /\ ~IsPath(rhs.node) -> Fails(rhs.s, rhs.s.prev)
    [] OTHER -> Return(rhs.s, access(lhs, rhs.node))
namespace(s, lhs) ==
  CASE lhs = Null -> Crashes(s)
    [] lhs # Null /\ lhs.kind # "identifier" -> Fails(s, s.prev)
    [] lhs.kind = "identifier" /\ s.current.type = "TYPE" -> access_type(lhs, advance(s))
    [] OTHER -> access_path(lhs, expr(s, PREC.NAMESPACE))

\* binary, custom_binary and application: the operator has the lhs and the rhs.
Apply(f, x) == N("application", <<>>, <<f, x>>)
operation(op, lhs, rhs) ==
  CASE op.type \in leave_op_token \cup {"COLON"} -> Apply(lhs, rhs)
    [] op.type = "CUSTOM_OP" -> Apply(Apply(identifier(op), lhs), rhs)
    [] OTHER -> N("binary", <<op.type>>, <<lhs, rhs>>)
operation_on(op, lhs, rhs) == Return(rhs.s, operation(op, lhs, rhs.node))
infix(s, op, lhs) ==
  IF op.type = "TWO_DOT" THEN namespace(s, lhs)
  ELSE operation_on(op, lhs, expr(s, operand_precedence(op)))

continue_infix(lhs, precedence) == infix_loop(lhs.s, lhs.node, precedence)
infix_operator(s, op, lhs, precedence) ==
  IF op.type \in NoInfix THEN Fails(s, s.prev) ELSE continue_infix(infix(s, op, lhs), precedence)
infix_loop(s, lhs, precedence) ==
  IF precedence > infix_precedence(s.current) THEN Return(s, lhs)
  ELSE infix_operator(IF s.current.type \in leave_op_token THEN s ELSE advance(s), s.current, lhs, precedence)

expr_start(s, precedence) ==
  IF NoPrefix(s.prev) THEN Fails(s, s.prev) ELSE continue_infix(prefix(s), precedence)
expr(s, precedence) == expr_start(advance(s), precedence)

-----------------------------------------------------------------------------
(***************************************************************************)
(* Declarations and modules.                                               *)
(***************************************************************************)
\* The name of a function is an identifier, or an operator between backticks.
function_of(name, found, body) ==
  Return(consume(body.s, "SEMICOLON"), N("declaration", name, Append(found, body.node)))
function_bound(name, bound) ==
  function_of(name, bound.found, expr(consume(bound.s, "EQ"), PREC.EXPR))
function_named(quoted, named) ==
  IF quoted /\ named.current.type # "BACKTICK" THEN Fails(named, named.prev)
  ELSE function_bound(named.prev.text, bindings(IF quoted THEN advance(named) ELSE named, "EQ"))
function_name(quoted, s) ==
  IF quoted /\ s.current.type # "CUSTOM_OP" THEN Fails(s, s.current) ELSE function_named(quoted, advance(s))
function_declaration(s) ==
  LET quoted == s.current.type = "BACKTICK"
  IN IF s.current.type \notin {"IDENT", "BACKTICK"} THEN Fails(s, s.prev)
     ELSE function_name(quoted, IF quoted THEN advance(s) ELSE s)

\* The declaration of a constructor, and of an alias of one.
constructor_of(s, name, found, body) ==
  Return(consume(s, "SEMICOLON"), N("declaration", name, Append(found, N("constructor", <<>>, <<body>>))))
constructor_bound(name, bound) == constructor_of(bound.s, name, bound.found, Null)
constructor_alias(name, path) ==
  CASE path.node = Null -> path
    [] path.node # Null /\ ~IsPath(path.node) -> Fails(path.s, path.s.prev)
    [] OTHER -> constructor_of(path.s, name, <<>>, path.node)
constructor_named(named) ==
  IF named.current.type = "EQ"
  THEN constructor_alias(named.prev.text, expr(advance(named), PREC.NAMESPACE))
  ELSE constructor_bound(named.prev.text, bindings(named, "SEMICOLON"))
constructor_with(with) ==
  IF with.current.type # "IDENT" THEN Fails(with, with.prev) ELSE constructor_named(advance(with))
constructor_declaration(s) == constructor_with(advance(s))
declaration(s) ==
  IF s.current.type = "WITH" THEN constructor_declaration(s) ELSE function_declaration(s)

use_ended(use) == IF use.node = Null THEN use ELSE Return(consume(use.s, "SEMICOLON"), use.node)
use_declaration(s) == use_ended(use_expr_body(advance(s), TRUE))

\* The declaration `type` that a module has when it is a type.
type_decl == N("declaration", <<"t", "y", "p", "e">>, <<N("attribute", <<"t", "y", "p", "e">>, <<Null>>)>>)

Group(kind, nodes) == N(kind, <<>>, nodes)
ModuleNode(kind, name, declarations, submodules, uses) ==
  N(kind, name, <<Group("declarations", declarations), Group("submodules", submodules),
                  Group("uses", uses)>>)

RECURSIVE module(_), module_items(_, _)
\* The items of a module, up to its `}`; the uses are linked last first.
add_item(type, node, into) ==
  CASE type = "MOD" -> [into EXCEPT !.submodules = Append(@, node)]
    [] type = "USE" -> [into EXCEPT !.uses = <<node>> \o @]
    [] OTHER -> [into EXCEPT !.declarations = Append(@, node)]
module_item(type, item, into) ==
  IF item.s.has_error THEN Stopped(item.s) ELSE module_items(item.s, add_item(type, item.node, into))
module_items(s, into) ==
  IF s.current.type = "R_BRACE" THEN Ended(s, into)
  ELSE module_item(s.current.type,
         CASE s.current.type = "MOD" -> module(s)
           [] s.current.type = "USE" -> use_declaration(s)
           [] OTHER -> declaration(s), into)

module_end(s, node) == Return(consume(s, "SEMICOLON"), node)
module_unnamed(s) == Fails(s, s.prev)
module_alias(name, path) ==
  CASE path.node = Null -> Crashes(path.s)
    [] path.node # Null /\ ~IsPath(path.node) -> Fails(path.s, path.s.prev)
    [] OTHER -> module_end(path.s, ModuleNode("alias", name, <<path.node>>, <<>>, <<>>))
module_body(kind, name, body) ==
  CASE ~body.ok -> Return(body.s, Null)
    [] body.ok /\ name = <<>> /\ body.found.declarations = <<>> -> module_unnamed(consume(body.s, "R_BRACE"))
    [] OTHER -> module_end(consume(body.s, "R_BRACE"),
                           ModuleNode(kind, name, body.found.declarations, body.found.submodules,
                                      body.found.uses))
module_opened(kind, name, s) ==
  module_body(kind, name,
    module_items(s, [declarations |-> IF kind = "type" THEN <<type_decl>> ELSE <<>>,
                     submodules |-> <<>>, uses |-> <<>>]))
module_equals(name, s) ==
  LET is_type == s.current.type = "TYPE"
  IN CASE s.current.type = "IDENT" -> module_alias(name, expr(s, PREC.NAMESPACE))
       [] is_type /\ name = <<>> -> Fails(s, s.current)
       [] OTHER -> module_opened(IF is_type THEN "type" ELSE "body", name,
                                 consume(IF is_type THEN advance(s) ELSE s, "L_BRACE"))
module_named(name, s) ==
  CASE s.current.type = "EQ" -> module_equals(name, advance(s))
    [] s.current.type # "EQ" /\ name # <<>> -> module_end(s, ModuleNode("file", name, <<>>, <<>>, <<>>))
    [] OTHER -> Fails(s, s.prev)
module_name(s) ==
  IF s.current.type = "IDENT" THEN module_named(s.current.text, advance(s)) ELSE module_named(<<>>, s)
module(s) == module_name(advance(s))

-----------------------------------------------------------------------------
(***************************************************************************)
(* build_ast.                                                              *)
(***************************************************************************)
VARIABLES
  source,            \* the characters of the source
  parser,            \* the state of the parser
  outcome,           \* "parsing", "parsed", "error", "crash" or "undefined"
  modules, declarations, use_declarations   \* linked last first until the end

vars == <<source, parser, outcome, modules, declarations, use_declarations>>

\* The static parser is zero: its tokens have the first type.
NoToken == [type |-> "EQ", text |-> <<>>, line |-> 0]
start(src) ==
  advance([lexer |-> init_lexer(src), prev |-> NoToken, current |-> NoToken,
           has_error |-> FALSE, err |-> NoToken, crashed |-> FALSE])

\* What the parser makes of characters behind EOF_CHAR is not defined.
Outcome(s) ==
  CASE Overrun(s.lexer) -> "undefined"
    [] ~Overrun(s.lexer) /\ s.crashed -> "crash"
    [] ~Overrun(s.lexer) /\ ~s.crashed /\ s.has_error -> "error"
    [] OTHER -> "parsing"

Init(src) ==
  /\ source = src
  /\ parser = start(src)
  /\ outcome = Outcome(parser)
  /\ modules = <<>> /\ declarations = <<>> /\ use_declarations = <<>>

Parsing(type) == outcome = "parsing" /\ parser.current.type = type

\* Mutant: an error does not end the loop.
Parsed_Errors(r) == parser' = r.s /\ outcome' = (IF Outcome(r.s) = "error" THEN "parsing" ELSE Outcome(r.s))
Parsed(r) == parser' = r.s /\ outcome' = Outcome(r.s)
\* Mutant: the list is linked in the order of the source, and reversed all the same.
Link_Last(list, r) == IF Outcome(r.s) = "parsing" THEN Append(list, r.node) ELSE list
Link(list, r) == IF Outcome(r.s) = "parsing" THEN <<r.node>> \o list ELSE list

LinkModule(r) ==
  Parsed(r) /\ modules' = Link(modules, r) /\ UNCHANGED <<source, declarations, use_declarations>>
LinkUse(r) ==
  Parsed(r) /\ use_declarations' = Link(use_declarations, r) /\ UNCHANGED <<source, modules, declarations>>
LinkDeclaration(r) ==
  Parsed(r) /\ declarations' = Link(declarations, r) /\ UNCHANGED <<source, modules, use_declarations>>

Module == Parsing("MOD") /\ LinkModule(module(parser))
UseDeclaration == Parsing("USE") /\ LinkUse(use_declaration(parser))
Declaration ==
  /\ outcome = "parsing" /\ parser.current.type \notin {"MOD", "USE", "EOF"}
  /\ LinkDeclaration(declaration(parser))
Finish ==
  /\ Parsing("EOF")
  /\ outcome' = "parsed"
  /\ modules' = Reverse(modules)
  /\ declarations' = Reverse(declarations)
  /\ use_declarations' = Reverse(use_declarations)
  /\ UNCHANGED <<source, parser>>

Next == Module \/ UseDeclaration \/ Declaration \/ Finish
Spec(src) == Init(src) /\ [][Next]_vars /\ WF_vars(Next)
=============================================================================
