------------------------------ MODULE Printing ------------------------------
(***************************************************************************)
(* How a tree is written: the reference the parser is checked against.     *)
(* Parentheses are written where the levels of the operators ask for them, *)
(* and nowhere else.  A text is a sequence of tokens, a token a sequence   *)
(* of characters.                                                          *)
(*                                                                         *)
(* The parser keeps two lists as they were linked, last first: the items   *)
(* of a use and the uses of a module; they are written in source order.    *)
(***************************************************************************)
EXTENDS Parser

\* The operators, by how tightly they bind: enum Precedence.  Cons stands just
\* below application: in  f a :: g b  both applications are operands of the cons.
Level ==
     <<"o", "r">> :> 2 @@ <<"a", "n", "d">> :> 3
  @@ <<"=", "=">> :> 4 @@ <<"<">> :> 4 @@ <<">">> :> 4 @@ <<"<", "=">> :> 4 @@ <<">", "=">> :> 4
  @@ <<"+">> :> 5 @@ <<"-">> :> 5 @@ <<"*">> :> 6 @@ <<"/">> :> 6
  @@ <<".">> :> 8 @@ <<":", ":">> :> 9
UnaryLevel == 7
ApplicationLevel == 10
ArgumentLevel == 11
CustomLevel(op) ==
  CASE op[1] \in {"=", ">", "<", "|", "&", "$", ":"} -> 2
    [] op[1] \in {"^", "@"} -> 4
    [] op[1] \in {"+", "-"} -> 5
    [] op[1] \in {"/", "*", "%"} -> 6
    [] op[1] = "#" -> 8
AssociatesRight(op) == op \in {<<".">>, <<":", ":">>} \/ (op \notin DOMAIN Level /\ op[1] \in {"&", "^"})
LevelOf(op) == IF op \in DOMAIN Level THEN Level[op] ELSE CustomLevel(op)

Symbol ==
     "ADD" :> <<"+">> @@ "SUB" :> <<"-">> @@ "MUL" :> <<"*">> @@ "DIV" :> <<"/">>
  @@ "DOT" :> <<".">> @@ "DOUBLE_COLON" :> <<":", ":">> @@ "EQUAL" :> <<"=", "=">>
  @@ "LESS" :> <<"<">> @@ "LESS_EQ" :> <<"<", "=">> @@ "GREATER" :> <<">">>
  @@ "GREATER_EQ" :> <<">", "=">> @@ "AND" :> <<"a", "n", "d">> @@ "OR" :> <<"o", "r">>
  @@ "NOT" :> <<"n", "o", "t">> @@ "FORCE" :> <<"$">>

-----------------------------------------------------------------------------
IsOperatorName(name) == name[1] \notin IdentChars
Quoted(name) == IF IsOperatorName(name) THEN << <<"tick">>, name, <<"tick">> >> ELSE <<name>>

\* The application of a custom operator to two operands.
IsInfix(node) ==
  /\ node.kind = "application" /\ node.kids[1].kind = "application"
  /\ node.kids[1].kids[1].kind = "identifier" /\ IsOperatorName(node.kids[1].kids[1].name)
Operation(node) ==
  IF node.kind = "binary"
  THEN [op |-> Symbol[node.name[1]], l |-> node.kids[1], r |-> node.kids[2]]
  ELSE [op |-> node.kids[1].kids[1].name, l |-> node.kids[1].kids[2], r |-> node.kids[2]]
IsOperation(node) == node.kind = "binary" \/ IsInfix(node)

\* Forms that reach as far to the right as they can.
Open == {"lambda", "if", "let", "case", "use"}

\* Where a node stands: alone, as the left or the right operand of an operator of
\* some level, or as an argument; and what follows it: an operator or an argument,
\* the next pattern of a case, or the end of the expression.
Parenthesised(node, place, level, follow) ==
  CASE node.kind \in Open ->
            \/ place \in {"left", "argument"} \/ (place = "right" /\ follow = "operator")
            \/ (node.kind = "case" /\ follow = "bar")
    [] node.kind = "attribute" -> place \in {"left", "argument"}
    [] node.kind = "underscore" -> place = "argument"
    [] node.kind = "unary" ->
            \/ place = "argument"
            \/ UnaryLevel < level /\ (place = "left" \/ (place = "right" /\ follow = "operator"))
    [] IsOperation(node) -> LevelOf(Operation(node).op) < level
    [] node.kind = "application" /\ ~IsInfix(node) -> ApplicationLevel < level
    [] OTHER -> FALSE

\* The digits of a number below 100.
Decimal(name) ==
  LET v == CHOOSE v \in 0..99 : ToString(v) = name[1]
  IN IF v < 10 THEN name ELSE <<ToString(v \div 10), ToString(v % 10)>>
Quote(char) == <<"'", char, "'">>
Concat(texts) == FlattenSeq(texts)
Parens(text_) == << <<"(">> >> \o text_ \o << <<")">> >>

RECURSIVE Write(_, _, _, _), WriteBody(_, _), WriteDeclaration(_)
Alone(node) == Write(node, "alone", 0, "end")
Write(node, place, level, follow) ==
  IF Parenthesised(node, place, level, follow) THEN Parens(WriteBody(node, "end"))
  ELSE WriteBody(node, follow)

WritePattern(pattern, follow) ==
  << <<"|">> >> \o Alone(pattern.kids[1])
    \o (IF pattern.kids[2] = Null THEN <<>> ELSE << <<"i", "f">> >> \o Alone(pattern.kids[2]))
    \o << <<"-", ">">> >> \o Write(pattern.kids[3], "alone", 0, follow)
WriteItem(item) ==
  (CASE item.kind = "with" -> << <<"w", "i", "t", "h">> >> [] item.kind = "mod" -> << <<"m", "o", "d">> >>
     [] OTHER -> <<>>) \o Quoted(item.name) \o << <<";">> >>
WriteUse(path, items) ==
  << <<"u", "s", "e">> >> \o Alone(path) \o << <<"{">> >>
    \o Concat([i \in DOMAIN items |-> WriteItem(Reverse(items)[i])]) \o << <<"}">> >>

WriteOperation(o, follow) ==
  LET level == LevelOf(o.op)
      right == AssociatesRight(o.op)
  IN Write(o.l, "left", IF right THEN level + 1 ELSE level, "operator") \o <<o.op>>
       \o Write(o.r, "right", IF right THEN level ELSE level + 1, follow)

WriteBody(node, follow) ==
  LET kids == node.kids
      last == Len(kids)
      body == Write(kids[last], "alone", 0, follow)
  IN CASE node.kind = "identifier" -> Quoted(node.name)
       [] node.kind = "number" -> <<Decimal(node.name)>>
       [] node.kind = "boolean" ->
            << IF node.name = <<"t">> THEN <<"t", "r", "u", "e">> ELSE <<"f", "a", "l", "s", "e">> >>
       [] node.kind = "character" -> <<Quote(node.name[1])>>
       [] node.kind = "string" -> << <<"\"">> \o node.name \o <<"\"">> >>
       [] node.kind = "unit" -> << <<"(", ")">> >>
       [] node.kind = "underscore" -> << <<"_">> >>
       [] node.kind = "namespace" -> WriteBody(kids[1], follow) \o << <<".", ".">> >> \o WriteBody(kids[2], follow)
       [] node.kind = "attribute" ->
            << <<"@">>, node.name >> \o (IF kids[1] = Null THEN <<>> ELSE Parens(Alone(kids[1])))
       [] node.kind = "unary" -> <<Symbol[node.name[1]]>> \o Write(kids[1], "right", UnaryLevel, follow)
       [] IsOperation(node) -> WriteOperation(Operation(node), follow)
       [] node.kind = "application" /\ ~IsInfix(node) ->
            Write(kids[1], "left", ApplicationLevel, "operator") \o Write(kids[2], "argument", ArgumentLevel, "operator")
       [] node.kind = "lambda" ->
            << <<"f", "u", "n">> >> \o [i \in 1..(last - 1) |-> kids[i].name] \o << <<"-", ">">> >> \o body
       [] node.kind = "if" ->
            << <<"i", "f">> >> \o Alone(kids[1]) \o << <<"t", "h", "e", "n">> >> \o Alone(kids[2])
              \o << <<"e", "l", "s", "e">> >> \o body
       [] node.kind = "let" ->
            << <<"l", "e", "t">> >> \o Concat([i \in 1..(last - 1) |-> WriteDeclaration(kids[i])])
              \o << <<"i", "n">> >> \o body
       [] node.kind = "case" ->
            << <<"c", "a", "s", "e">> >> \o Alone(kids[1]) \o << <<"o", "f">> >>
              \o Concat([i \in 1..(last - 1) |->
                           WritePattern(kids[i + 1], IF i = last - 1 THEN follow ELSE "bar")])
       [] node.kind = "use" ->
            WriteUse(kids[1], SubSeq(kids, 2, last - 1)) \o << <<"i", "n">> >> \o body

-----------------------------------------------------------------------------
Names_(bindings_) == [i \in DOMAIN bindings_ |-> bindings_[i].name]
WriteDeclaration(decl) ==
  LET bound == Names_(Front(decl.kids))
      body == Last(decl.kids)
  IN (CASE body.kind # "constructor" -> Quoted(decl.name) \o bound \o << <<"=">> >> \o Alone(body)
        [] body.kind = "constructor" /\ body.kids[1] = Null -> << <<"w", "i", "t", "h">>, decl.name >> \o bound
        [] OTHER -> << <<"w", "i", "t", "h">>, decl.name, <<"=">> >> \o Alone(body.kids[1]))
       \o << <<";">> >>
WriteUseDeclaration(use) == WriteUse(use.kids[1], Tail(use.kids)) \o << <<";">> >>

RECURSIVE WriteModule(_)
WriteItems(uses, submodules, decls) ==
  Concat([i \in DOMAIN uses |-> WriteUseDeclaration(uses[i])])
    \o Concat([i \in DOMAIN submodules |-> WriteModule(submodules[i])])
    \o Concat([i \in DOMAIN decls |-> WriteDeclaration(decls[i])])
\* The declarations of a module; that of a type is led by one that is not written.
Written(node) == IF node.kind = "type" THEN Tail(node.kids[1].kids) ELSE node.kids[1].kids
WriteName(node) == << <<"m", "o", "d">> >> \o (IF node.name = <<>> THEN <<>> ELSE <<node.name>>)
\* The text of a module up to its items, of one that holds items.
WriteHead(node) ==
  WriteName(node) \o << <<"=">> >> \o (IF node.kind = "type" THEN << <<"t", "y", "p", "e">> >> ELSE <<>>)
    \o << <<"{">> >>
WriteModule(node) ==
  (CASE node.kind = "file" -> WriteName(node)
     [] node.kind = "alias" -> WriteName(node) \o << <<"=">> >> \o Alone(node.kids[1].kids[1])
     [] OTHER -> WriteHead(node) \o WriteItems(Reverse(node.kids[3].kids), node.kids[2].kids, Written(node))
                   \o << <<"}">> >>)
    \o << <<";">> >>

\* The characters of a text: its tokens with blanks between them.
Characters(text_) == Concat([i \in DOMAIN text_ |-> Append(text_[i], " ")])
=============================================================================
