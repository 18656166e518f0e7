------------------------------ MODULE MCParser ------------------------------
(***************************************************************************)
(* The sources the parser is checked on: the texts of trees (Expressions,  *)
(* Items), all short sequences of tokens as an expression and as an item,  *)
(* of whole items (Medleys), and of characters (Phrases).                  *)
(***************************************************************************)
EXTENDS Printing

CONSTANTS MaxPhrase, MaxScrap, MaxItems

MCLetters == {"a", "b", "c", "d", "e", "f", "h", "i", "l", "m", "n", "o", "p", "r", "s", "t", "u", "w", "y"}
MCDigits == {"1", "7"}

-----------------------------------------------------------------------------
(***************************************************************************)
(* Trees.                                                                  *)
(***************************************************************************)
Id(name) == N("identifier", <<name>>, <<>>)
Bind(name) == N("binding", <<name>>, <<>>)
Operator(op) == N("identifier", op, <<>>)
Path == N("namespace", <<>>, <<Id("a"), N("namespace", <<>>, <<Id("b"), Id("a")>>)>>)
Let(decls, body) == N("let", <<>>, Append(decls, body))
Decl(name, bound, body) == N("declaration", <<name>>, Append(bound, body))
Case(value, patterns) == N("case", <<>>, <<value>> \o patterns)
Pattern(pattern, condition, body) == N("pattern", <<>>, <<pattern, condition, body>>)
Item(kind, name) == N(kind, <<name>>, <<>>)

BinaryKinds == {"ADD", "SUB", "MUL", "DOT", "DOUBLE_COLON", "LESS", "AND"}
CustomOps == {<<"<", "+">>, <<"+", ">">>, <<"*", "&">>}
Binary(xs, ys) ==
  { N("binary", <<op>>, <<x, y>>) : op \in BinaryKinds, x \in xs, y \in ys }
    \cup { Apply(Apply(Operator(op), x), y) : op \in CustomOps, x \in xs, y \in ys }
Unary(xs) == { N("unary", <<op>>, <<x>>) : op \in UnaryOps, x \in xs }

\* The other forms, around an expression.
Around(x) ==
  { Apply(Id("a"), x), Apply(x, Id("a")), N("lambda", <<>>, <<Bind("b"), Bind("c"), x>>),
    N("if", <<>>, <<x, Id("a"), Id("b")>>), N("if", <<>>, <<Id("a"), x, Id("b")>>),
    N("if", <<>>, <<Id("a"), Id("b"), x>>), Let(<<>>, x),
    Let(<<Decl("b", <<Bind("c")>>, x), Decl("c", <<>>, Id("a"))>>, Id("a")),
    Case(x, <<Pattern(Id("b"), Null, Id("a"))>>), Case(Id("a"), <<>>),
    Case(Id("a"), <<Pattern(N("binary", <<"DOUBLE_COLON">>, <<Id("b"), N("underscore", <<>>, <<>>)>>), x, Id("a")),
                    Pattern(N("unit", <<>>, <<>>), Null, Id("b"))>>),
    Case(Id("a"), <<Pattern(Id("b"), Null, x), Pattern(N("underscore", <<>>, <<>>), Null, x)>>),
    N("use", <<>>, <<Path, Item("fun", "c"), Item("fun", "b"), x>>),
    N("attribute", <<"a">>, <<x>>) }
Leaves ==
  { Id("a"), Path, N("number", <<"17">>, <<>>), N("character", <<"a">>, <<>>),
    N("string", <<"a", " ", "b">>, <<>>), N("boolean", <<"t">>, <<>>), N("unit", <<>>, <<>>),
    N("underscore", <<>>, <<>>), N("attribute", <<"b">>, <<Null>>), Operator(<<"+", ">">>) }

Simple == {Id("a")} \cup Binary({Id("a")}, {Id("b")}) \cup Unary({Id("a")}) \cup Around(Id("c"))
Deep == Binary({Id("a")}, {Id("b")}) \cup Unary({Id("a")}) \cup {Apply(Id("a"), Id("b"))}
Declarations_ ==
  { Decl("a", <<Bind("b")>>, Id("b")), N("declaration", <<"<", "+">>, <<Bind("a"), Bind("b"), Id("a")>>),
    Decl("c", <<Bind("a"), Bind("b")>>, N("constructor", <<>>, <<Null>>)),
    Decl("d", <<>>, N("constructor", <<>>, <<Path>>)) }
Uses ==
  { N("use", <<>>, <<Id("a"), Item("mod", "e"), Item("with", "c"), Item("fun", "b")>>),
    N("use", <<>>, <<Path, Item("fun", "b")>>) }
Modules(kinds, names, decls, subs, uses) ==
  { ModuleNode(kind, name, IF kind = "type" THEN <<type_decl>> \o d ELSE d, s, u) :
      kind \in kinds, name \in names, d \in decls, s \in subs, u \in uses }
Pairs_(S) == { <<>> } \cup { <<x>> : x \in S } \cup { <<x, y>> : x, y \in S }
Flat ==
  Modules({"body", "type"}, {<<"m">>}, Pairs_(Declarations_), {<<>>}, {<<>>})
    \cup Modules({"body"}, {<<"m">>}, {<<>>}, {<<>>}, Pairs_(Uses))
    \cup Modules({"body"}, {<<>>}, Pairs_(Declarations_) \ {<<>>}, {<<>>}, {<<>>})
    \cup Modules({"file"}, {<<"f">>}, {<<>>}, {<<>>}, {<<>>})
    \cup Modules({"alias"}, {<<"a">>}, {<<Path>>, <<Id("b")>>}, {<<>>}, {<<>>})
Short == Modules({"file"}, {<<"f">>}, {<<>>}, {<<>>}, {<<>>})
           \cup Modules({"alias"}, {<<"a">>}, {<<Path>>}, {<<>>}, {<<>>})
           \cup Modules({"type"}, {<<"t">>}, {<<Decl("c", <<>>, N("constructor", <<>>, <<Null>>))>>}, {<<>>}, {<<>>})
Nested ==
  Modules({"body", "type"}, {<<"m">>, <<>>}, {<<d>> : d \in Declarations_}, Pairs_(Short), Pairs_(Uses))

-----------------------------------------------------------------------------
(***************************************************************************)
(* Phrases and scraps.                                                     *)
(***************************************************************************)
ExpressionTokens ==
  { <<"a">>, <<"1", "7", "1">>, <<"+">>, <<"-">>, <<":", ":">>, <<".", ".">>, <<"n", "o", "t">>, <<"(">>, <<")">>,
    <<"f", "u", "n">>, <<"-", ">">>, <<":">>, <<"$">>, <<"=", "<">> }
ItemTokens ==
  { <<"a">>, <<"m", "o", "d">>, <<"u", "s", "e">>, <<"w", "i", "t", "h">>, <<"t", "y", "p", "e">>,
    <<"=">>, <<"{">>, <<"}">>, <<";">>, <<".", ".">>, <<"1">>, <<"tick">>, <<"+", "+">>,
    <<"l", "e", "t">>, <<"i", "n">>, <<"c", "a", "s", "e">>, <<"o", "f">>, <<"|">> }
Chars == { "a", "1", "_", "-", "=", ".", ";", "&", "(", ")", "'", "\"", "\\", "\n", " ", "tick" }
UpTo(S, n) == UNION { [1..k -> S] : k \in 0..n }

\* Items of every kind, in the orders that their kinds may follow one another in.
ItemTexts ==
  { << <<"m", "o", "d">>, <<"f">>, <<";">> >>,
    << <<"m", "o", "d">>, <<"b">>, <<"=">>, <<"a">>, <<".", ".">>, <<"b">>, <<";">> >>,
    << <<"m", "o", "d">>, <<"m">>, <<"=">>, <<"{">>, <<"w", "i", "t", "h">>, <<"a">>, <<";">>,
       <<"m", "o", "d">>, <<"f">>, <<";">>, <<"u", "s", "e">>, <<"a">>, <<"{">>, <<"}">>, <<";">>,
       <<"d">>, <<"=">>, <<"1">>, <<";">>, <<"m", "o", "d">>, <<"a">>, <<";">>, <<"}">>, <<";">> >>,
    << <<"u", "s", "e">>, <<"a">>, <<"{">>, <<"b">>, <<";">>, <<"m", "o", "d">>, <<"c">>, <<";">>,
       <<"w", "i", "t", "h">>, <<"a">>, <<"}">>, <<";">> >>,
    << <<"u", "s", "e">>, <<"f">>, <<"{">>, <<"c">>, <<"}">>, <<";">> >>,
    << <<"w", "i", "t", "h">>, <<"c">>, <<"b">>, <<";">> >>,
    << <<"d">>, <<"=">>, <<"a">>, <<"(">>, <<"b">>, <<")">>, <<":">>, <<"7", "_", "1">>, <<";">> >> }
Medley(items) == FlattenSeq(items)
InModule(text_) ==
  << <<"m", "o", "d">>, <<"m">>, <<"=">>, <<"{">> >> \o text_ \o << <<"}">>, <<";">> >>
InType(text_) ==
  << <<"m", "o", "d">>, <<"t">>, <<"=">>, <<"t", "y", "p", "e">>, <<"{">> >> \o text_ \o << <<"}">>, <<";">> >>

-----------------------------------------------------------------------------
VARIABLE written   \* the tree the source is the text of; NoTree when it is of none

mvars == <<vars, written>>

Tree(mods, uses, decls) == [modules |-> mods, use_declarations |-> uses, declarations |-> decls]
NoTree == Tree(<<Null>>, <<>>, <<>>)

Of(mods, uses, decls) ==
  /\ written = Tree(mods, uses, decls)
  /\ Init(Characters(WriteItems(uses, mods, decls)))
OfExpression(expr_) == Of(<<>>, <<>>, <<Decl("a", <<>>, expr_)>>)

Expressions ==
  \/ \E x \in Leaves \cup Simple :
       \/ OfExpression(x)
       \/ \E y \in Around(x) : OfExpression(y)
       \/ \E y \in Simple \cup {Path} : OfExpression(Apply(x, y))
  \/ \E x, y \in Simple : \E z \in Binary({x}, {y}) : OfExpression(z)
  \/ \E x \in Unary(Simple) \cup Unary(Unary(Simple)) : OfExpression(x)
  \/ \E x \in Deep : \E y \in Binary({x}, {Id("b")}) : \E z \in Binary({Id("a")}, {y}) \cup Binary({y}, {Id("a")}) :
       OfExpression(z)
  \/ \E x \in Unary(Deep) : \E y \in Binary({Id("c")}, {x}) \cup Binary({x}, {Id("c")}) : OfExpression(y)
  \/ \E x \in Simple : \E y \in Around(Apply(Id("b"), x)) : OfExpression(y)
Items ==
  \/ \E m \in Flat \cup Nested : (m.kind = "type" => m.name # <<>>) /\ Of(<<m>>, <<>>, <<>>)
  \/ \E mods \in Pairs_(Short), uses \in Pairs_(Uses), decls \in Pairs_(Declarations_) : Of(mods, uses, decls)

Phrases ==
  /\ written = NoTree
  /\ \/ \E p \in UpTo(ExpressionTokens, MaxPhrase) :
          Init(Characters(<< <<"a">>, <<"=">> >> \o p \o << <<";">> >>))
     \/ \E p \in UpTo(ItemTokens, MaxPhrase) : Init(Characters(p))
     \/ \E scrap \in UpTo(Chars, MaxScrap) : Init(scrap)
Medleys ==
  /\ written = NoTree
  /\ \E items \in UpTo(ItemTexts, MaxItems) :
       \E text_ \in {Medley(items), InModule(Medley(items)), InType(Medley(items))} : Init(Characters(text_))

MCInit == Expressions \/ Items \/ Phrases \/ Medleys
MCSpec == MCInit /\ [][Next /\ UNCHANGED written]_mvars

-----------------------------------------------------------------------------
Nodes(list, kinds) == \A i \in DOMAIN list : list[i].kind \in kinds
\* The parser holds an error exactly when it has failed, and the lists that are
\* returned hold the nodes their readers cast them to.
TypeOK ==
  /\ outcome \in {"parsing", "parsed", "error", "crash", "undefined"}
  /\ outcome = "error" => parser.has_error
  /\ parser.has_error => outcome \in {"error", "crash", "undefined"}
  /\ Nodes(modules, {"file", "alias", "body", "type"})
  /\ Nodes(declarations, {"declaration"}) /\ Nodes(use_declarations, {"use"})

\* The text of a tree is accepted, and is parsed to a tree with that text: binary and
\* custom operators, application, unary operators and open forms nest as their
\* precedences say, and the items of a module keep their order.
RoundTrip ==
  written # NoTree =>
    /\ outcome \in {"parsing", "parsed"}
    /\ outcome = "parsed" => written = Tree(modules, use_declarations, declarations)

RECURSIVE tokens_from(_)
tokens_from(l) ==
  LET next == next_token(l)
  IN IF next.token.type = "EOF" \/ Overrun(next.lexer) THEN <<>>
     ELSE <<next.token>> \o tokens_from(next.lexer)
\* A literal is kept by its value, and some marks are not kept at all.
KeptText(token) ==
  CASE token.type = "NUM" -> Decimal(<<ToString(number_value(Figures(token.text)))>>)
    [] token.type = "CHAR" -> Quote(Character(token.text))
    [] OTHER -> token.text
Kept(text_) == SelectSeq(text_, LAMBDA t : t \notin { <<"(">>, <<")">>, <<":">>, <<";">> })
KeptTokens(tokens) == Kept([i \in DOMAIN tokens |-> KeptText(tokens[i])])

\* What is left of a text behind another one that it starts with.
Behind(text_, start_) ==
  LET begin == Kept(start_)
  IN IF IsPrefix(begin, text_) THEN {SubSeq(text_, Len(begin) + 1, Len(text_))} ELSE {}
\* What may be left of a text behind the items of three lists, each list in its order:
\* the text says how the kinds of items follow one another, and the lists do not.
RECURSIVE BehindItems(_, _, _, _)
BehindModule(text_, node) ==
  IF node.kind \in {"file", "alias"} THEN Behind(text_, WriteModule(node))
  ELSE UNION { Behind(rest, << <<"}">> >>) :
                 rest \in UNION { BehindItems(body, Reverse(node.kids[3].kids), node.kids[2].kids, Written(node)) :
                                   body \in Behind(text_, WriteHead(node)) } }
BehindItems(text_, uses, mods, decls) ==
  IF uses \o mods \o decls = <<>> THEN {text_}
  ELSE UNION { BehindItems(rest, Tail(uses), mods, decls) :
                 rest \in IF uses = <<>> THEN {} ELSE Behind(text_, WriteUseDeclaration(Head(uses))) }
       \cup UNION { BehindItems(rest, uses, Tail(mods), decls) :
                      rest \in IF mods = <<>> THEN {} ELSE BehindModule(text_, Head(mods)) }
       \cup UNION { BehindItems(rest, uses, mods, Tail(decls)) :
                      rest \in IF decls = <<>> THEN {} ELSE Behind(text_, WriteDeclaration(Head(decls))) }

\* An accepted source is its items and nothing else, each of them once: its modules in
\* the order of the list of modules, and so its uses and its declarations, among one
\* another in any order; and so it is inside every module.  Up to parentheses, with
\* literals by their values.  (An operator between backticks may be written between
\* its operands.)
NothingLost ==
  outcome = "parsed" /\ "tick" \notin Range(source) =>
    <<>> \in BehindItems(KeptTokens(tokens_from(init_lexer(source))), use_declarations, modules, declarations)

\* The code reads through a null node only when it has already found an error.
CrashAfterError == outcome = "crash" => parser.has_error

\* The lexer passes the end of a source only behind a quote or a backslash that ends
\* it.
InSource == Overrun(parser.lexer) => Last(source) \in {"'", "\\"}

\* A token has the number of the line it ends in, when no newline stands in a
\* character literal or behind a backslash.
Lines ==
  Range(source) \cap {"'", "\\"} = {} =>
    parser.current.line =
      1 + Cardinality({ i \in DOMAIN source : i < parser.lexer.current /\ source[i] = "\n" })

\* Every iteration of the loop consumes a token, or is the last one: the loop ends.
Progress == [][parser'.lexer.current > parser.lexer.current \/ outcome' # "parsing"]_mvars
=============================================================================
