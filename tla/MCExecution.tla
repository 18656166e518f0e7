---------------------------- MODULE MCExecution ----------------------------
(***************************************************************************)
(* The programs that are compiled, executed and compared with their        *)
(* meaning.  Their numbers are small, so that no i32 operation overflows.  *)
(***************************************************************************)
EXTENDS Agreement, HeapUse, Codegen, Meaning, Labelling

I(x) == Identifier(x)
N(n) == Number(n)
Op2(o, l, r) == BinOp(o, l, r)
App(f, args) == Apply(I(f), args)
Def(f, params, e) == Declaration(f, IF params = <<>> THEN e ELSE Lambda(params, e))
Let(declarations, e) == LetExpr(declarations, e)
When(p, e) == CasePattern(p, Null, e)
Guarded(p, c, e) == CasePattern(p, c, e)
Case(e, branches) == CaseExpr(e, branches)
Fun(params, e) == Lambda(params, e)

\* run stands for std..run: it hands over the value of main.
Prelude == {
  Def("run", <<"m">>, I("m")),
  Def("compose", <<"f", "g">>, Fun(<<"x">>, App("f", <<App("g", <<I("x")>>)>>))),
  Def("Some", <<"x">>, Constructor),
  Def("None", <<>>, Constructor),
  Def("Pair", <<"a", "b">>, Constructor),
  Def("id", <<"x">>, I("x")),
  Def("sub", <<"a", "b">>, Op2("SUB", I("a"), I("b"))),
  Def("sum", <<"l">>, Case(I("l"), <<
      When(ConsExpr(I("x"), I("xs")), Op2("ADD", I("x"), App("sum", <<I("xs")>>))),
      When(Unit, N(0)) >>)),
  Def("map", <<"f", "l">>, Case(I("l"), <<
      When(ConsExpr(I("x"), I("xs")),
           ConsExpr(App("f", <<I("x")>>), App("map", <<I("f"), I("xs")>>))),
      When(Underscore, Unit) >>)),
  Def("take", <<"n", "l">>, IfExpr(Op2("LESS_EQ", I("n"), N(0)), Unit,
      Case(I("l"), << When(ConsExpr(I("x"), I("xs")),
                           ConsExpr(I("x"), App("take", <<Op2("SUB", I("n"), N(1)), I("xs")>>))) >>))),
  Def("ones", <<>>, ConsExpr(N(1), I("ones"))),
  Def("two", <<>>, Op2("ADD", N(1), N(1)))
}
\* Programs of the prelude and further globals.
Program(e, globals) == [main |-> e, globals |-> globals]
Plain(expressions) == [i \in DOMAIN expressions |-> Program(expressions[i], {})]
-----------------------------------------------------------------------------
\* Recursion, captures and sharing.
Written == Plain(<<
  (Let(<< Def("fact", <<"n">>, IfExpr(Op2("EQUAL", I("n"), N(0)), N(1),
                    Op2("MUL", I("n"), App("fact", <<Op2("SUB", I("n"), N(1))>>)))) >>,
              App("fact", <<N(3)>>))),
  (App("sum", <<App("take", <<N(2), I("ones")>>)>>)),
  (Let(<< Def("cycle", <<>>, ConsExpr(N(1), ConsExpr(N(2), I("cycle")))) >>,
              App("sum", <<App("take", <<N(3), I("cycle")>>)>>))),
  (App("map", <<App("sub", <<N(5)>>), ConsExpr(N(1), ConsExpr(I("two"), Unit))>>)),
  (App("sum", <<App("map", <<App("sub", <<N(5)>>), ConsExpr(N(1), ConsExpr(I("two"), Unit))>>)>>)),
  \* a capture of a capture of a capture, and through a thunk
  (Let(<< Def("f", <<"a">>, Fun(<<"b">>, Fun(<<"c">>, Op2("SUB", I("a"), Op2("SUB", I("b"), I("c")))))) >>,
              App("f", <<N(9), N(4), N(1)>>))),
  (Let(<< Def("x", <<>>, Op2("ADD", I("two"), N(1))),
                 Def("y", <<>>, Fun(<<"z">>, Let(<< Def("w", <<>>, Op2("ADD", I("x"), I("z"))) >>,
                                                 Op2("MUL", I("w"), I("x"))))) >>,
              App("y", <<I("x")>>))),
  (Let(<< Def("x", <<>>, App("sub", <<N(7), N(2)>>)) >>,
              Op2("ADD", I("x"), Op2("ADD", I("x"), App("id", <<I("x")>>))))),
  \* shadowing, and bindings made while others are on the stack
  (Let(<< Def("x", <<>>, N(1)), Def("y", <<>>, Let(<< Def("x", <<>>, N(2)) >>, I("x"))) >>,
              Op2("SUB", I("x"), I("y")))),
  (Op2("ADD", Case(ConsExpr(N(1), N(2)), << When(ConsExpr(I("x"), N(3)), N(0)),
                                   Guarded(ConsExpr(I("x"), I("y")), Op2("GREATER", I("x"), I("y")), N(1)),
                                   When(ConsExpr(Underscore, I("y")), Op2("ADD", I("y"), I("two"))) >>),
                     Let(<< Def("k", <<>>, N(3)) >>, I("k")))),
  (Let(<< Def("a", <<>>, N(4)) >>,
              Case(App("Some", <<App("Pair", <<I("a"), I("None")>>)>>), <<
                 When(App("Some", <<App("Pair", <<N(1), I("x")>>)>>), N(1)),
                 When(App("Some", <<App("Pair", <<I("x"), I("None")>>)>>), Op2("SUB", I("a"), I("x"))),
                 When(I("None"), N(2)) >>))),
  \* operators
  (Apply(BinOp("COMPOSITION", App("sub", <<N(9)>>), App("sub", <<N(5)>>)), <<N(3)>>)),
  (IfExpr(Op2("AND", Op2("GREATER_EQ", I("two"), N(2)), UnaryOp("NOT", Op2("LESS_EQ", N(3), I("two")))),
                 UnaryOp("NEG", Op2("DIV", N(7), N(-2))), Unit)),
  (Op2("OR", Op2("LESS", I("two"), N(1)), App("id", <<Boolean(TRUE)>>))),
  (Op2("OR", Boolean(TRUE), App("id", <<N(1)>>))),
  (Op2("AND", Op2("EQUAL", Unit, Unit), Op2("EQUAL", Boolean(FALSE), Boolean(TRUE)))),
  (UnaryOp("FORCE", App("id", <<I("two")>>))),
  (Let(<< Def("t", <<>>, App("Pair", <<I("two"), App("id", <<N(3)>>)>>)) >>,
              Case(I("t"), << When(App("Pair", <<N(2), I("x")>>), ConsExpr(I("x"), I("t"))) >>)))
>>)

\* Programs in error.
Wrong == Plain(<<
  (Op2("ADD", N(1), Boolean(TRUE))),
  (Op2("DIV", Unit, N(2))),
  (Op2("LESS", N(1), Unit)),
  (Op2("EQUAL", N(1), Unit)),
  (Op2("EQUAL", I("sum"), I("sum"))),
  (UnaryOp("NEG", Boolean(TRUE))),
  (UnaryOp("NOT", N(0))),
  (Op2("AND", N(1), Boolean(TRUE))),
  (IfExpr(N(1), N(2), N(3))),
  (Apply(N(1), <<N(2)>>)),
  (App("sub", <<N(2), N(1), N(1)>>)),
  (Let(<< Def("x", <<>>, App("two", <<N(1)>>)) >>, I("x"))),
  (Let(<< Def("x", <<>>, App("two", <<N(1)>>)) >>, N(3))),
  (Case(N(1), << When(N(2), N(0)), When(Unit, N(1)), When(Boolean(TRUE), N(1)) >>)),
  (App("take", <<N(3), ConsExpr(N(1), Unit)>>))
>>)

\* k with a parameters yields g of arity b, to which h arguments were given
\* already, and is called with n arguments: too few, exactly enough, too many,
\* with the rest completing, exceeding or not reaching the arity of g.
Params == <<"a", "b", "c">>
Digits == << I("a"), Op2("ADD", Op2("MUL", N(10), I("a")), I("b")),
             Op2("ADD", Op2("MUL", N(10), Op2("ADD", Op2("MUL", N(10), I("a")), I("b"))), I("c")) >>
CallOf(a, b, h, n) ==
  Program(Apply(I("k"), [i \in 1..n |-> N(i)]),
    { Def("g", SubSeq(Params, 1, b), Digits[b]),
      Def("k", SubSeq(Params, 1, a), IF h = 0 THEN I("g") ELSE Apply(I("g"), [i \in 1..h |-> N(9 - i)])) })
Calls == [n \in 1..72 |-> LET i == n - 1
                           IN  CallOf(1 + (i % 2), 1 + ((i \div 2) % 3), (i \div 6) % 3, 1 + i \div 18)]
\* A result that is again a function: two continuations for one call.
ChainOf(n) ==
  Program(Apply(I("k"), [i \in 1..n |-> N(i)]),
    { Def("k", <<"a">>, I("g")), Def("g", <<"a", "b">>, App("h", <<I("b")>>)),
      Def("h", <<"a", "b">>, Op2("SUB", I("a"), I("b"))) })
\* A partial application that is handed back to more arguments than it misses.
HandedBack ==
  Program(App("id", <<App("g", <<N(9), N(8)>>), N(1), N(2), N(3)>>),
          { Def("g", Params, I("sub")) })
Chained == [n \in 1..4 |-> ChainOf(n)] \o <<HandedBack>>

\* Every value matched with every pattern.
Matchable == <<
  N(1), Unit, Boolean(TRUE), ConsExpr(N(1), N(2)), ConsExpr(ConsExpr(N(1), Unit), N(2)),
  App("Some", <<N(1)>>), I("None"), App("Pair", <<N(1), App("Some", <<N(2)>>)>>), App("id", <<I("two")>>) >>
\* With the identifier that the branch yields: z is bound outside.
Patterns == <<
  <<I("x"), "x">>, <<Underscore, "z">>, <<N(1), "z">>, <<Unit, "z">>, <<Boolean(TRUE), "z">>,
  <<ConsExpr(I("x"), I("y")), "x">>, <<ConsExpr(N(1), I("y")), "y">>,
  <<ConsExpr(ConsExpr(I("x"), Unit), I("y")), "x">>, <<App("Some", <<I("x")>>), "x">>, <<I("None"), "z">>,
  <<App("Pair", <<I("x"), App("Some", <<I("y")>>)>>), "x">>, <<App("Pair", <<N(2), I("y")>>), "y">> >>
MatchOf(value, pattern) ==
  Program(Let(<< Def("z", <<>>, N(5)) >>,
              ConsExpr(Case(value, << When(pattern[1], I(pattern[2])), When(I("w"), I("w")) >>), I("z"))), {})
Matches == [n \in 1..108 |-> MatchOf(Matchable[1 + ((n - 1) % 9)], Patterns[1 + ((n - 1) \div 9)])]

-----------------------------------------------------------------------------
\* How deep a result is compared with its meaning.
Depth == 4

CompileAndMean(p) ==
  Once(generate_code(p), LAMBDA generated : Executable(generated, Result(p, Depth), World(<<>>, {}, <<>>)))
Prepared(programs) ==
  <<>> \o [i \in DOMAIN programs |-> CompileAndMean([programs[i] EXCEPT !.globals = @ \cup Prelude])]

\* TLC keeps the value of a definition without parameters, not that of the
\* definition a constant is replaced with: hence the names in between (and the LETs,
\* without which a run that counts coverage looks into them at every reference).
AllPrograms == Prepared(Written \o Wrong \o Calls \o Chained \o Matches)
MCPrograms == LET prepared == AllPrograms IN prepared
AllLayouts == [p \in DOMAIN MCPrograms |-> LayoutsOf(MCPrograms[p].chunk)]
MCLayouts == LET computed == AllLayouts IN computed

\* A condition of a branch that is an application.
GuardPrograms ==
  Prepared(Plain(<< Case(N(1), << Guarded(I("x"), App("id", <<Boolean(TRUE)>>), N(2)),
                                   When(Underscore, N(3)) >>) >>))
MCGuardPrograms == LET prepared == GuardPrograms IN prepared
NoLayouts == <<>>
=============================================================================
