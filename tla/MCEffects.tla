----------------------------- MODULE MCEffects -----------------------------
(***************************************************************************)
(* Programs of input and output.  There is a file at path 1 and none at 2; *)
(* at path 3 no file can be made.                                          *)
(***************************************************************************)
EXTENDS Effects, Codegen, Labelling

Outside == World(1 :> <<11, 12>>, {3}, <<21, 22, 23>>)

N(n) == Number(n)
I(x) == Identifier(x)
Say(n) == Writeln(I("stdout"), N(n))
Show(x) == Writeln(I("stdout"), I(x))
Ask == ReadLine(I("stdin"))
Fail(n) == Throw(N(n))
Put(file, n) == Write(I(file), N(n))

\* Actions that yield, and actions that raise, before or after an effect.
Simple == <<
  Just(N(5)), Fail(6), Say(5), Then(Say(4), Fail(6)), Ask, ReadFile(1), ReadFile(2),
  WriteFile(N(7), 2), WriteFile(N(7), 3), Put("stdin", 5), ReadLine(I("stdout")), ReadContents(I("stderr")) >>

\* Every one of them followed by, caught by and tried before others.
Sequenced == FlattenSeq([i \in DOMAIN Simple |-> <<
  Bind(Simple[i], "x", Say(8)),
  Then(Catch(Simple[i], "e", Show("e")), Say(8)),
  \* a handler that does not look at the exception
  Then(Catch(Then(Simple[i], Say(1)), "e", Just(N(2))), Say(8)),
  Then(Catch(Simple[i], "e", Fail(9)), Say(8)),
  Try(Simple[i], "x", Say(1), "e", Show("e")) >>])

\* Actions that are run more than once, nested handlers, and files.
Composed == <<
  Name(Ask, "ask", Bind(Again("ask"), "x", Bind(Again("ask"), "y", Then(Show("y"), Show("x"))))),
  Name(Say(5), "say", Then(Again("say"), Again("say"))),
  Name(Fail(6), "fail", Then(Catch(Again("fail"), "e", Show("e")), Catch(Again("fail"), "e", Say(1)))),
  Catch(Catch(Fail(6), "e", Throw(I("e"))), "e", Show("e")),
  Catch(Then(Catch(Fail(6), "e", Just(N(1))), Fail(7)), "e", Show("e")),
  Bind(Then(Ask, Ask), "x", Bind(Ask, "y", Then(Show("x"), Show("y")))),
  WithFile(1, AB, "f", Then(Put("f", 3), Put("f", 4))),
  Then(WithFile(1, AB, "f", Put("f", 3)), Bind(ReadFile(1), "x", Show("x"))),
  Then(WithFile(1, RB_PLUS, "f", Bind(ReadLine(I("f")), "x", Write(I("f"), I("x")))),
       Bind(ReadFile(1), "x", Show("x"))),
  Then(Catch(WithFile(1, RB, "f", Then(Put("f", 3), Say(1))), "e", Show("e")), Say(2)),
  Then(Catch(WithFile(2, WB, "f", Then(Put("f", 3), Fail(6))), "e", Show("e")), Say(2)),
  WithFile(1, RB, "f", WithFile(2, WB, "g", Bind(ReadLine(I("f")), "x", Then(Write(I("g"), I("x")),
    Bind(ReadLine(I("f")), "y", Then(ReadLine(I("f")), Show("y"))))))) >>

Prepared(actions) ==
  <<>> \o [i \in DOMAIN actions |->
             Once(generate_code([main |-> Expression(actions[i]), globals |-> Lib!Library]),
                  LAMBDA generated : Executable(generated, Outcome(actions[i], Outside), Outside))]
AllPrograms == Prepared(Sequenced \o Composed)
MCPrograms == LET prepared == AllPrograms IN prepared
AllLayouts == [p \in DOMAIN MCPrograms |-> LayoutsOf(MCPrograms[p].chunk)]
MCLayouts == LET computed == AllLayouts IN computed
=============================================================================
