------------------------------ MODULE Effects ------------------------------
(***************************************************************************)
(* Programs of input and output: actions of StdIO, compiled and executed,  *)
(* and what their author means by them.                                    *)
(*                                                                         *)
(* Do is the abstract specification: an action does its effects when it is *)
(* run, in order and once each time it is run, and either yields a value or *)
(* raises an exception, which ends everything up to the next catch.  It has *)
(* no register, no pairs and no evaluation order.                          *)
(*                                                                         *)
(* An action is a record; its operands are literals, and identifiers that  *)
(* name what actions around it yielded.                                    *)
(***************************************************************************)
EXTENDS Execution, Syntax

Lib == INSTANCE StdIO

\* The actions a program is made of.
Just(e) == [do |-> "return", of |-> e]
Throw(e) == [do |-> "throw", of |-> e]
Bind(first, x, then) == [do |-> "bind", first |-> first, var |-> x, then |-> then]
Then(first, then) == Bind(first, "_", then)
Catch(first, x, handler) == [do |-> "catch", first |-> first, var |-> x, then |-> handler]
\* An exception, or else the value, becomes the value.
Try(first, x, ok, y, err) ==
  [do |-> "try", first |-> first, var |-> x, then |-> ok, err_var |-> y, err |-> err]
\* The same action under a name, to be run any number of times.
Name(first, x, then) == [do |-> "name", first |-> first, var |-> x, then |-> then]
Again(x) == [do |-> "again", of |-> x]
Write(on, e) == [do |-> "write", on |-> on, of |-> e]
Writeln(on, e) == [do |-> "writeln", on |-> on, of |-> e]
ReadLine(on) == [do |-> "read_line", on |-> on]
ReadContents(on) == [do |-> "read_contents", on |-> on]
WithFile(path, mode, x, then) == [do |-> "with_file", path |-> path, mode |-> mode, var |-> x, then |-> then]
ReadFile(path) == [do |-> "read_file", path |-> path]
WriteFile(e, path) == [do |-> "write_file", of |-> e, path |-> path]

-----------------------------------------------------------------------------
(***************************************************************************)
(* The meaning of an action: whether it raised, what it yielded or raised, *)
(* and the world after it.                                                 *)
(***************************************************************************)
Yields(v, w) == [raised |-> FALSE, value |-> v, world |-> w]
Raises(v, w) == [raised |-> TRUE, value |-> v, world |-> w]
Text(text) == [text |-> text]
TheStream(n) == [stream |-> n]

\* What an operand stands for: the standard streams have names.
Of(e, env) == IF e.kind = "literal" THEN Text(<<e.value>>) ELSE env[e.ident]
Standard == "stdin" :> TheStream(STDIN) @@ "stdout" :> TheStream(STDOUT) @@ "stderr" :> TheStream(STDERR)

\* An effect on stream n that led to w, and the exception if it failed.
Checked(w, n, v, error) ==
  IF ferror(w, n) THEN Raises(Text(<<error>>), clearerr(w, n)) ELSE Yields(v, w)
Written(w, n, text) == Checked(fprintf(w, n, text), n, Text(<<0>>), Lib!WRITE_ERROR)
\* One after the other, unless the first raises.
After(r, second(_, _)) == IF r.raised THEN r ELSE second(r.value, r.world)
WrittenLine(w, n, text) ==
  LET newline(v, after) == Written(after, n, <<Lib!NEWLINE>>)
  IN  After(Written(w, n, text), newline)

\* The file is closed when what is done with it yields.
Closed(n, r) ==
  LET close(v, w) == Yields(v, fclose(w, n))
  IN  After(r, close)
Opened(w) == Len(w.streams)

RECURSIVE Do(_, _, _)
With(x, v, env) == (x :> v) @@ env
OnFile(path, mode, w, use(_, _)) ==
  LET v == fopen(w, path, mode)
  IN  IF ~CanOpen(w, path, mode) THEN Raises(Text(<<Lib!OPEN_ERROR>>), v)
      ELSE Closed(Opened(v), use(Opened(v), v))
Do(a, env, w) ==
  LET then(v, after) == Do(a.then, With(a.var, v, env), after)
      handled(r) == Do(a.then, With(a.var, r.value, env), r.world)
      n == Of(a.on, env).stream
      contents(file, v) == Checked(fread_all(v, file), file, Text(Contents(v, file)), Lib!CONTENTS_ERROR)
      write(file, v) == Written(v, file, Of(a.of, env).text)
      body(file, v) == Do(a.then, With(a.var, TheStream(file), env), v)
  IN  CASE a.do = "return" -> Yields(Of(a.of, env), w)
        [] a.do = "throw" -> Raises(Of(a.of, env), w)
        [] a.do = "bind" -> After(Do(a.first, env, w), then)
        [] a.do = "catch" -> LET r == Do(a.first, env, w) IN IF r.raised THEN handled(r) ELSE r
        [] a.do = "try" -> LET r == Do(a.first, env, w)
                           IN  IF r.raised THEN Do(a.err, With(a.err_var, r.value, env), r.world)
                               ELSE handled(r)
        [] a.do = "name" -> Do(a.then, With(a.var, [action |-> a.first, env |-> env], env), w)
        [] a.do = "again" -> Do(env[a.of].action, env[a.of].env, w)
        [] a.do = "write" -> Written(w, n, Of(a.of, env).text)
        [] a.do = "writeln" -> WrittenLine(w, n, Of(a.of, env).text)
        [] a.do = "read_line" -> Checked(getline(w, n), n, Text(Line(w, n)), Lib!LINE_ERROR)
        [] a.do = "read_contents" -> contents(n, w)
        [] a.do = "with_file" -> OnFile(a.path, a.mode, w, body)
        [] a.do = "read_file" -> OnFile(a.path, RB, w, contents)
        [] a.do = "write_file" -> OnFile(a.path, WB, w, write)

\* std..run: an exception nobody caught is printed.
Reported(r) ==
  LET line(v, w) == WrittenLine(w, STDOUT, r.value.text)
  IN  IF r.raised THEN After(Written(r.world, STDOUT, <<Lib!EXCEPTION>>), line) ELSE r
Outcome(a, world0) == Reported(Do(a, Standard, world0))

-----------------------------------------------------------------------------
\* The action as the program it stands for.
MODES == <<"Read", "Write", "Append", "ReadWrite">>
Mode(mode) == Identifier(MODES[mode + 1])

RECURSIVE Expression(_)
Handler(x, a) == Lambda(<<x>>, Expression(a))
Expression(a) ==
  CASE a.do = "return" -> Lib!Call("return", <<a.of>>)
    [] a.do = "throw" -> Lib!Call("throw", <<a.of>>)
    [] a.do = "bind" -> Lib!Call(IF a.var = "_" THEN ">>" ELSE ">>=",
                                 <<Expression(a.first),
                                   IF a.var = "_" THEN Expression(a.then) ELSE Handler(a.var, a.then)>>)
    [] a.do = "catch" -> Lib!Call("catch", <<Expression(a.first), Handler(a.var, a.then)>>)
    [] a.do = "try" ->
         Lib!Call(">>=", <<Lib!Call("try", <<Expression(a.first)>>), Lambda(<<"r">>,
           Lib!Choose(Identifier("r"), << Lib!On(Lib!Call("Ok", <<Identifier(a.var)>>), Expression(a.then)),
                                          Lib!On(Lib!Call("Err", <<Identifier(a.err_var)>>), Expression(a.err)) >>))>>)
    [] a.do = "name" -> LetExpr(<< Declaration(a.var, Expression(a.first)) >>, Expression(a.then))
    [] a.do = "again" -> Identifier(a.of)
    [] a.do = "write" -> Lib!Call("io.write", <<a.on, a.of>>)
    [] a.do = "writeln" -> Lib!Call("io.writeln", <<a.on, a.of>>)
    [] a.do = "read_line" -> Lib!Call("io.read_line", <<a.on>>)
    [] a.do = "read_contents" -> Lib!Call("io.read_file_contents", <<a.on>>)
    [] a.do = "with_file" -> Lib!Call("with_file", <<Number(a.path), Mode(a.mode), Handler(a.var, a.then)>>)
    [] a.do = "read_file" -> Lib!Call("io.file.read_file", <<Number(a.path)>>)
    [] a.do = "write_file" -> Lib!Call("io.file.write", <<a.of, Number(a.path)>>)

-----------------------------------------------------------------------------
\* Input and output do what is meant: whatever the machine delays and evaluates
\* again, every effect happens once, in the order in which the actions are run, none
\* after an exception that is not caught, and none on a file that was closed; an
\* exception is in the register at the end exactly when reporting it failed
\* (bind, catch and strict_pair of _io, the extern functions, the register).
EffectsAsMeant ==
  /\ status \in {"running", "ok"}
  /\ IsPrefix(world.events, source.meaning.world.events)
  /\ status = "ok" =>
       /\ world.events = source.meaning.world.events
       /\ (exception_reg # Val(UNIT_BOX)) = source.meaning.raised
=============================================================================
