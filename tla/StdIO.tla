------------------------------- MODULE StdIO -------------------------------
(***************************************************************************)
(* The library's input and output: the module _io of standard_library.c,   *)
(* its declarations as they are after reduction, with their paths joined   *)
(* to one name and names that only stand for others left out.  An action   *)
(* is an object IO with a function from a state to a pair; effects are     *)
(* calls that wait until strict_pair forces the pair's halves; an          *)
(* exception is what the exception register holds when a pair has been     *)
(* forced.                                                                 *)
(*                                                                         *)
(* Texts are numbers: those of messages are the constants below.  Paths are *)
(* numbers too, so that as_path and the bytes put behind a path are left   *)
(* out.                                                                    *)
(***************************************************************************)
EXTENDS Syntax

EXCEPTION == 90        \* "Exception: "
NEWLINE == 91
WRITE_ERROR == 92      \* "error writing to file"
CONTENTS_ERROR == 93   \* "error reading contents"
LINE_ERROR == 94       \* "error reading line"
OPEN_ERROR == 95       \* "error opening file ..."
SOME_EXCEPTION == 96   \* "exception"

\* A reference, a call, a declaration with parameters.
V(x) == Identifier(x)
Call(f, args) == Apply(V(f), args)
Is(f, params, e) == Declaration(f, IF params = <<>> THEN e ELSE Lambda(params, e))
On(p, e) == CasePattern(p, Null, e)
Choose(e, branches) == CaseExpr(e, branches)
Dot(f, g) == BinOp("COMPOSITION", f, g)
Pair(l, r) == ConsExpr(l, r)
Force_(e) == UnaryOp("FORCE", e)
Builtin(f) == Attribute(f)

-----------------------------------------------------------------------------
\* Functions of std.
Functions ==
  { Is("compose", <<"f", "g">>, Lambda(<<"x">>, Call("f", <<Call("g", <<V("x")>>)>>))),
    Is("flip", <<"f", "x", "y">>, Call("f", <<V("y"), V("x")>>)),
    Is("Ok", <<"a">>, Constructor), Is("Err", <<"e">>, Constructor) }

\* Declarations that are attributes, with their parameters (no_cache and the
\* values of slices aside).
Builtins ==
  { Is("stdin", <<>>, Builtin("stdin")), Is("stdout", <<>>, Builtin("stdout")),
    Is("stderr", <<>>, Builtin("stderr")), Is("stream_err", <<"stream">>, Builtin("stream_err")),
    Is("open_file", <<"file", "mode">>, Builtin("open")), Is("close_file", <<"file">>, Builtin("close")),
    Is("set_exception_reg", <<"e">>, Builtin("set_exception_reg")),
    Is("get_exception_reg", <<"x">>, Builtin("get_exception_reg")),
    Is("clear_exception_reg", <<"x">>, Builtin("clear_exception_reg")),
    Is("exit", <<>>, Builtin("exit")),
    Is("read_file_contents", <<"file">>, Builtin("read_file_contents")),
    Is("read_line", <<"file">>, Builtin("read_file_line")),
    Is("write", <<"file", "val">>, Builtin("write")) }

-----------------------------------------------------------------------------
\* mod IO
runState ==
  Is("runState", <<"s">>, Choose(V("s"), << On(Call("IO", <<V("runState")>>), V("runState")) >>))
return ==
  Is("return", <<"x">>, Call("IO", <<Lambda(<<"s">>, Pair(V("x"), V("s")))>>))

\* Mutant: the handler is given an exception that is still in the register.
catch_Lazy ==
  Is("catch", <<"x", "f">>,
     LetExpr(<< Is("result", <<"s">>,
                   Choose(Call("strict_pair", <<Call("runState", <<V("x"), V("s")>>)>>), <<
                     On(Pair(V("a"), V("s1")),
                        IfExpr(Call("had_exception", <<Unit>>),
                               Call("strict_pair", <<Call("runState",
                                 <<Call("f", <<Call("catch_exception", <<Unit>>)>>), V("s1")>>)>>),
                               Pair(V("a"), V("s1")))) >>)) >>,
             Call("IO", <<V("result")>>)))
catch ==
  Is("catch", <<"x", "f">>,
     LetExpr(<< Is("exception", <<>>, V("catch_exception")),
                Is("result", <<"s">>,
                   Choose(Call("strict_pair", <<Call("runState", <<V("x"), V("s")>>)>>), <<
                     On(Pair(V("a"), V("s1")),
                        IfExpr(Call("had_exception", <<Unit>>),
                               Call("strict_pair", <<Call("runState",
                                 <<Call("f", <<Force_(Call("exception", <<Unit>>))>>), V("s1")>>)>>),
                               Pair(V("a"), V("s1")))) >>)) >>,
             Call("IO", <<V("result")>>)))
bind ==
  Is("bind", <<"f", "x">>,
     LetExpr(<< Is("run", <<"s">>,
                   Choose(Call("strict_pair", <<Call("runState", <<V("x"), V("s")>>)>>), <<
                     On(Pair(V("a"), V("s1")),
                        IfExpr(Call("had_exception", <<Unit>>),
                               Pair(V("a"), V("s1")),
                               Call("runState", <<Call("f", <<V("a")>>), V("s1")>>))) >>)) >>,
             Call("IO", <<V("run")>>)))
map == Is("map", <<"f">>, Call("bind", <<Dot(V("return"), V("f"))>>))

\* mod monad
Monad ==
  { Is(">>=", <<"m", "f">>, Call("bind", <<V("f"), V("m")>>)),
    Is(">>", <<"a", "b">>, Call(">>=", <<V("a"), Lambda(<<"x">>, V("b"))>>)) }
And(a, b) == Call(">>", <<a, b>>)
Give(a, x, b) == Call(">>=", <<a, Lambda(<<x>>, b)>>)

-----------------------------------------------------------------------------
\* Exceptions, and the order of evaluation.
throw == Is("throw", <<>>, Dot(V("return"), Dot(V("set_exception_reg"), V("E"))))
had_exception ==
  Is("had_exception", <<"x">>, Choose(Call("get_exception_reg", <<Unit>>),
     << On(Unit, Boolean(FALSE)), On(Call("E", <<V("e")>>), Boolean(TRUE)), On(V("otherwise"), Unit) >>))
catch_exception ==
  Is("catch_exception", <<"x">>, Choose(Call("clear_exception_reg", <<Unit>>),
     << On(Call("E", <<V("e")>>), V("e")), On(V("otherwise"), Number(SOME_EXCEPTION)) >>))
try ==
  Is("try", <<"x">>, Call("catch", <<Call("map", <<V("Ok"), V("x")>>), Dot(V("return"), V("Err"))>>))
seq == Is("seq", <<"a", "b">>, Choose(Force_(V("a")), << On(Underscore, V("b")) >>))
strict_pair ==
  Is("strict_pair", <<"p">>, Choose(V("p"), << On(Pair(V("a"), V("b")),
     Choose(Force_(V("a")), << On(V("a1"),
       Choose(Force_(V("b")), << On(V("b1"), Pair(V("a1"), V("b1"))) >>)) >>)) >>))
run ==
  Is("run", <<"x">>,
     LetExpr(<< Is("print_err", <<"err">>,
                   And(Call("io.print", <<Number(EXCEPTION)>>), Call("io.println", <<V("err")>>))),
                Is("run_io", <<>>, Call("catch", <<V("x"), V("print_err")>>)) >>,
             Choose(V("x"), <<
               On(Call("IO", <<V("r")>>),
                  Call("strict_pair", <<Call("runState", <<V("run_io"), V("State")>>)>>)),
               On(V("x"), Call("seq", <<V("x"), V("exit")>>)) >>)))

\* The effect of f on the stream, then an exception if the stream has an error.
stream_errors ==
  Is("stream_errors", <<"err", "f", "file">>,
     Give(Call("f", <<V("file")>>), "x",
          IfExpr(Call("stream_err", <<V("file")>>), Call("throw", <<V("err")>>), Call("return", <<V("x")>>))))

-----------------------------------------------------------------------------
\* mod file
file_mode_as_int ==
  Is("file_mode_as_int", <<"mode">>, Choose(V("mode"),
     << On(V("Read"), Number(0)), On(V("Write"), Number(1)),
        On(V("Append"), Number(2)), On(V("ReadWrite"), Number(3)) >>))
open_file ==
  Is("file.open_file", <<"p", "mode">>,
     LetExpr(<< Is("err", <<>>, Number(OPEN_ERROR)),
                Is("file", <<>>, Call("open_file", <<V("p"), Call("file_mode_as_int", <<V("mode")>>)>>)) >>,
             Choose(V("file"), << On(Unit, Call("throw", <<V("err")>>)),
                                  On(V("f"), Call("return", <<V("f")>>)) >>)))
close_file == Is("file.close_file", <<>>, Dot(V("return"), V("close_file")))
with_file ==
  Is("with_file", <<"p", "mode", "f">>,
     Give(Call("file.open_file", <<V("p"), V("mode")>>), "file",
          Give(Call("f", <<V("file")>>), "x",
               And(Call("file.close_file", <<V("file")>>), Call("return", <<V("x")>>)))))

\* mod io
Io ==
  { Is("io.file.read_file", <<"path">>,
       Call("with_file", <<V("path"), V("Read"), V("io.read_file_contents")>>)),
    Is("io.file.write", <<"contents", "path">>,
       Call("with_file", <<V("path"), V("Write"), Call("flip", <<V("io.write"), V("contents")>>)>>)),
    Is("io.write", <<"file", "val">>,
       Call("stream_errors", <<Number(WRITE_ERROR), Dot(V("return"), Call("flip", <<V("write"), V("val")>>)),
                               V("file")>>)),
    Is("io.writeln", <<"file", "val">>,
       And(Call("io.write", <<V("file"), V("val")>>), Call("io.write", <<V("file"), Number(NEWLINE)>>))),
    Is("io.print", <<>>, Call("io.write", <<V("stdout")>>)),
    Is("io.println", <<>>, Call("io.writeln", <<V("stdout")>>)),
    Is("io.read_file_contents", <<>>,
       Call("stream_errors", <<Number(CONTENTS_ERROR), Dot(V("return"), V("read_file_contents"))>>)),
    Is("io.read_line", <<>>,
       Call("stream_errors", <<Number(LINE_ERROR), Dot(V("return"), V("read_line"))>>)) }

Constructors ==
  { Is("IO", <<"runState">>, Constructor), Is("State", <<>>, Constructor), Is("E", <<"e">>, Constructor),
    Is("Read", <<>>, Constructor), Is("Write", <<>>, Constructor), Is("Append", <<>>, Constructor),
    Is("ReadWrite", <<>>, Constructor) }

Library ==
  Functions \cup Builtins \cup Monad \cup Io \cup Constructors
    \cup { runState, return, catch, bind, map, throw, had_exception, catch_exception, try, seq,
           strict_pair, run, stream_errors, file_mode_as_int, open_file, close_file, with_file }
=============================================================================
