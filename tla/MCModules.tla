----------------------------- MODULE MCModules -----------------------------
(***************************************************************************)
(* Small programs for the resolution of modules, paths and references, and *)
(* its properties.                                                         *)
(***************************************************************************)
EXTENDS Places

-----------------------------------------------------------------------------
\* Declarations and nodes.
Value(n) == [name |-> n, kind |-> "value", path |-> <<>>]
Constructor(n) == [name |-> n, kind |-> "constructor", path |-> <<>>]
Same(n, path) == [name |-> n, kind |-> "constructor alias", path |-> path]
Use(path, kind, n) == [name |-> n, kind |-> kind, path |-> path]

NodeOf(kind, n, path, decls, uses, subs) ==
  [kind |-> kind, name |-> n, path |-> path, declarations |-> decls, uses |-> uses,
   submodules |-> subs, is_type |-> FALSE]
Top(decls, uses, subs) == NodeOf("top", "", <<>>, decls, uses, subs)
Self(decls, uses, subs) == NodeOf("self", "", <<>>, decls, uses, subs)
Body(n, decls, subs) == NodeOf("body", n, <<>>, decls, <<>>, subs)
Importing(n, uses) == NodeOf("body", n, <<>>, <<>>, uses, <<>>)
TypeOf(n, constructor) ==
  [Body(n, <<Constructor(constructor)>>, <<>>) EXCEPT !.is_type = TRUE]
Alias(n, path) == NodeOf("alias", n, path, <<>>, <<>>, <<>>)
FileNode(n) == NodeOf("file", n, <<>>, <<>>, <<>>, <<>>)

\* A library with a public and a private module, as std has io and _io.
Std == Top(<<Value("x")>>, <<>>,
           << Self(<<Value("run")>>, <<>>, <<Body("a", <<Value("x")>>, <<>>)>>),
              Body("b", <<Value("x")>>, <<>>) >>)

Program(sources, main) == [main |-> main, files |-> sources, std |-> Std]
Alone(top) == Program(<<"m">> :> top, <<"m">>)

-----------------------------------------------------------------------------
\* Two modules, a and b, with at most one module inside each; what they are
\* aliases of may be the module itself, the other one, or above the root.
AliasPaths == { <<"a">>, <<"b">>, <<"a", "b">>, <<"super", "b">>, <<"super">>, <<"std", "a">> }
Inner(n) == { Body(n, <<Value("x")>>, <<>>) } \cup { Alias(n, p) : p \in AliasPaths }
Outer(n) ==
  { Body(n, <<Value("x")>>, subs) : subs \in {<<>>} \cup { <<i>> : i \in Inner("a") \cup Inner("b") } }
    \cup { Alias(n, p) : p \in AliasPaths }
    \cup { FileNode(n) }
InnerFile == Top(<<Value("x")>>, <<>>, << Self(<<Value("y")>>, <<>>, <<Body("a", <<>>, <<>>)>>),
                                          Body("b", <<Value("x")>>, <<>>) >>)
Nested ==
  { Program(<<"m">> :> Top(<<Value("x")>>, <<>>, <<m1, m2>>)
              @@ <<"a">> :> InnerFile @@ <<"b", "/", "mod">> :> InnerFile, <<"m">>) :
      m1 \in Outer("a"), m2 \in Outer("b") }

\* Three levels: a declares b, b declares c, and each looks at the others.
Deep ==
  { Alone(Top(<<Value("x")>>, <<>>,
      << Body("a", <<Value("x")>>,
           << Body("b", <<>>, << Body("a", <<Value("x")>>, <<>>), Alias("b", p) >>) >>),
         Alias("b", q) >>)) : p \in AliasPaths, q \in AliasPaths }

\* Files in files, beside each other and in directories; a file that is missing.
Files ==
  { Program(<<"m">> :> Top(<<Value("x")>>, <<>>, <<FileNode("a"), FileNode("b")>>)
              @@ <<"a">> :> Top(<<Value("x")>>, <<>>, <<FileNode("b"), Self(<<Value("y")>>, <<>>, <<>>)>>)
              @@ place :> Top(<<Value("x")>>, <<>>, <<>>), <<"m">>) :
      place \in { <<"b">>, <<"b", "/", "mod">>, <<"c">> } }

\* Imports: of values, constructors and modules, at the top level, in the self
\* module and in a body, each from the others.
Imports ==
  { Alone(Top(<<Value("z")>>, <<Use(p, k, "x")>>,
      << Importing("a", <<Use(q, "fun", "x"), Use(q, "mod", "a")>>),
         Body("b", <<Value("x"), Value("y")>>, << Body("a", <<Value("x")>>, <<>>) >>),
         Self(<<>>, <<Use(<<"b">>, "fun", "y"), Use(<<"std">>, "mod", "a")>>, <<>>) >>)) :
      p \in { <<"b">>, <<"b", "a">>, <<"std", "a">> },
      q \in { <<"super", "b">>, <<"super">>, <<"std">> }, k \in {"fun", "with"} }

\* Constructors: of a type, and aliases of aliases of them; one that is misplaced.
Constructors ==
  { Alone(Top(<<Same("x", <<"a", "x">>)>>, <<>>,
      << TypeOf("b", "x"), Body("a", <<Same("x", p), Constructor("y")>>, <<>>) >>)) :
      p \in { <<"super", "b", "x">>, <<"b", "x">>, <<"super", "std", "x">> } }
    \cup { Alone(Top(<<>>, <<Use(<<"b">>, "with", "x")>>, <<TypeOf("b", "x")>>)) }
    \cup { Alone(Top(<<Same("x", <<"a", "x">>)>>, <<>>,
             << TypeOf("b", "y"), Body("a", <<Same("x", p)>>, <<>>) >>)) :
             p \in { <<"super", "b", "y">>, <<"super", "x">>, <<"super", "b", "x">> } }

\* More aliases of each other than resolve_path follows.
Chain(n) ==
  Alone(Top(<<>>, <<>>,
    <<Body("a", <<Value("x")>>, <<>>)>>
      \o [i \in 1..n |-> Alias(ToString(i), IF i = 1 THEN <<"a">> ELSE <<ToString(i - 1)>>)]))
Chains == { Chain(PATH_RESOLUTION_RECURSION_LIMIT + 1) }

\* What resolve_ast refuses, or does not notice: a module with the name of
\* another, or of a declaration; and a name that is declared twice.
Refusals ==
  { Alone(Top(<<Value("x"), Value("x")>>, <<>>, <<Self(<<Value("x")>>, <<>>, <<>>)>>)) } \cup
  { Alone(Top(<<>>, <<>>, << Body("a", <<Value("x")>>, subs), Self(<<Value("b")>>, <<>>, subs2) >>)) :
      subs \in { <<FileNode("b")>>, <<Self(<<>>, <<>>, <<>>)>>, <<Body("b", <<>>, <<>>), Alias("b", <<"a">>)>>,
                 <<Body("b", <<>>, <<>>), Body("b", <<>>, <<>>)>>, <<Body("x", <<>>, <<>>)>>, <<>> },
      subs2 \in { <<>>, <<Alias("a", <<"b">>)>>, <<Body("b", <<>>, <<>>)>> } }

ProgramSet == Nested \cup Deep \cup Files \cup Imports \cup Constructors \cup Chains \cup Refusals
\* A program in a directory, and a module whose file is the mod file of one.
Directories ==
  { Program(<<"d", "/", "m">> :> Top(<<Value("x")>>, <<>>, <<FileNode("a")>>)
              @@ <<"d", "/", "a">> :> Top(<<Value("x")>>, <<>>, <<>>), <<"d", "/", "m">>),
    Program(<<"m">> :> Top(<<Value("x")>>, <<>>, <<FileNode("a")>>)
              @@ <<"a", "/", "mod">> :> Top(<<Value("x")>>, <<>>, <<FileNode("b")>>)
              @@ <<"a", "/", "b">> :> Top(<<Value("x")>>, <<>>, <<>>), <<"m">>) }
MCDirectories == Directories

MCNames == {"", "main", "mod", "run", "d", "m", "a", "b", "c", "x", "y", "z", "super", "std"} 
             \cup { ToString(i) : i \in 1..(PATH_RESOLUTION_RECURSION_LIMIT + 1) }

MCPrograms == ProgramSet

\* The nodes of the programs, level by level: no program is deeper.
Below(nodes) == UNION { ToSet(reduced_submodules(node)) : node \in nodes }
Sources == {Std} \cup UNION { { p.files[path] : path \in DOMAIN p.files } : p \in ProgramSet \cup Directories }
Second == Below(Sources)
Third == Below(Second)
NodeSet == Sources \cup Second \cup Third \cup Below(Third)
MCNodes == NodeSet

-----------------------------------------------------------------------------
MCQueries ==
  LET segments == {"a", "b", "super", "std"}
  IN { Append(p, "x") : p \in [1..1 -> segments] \cup [1..2 -> segments] \cup [1..3 -> segments] }
       \cup { <<ToString(n), "x">> : n \in (PATH_RESOLUTION_RECURSION_LIMIT - 1)..(PATH_RESOLUTION_RECURSION_LIMIT + 1) }

\* Every program whose files do not declare each other in a circle is resolved
\* or refused.
ResolutionEnds == <>(phase \in {"resolved", "failed", "fault"})

\* file_compilation.c, of the file of a module: "either path/module.extension or
\* path/module/mod.extension", path being the directory of the file that declares
\* the module.  A module is not found only when neither exists.
Directory(path) == IF Slashes(path) = {} THEN <<>> ELSE SubSeq(path, 1, Max(Slashes(path)))
FilesBeside ==
  phase = "failed" /\ message = "no file" /\ worklist # <<>> =>
    LET place == Directory(files[get_module(Popped.parent).file + 1].path) \o <<Popped.node.name>>
    IN DOMAIN program.files \cap {place, place \o <<"/", "mod">>} = {}

\* A reference that stands for a constructor is compiled.
Stands(r) ==
  LET behind == Behind(program, Known(program, PATH_RESOLUTION_RECURSION_LIMIT - 1))
  IN behind[FollowLimit][PlaceOf(modules, r.module)][r.path].error = "ok"
ReferencesEnd ==
  (reference.state = "queued" /\ errors = <<>> /\ Stands(reference)) ~> reference.state = "compiled"
=============================================================================
