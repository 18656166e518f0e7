------------------------------- MODULE Places -------------------------------
(***************************************************************************)
(* What the paths of a program mean, read off its declarations without a   *)
(* table: the reference that the resolution of paths is compared with.     *)
(*                                                                         *)
(* A place is the sequence of names from a root ("main" or a library) to a *)
(* module.  The declarations of a file are private to it unless they stand *)
(* in its self module; what a module with a body declares is public.  What *)
(* aliases mean is the least solution of the equations they state,         *)
(* computed in rounds: what a round knows, the next one uses.              *)
(*                                                                         *)
(* prog is a program; a site is what is at a place: a node, and the path   *)
(* of the file it is in.                                                   *)
(***************************************************************************)
EXTENDS Privacy, SequencesExt

CONSTANT FollowLimit   \* of references that lead from one to the next; the code has none
ASSUME FollowLimitAssumption == FollowLimit \in Nat

Selves(node) == { self \in ToSet(node.submodules) : node.kind = "top" /\ self.kind = "self" }
\* The modules and the globals declared in a node, imports included.
AliasNode(use) ==
  [kind |-> "alias", name |-> use.name, path |-> Append(use.path, use.name),
   declarations |-> <<>>, uses |-> <<>>, submodules |-> <<>>, is_type |-> FALSE]
DeclaredNodes(node) ==
  (ToSet(node.submodules) \ Selves(node))
    \cup { AliasNode(use) : use \in { u \in ToSet(node.uses) : u.kind = "mod" } }
DeclaredGlobals(node) ==
  { [name |-> d.name, path |-> d.path, kind |-> d.kind] : d \in ToSet(node.declarations) }
    \cup { [name |-> u.name, path |-> Append(u.path, u.name),
            kind |-> IF u.kind = "with" THEN "constructor alias" ELSE "path"] :
             u \in { u \in ToSet(node.uses) : u.kind # "mod" } }

\* What is public in a module, and what is not.
PublicNodes(node) ==
  IF node.kind = "top" THEN UNION { DeclaredNodes(self) : self \in Selves(node) } ELSE DeclaredNodes(node)
PrivateNodes(node) == IF node.kind = "top" THEN DeclaredNodes(node) ELSE {}
ModulesOf(node) ==
  { [node |-> sub, public |-> TRUE] : sub \in PublicNodes(node) }
    \cup { [node |-> sub, public |-> FALSE] : sub \in PrivateNodes(node) }

PublicDecls(node) ==
  IF node.kind = "top" THEN UNION { DeclaredGlobals(self) : self \in Selves(node) } ELSE DeclaredGlobals(node)
PrivateDecls(node) == IF node.kind = "top" THEN DeclaredGlobals(node) ELSE {}
GlobalsOf(node) ==
  { [global |-> g, public |-> TRUE] : g \in PublicDecls(node) }
    \cup { [global |-> g, public |-> FALSE] : g \in PrivateDecls(node) }

-----------------------------------------------------------------------------
\* What is at a place.
Site(node, file) == [node |-> node, file |-> file]
FileAt(prog, path) == Site(prog.files[path], path)
Root(prog, name) ==
  IF name = "std" THEN Site(prog.std, <<"std">>)
  ELSE FileAt(prog, open_file_module(prog, <<>>, prog.main))
Opened(prog, node, file) ==
  IF node.kind = "file" THEN FileAt(prog, open_file_module(prog, file, <<node.name>>))
  ELSE Site(node, file)
NamedIn(site, name) == { d \in ModulesOf(site.node) : d.node.name = name }
Inside(prog, site, name) == Opened(prog, (CHOOSE d \in NamedIn(site, name) : TRUE).node, site.file)

SiteAt(prog, place) ==
  LET site[n \in 1..Len(place)] ==
        IF n = 1 THEN Root(prog, place[n]) ELSE Inside(prog, site[n - 1], place[n])
  IN site[Len(place)]

\* Where module m of a table is.  A module made for an alias is at the place of the
\* alias.
PlaceOf(mods, m) ==
  LET place[k \in 0..(Len(mods) - 1)] ==
        IF mods[k + 1].parent = NoModule THEN <<mods[k + 1].name>>
        ELSE Append(place[mods[k + 1].parent], mods[k + 1].name)
  IN place[m]

-----------------------------------------------------------------------------
\* An answer is a place or an error; going up from a root leads nowhere.
Nowhere == <<>>
To(place) == [error |-> "ok", place |-> place]
No(error) == [error |-> error, place |-> Nowhere]

\* What a name means in a place, when what is private may be used or not, and
\* known tells what the paths of aliases mean.
Enter(prog, known, place, name, mayUsePrivate) ==
  LET declared == NamedIn(SiteAt(prog, place), name)
      visible == { d \in declared : d.public \/ mayUsePrivate }
      path == (CHOOSE d \in visible : TRUE).node.path
  IN CASE visible # {} /\ path # <<>> -> known[place][path]
       [] visible # {} /\ path = <<>> -> To(Append(place, name))
       [] visible = {} /\ name = "std" -> To(<<"std">>)
       [] visible = {} /\ name # "std" /\ declared # {} -> No("private")
       [] OTHER -> No("doesnt_exist")

\* What the names of a path mean, up to any of them.  A name may be private only when
\* all the names before it are super.  A path that goes up from a root is an error;
\* an alias whose path ends there means Nowhere, and cannot be used.
Supers(path, n) == \A j \in 1..n : path[j] = "super"
Onwards(prog, known, path, i, from) ==
  CASE from.error # "ok" -> from
    [] from = To(Nowhere) -> No("panic")
    [] from.error = "ok" /\ Len(from.place) > 1 /\ path[i] = "super" -> To(Front(from.place))
    [] from.error = "ok" /\ Len(from.place) = 1 /\ path[i] = "super" /\ i < Len(path) -> No("root_super")
    [] from.error = "ok" /\ Len(from.place) = 1 /\ path[i] = "super" /\ i = Len(path) -> To(Nowhere)
    [] OTHER -> Enter(prog, known, from.place, path[i], Supers(path, i - 1))
Along(prog, known, origin, path) ==
  LET f[i \in 0..Len(path)] ==
        IF i = 0 THEN To(origin) ELSE Onwards(prog, known, path, i, f[i - 1])
  IN f

\* What the paths of aliases mean after a number of rounds.
Known(prog, rounds) ==
  LET f[k \in 0..rounds] ==
        [place \in Seq(Names) |-> [path \in Seq(Names) |->
           IF k = 0 THEN No("recursion_limit") ELSE Along(prog, f[k - 1], place, path)[Len(path)]]]
  IN f[rounds]

\* The global a path names: the place of its module, or an error.  What is
\* private to a module is for the module and those directly below it.
TheGlobal(prog, origin, to, name) ==
  LET named == { g \in GlobalsOf(SiteAt(prog, to.place).node) : g.global.name = name }
  IN CASE to.error # "ok" -> to
       [] to = To(Nowhere) -> No("panic")
       [] OTHER ->
            CASE named = {} -> No("doesnt_exist")
              [] named # {} /\ (\A g \in named : ~g.public) /\ to.place # origin
                   /\ to.place # Front(origin) -> No("private")
              [] OTHER -> to
Meant(prog, known, origin, path) ==
  TheGlobal(prog, origin, Along(prog, known, origin, path)[Len(path) - 1], Last(path))

-----------------------------------------------------------------------------
\* What the code answers and what the declarations mean agree.
Agree(mods, answer, meant) ==
  IF meant.error = "ok" THEN answer.error = "ok" /\ PlaceOf(mods, answer.module) = meant.place
  ELSE answer.error = meant.error

\* resolve_global_path answers, for every module and path, what the
\* declarations of the program say the path means: the same module, or the
\* same error.
PathsAgree ==
  phase = "resolved" /\ errors = <<>> /\ reference = NoReference /\ Distinct /\ Count <= NoModule =>
    LET known == Known(program, PATH_RESOLUTION_RECURSION_LIMIT - 1)
    IN \A m \in 0..(Count - 1) :
         LET place == PlaceOf(modules, m)
         IN \A path \in Queries :
              Agree(modules, resolve_global_path(m, path), Meant(program, known, place, path))

-----------------------------------------------------------------------------
\* The global of a name at a place.
GlobalAt(prog, place, name) ==
  (CHOOSE g \in GlobalsOf(SiteAt(prog, place).node) : g.global.name = name).global

\* What becomes of a reference taken off the worklist, by the declarations alone.
Follows ==
  reference.state = "queued" /\ errors = <<>> /\ Distinct /\ Count <= NoModule =>
    LET meant == Meant(program, Known(program, PATH_RESOLUTION_RECURSION_LIMIT - 1),
                       PlaceOf(modules, reference.module), reference.path)
        declared == GlobalAt(program, meant.place, Last(reference.path))
    IN /\ meant.error # "ok" => reference'.state = "error"
       /\ meant.error = "ok" => PlaceOf(modules, reference'.module) = meant.place
       /\ meant.error = "ok" /\ declared.kind = "constructor alias" =>
            reference'.state = "queued" /\ reference'.path = declared.path
       /\ meant.error = "ok" /\ declared.kind # "constructor alias" =>
            reference'.state = "compiled" /\ reference'.path = <<declared.name>>

\* An iteration of clear_remapping_queue follows the declarations: a reference that
\* means nothing is refused, one to an alias of a constructor becomes the alias's own
\* path, read where the alias is declared, and any other is compiled there.
FollowsDeclarations == [][Follows]_rvars

\* The constructor a reference stands for: what it means or, when that is an alias, what
\* the alias stands for, of which before tells.
Through(prog, known, before, place, path) ==
  LET meant == Meant(prog, known, place, path)
      global == GlobalAt(prog, meant.place, Last(path))
  IN CASE meant.error # "ok" -> meant
       [] meant.error = "ok" /\ global.kind # "constructor alias" -> To(Append(meant.place, global.name))
       [] OTHER -> before[meant.place][global.path]
\* The same by the number of references that are looked at.
Behind(prog, known) ==
  LET f[k \in 0..FollowLimit] ==
        [place \in Seq(Names) |-> [path \in Seq(Names) |->
           IF k = 0 THEN No("circle") ELSE Through(prog, known, f[k - 1], place, path)]]
  IN f

\* Following an alias of a constructor never changes what a reference stands for,
\* however many aliases lie before it, and what is compiled in the end is that
\* declaration.
Follow ==
  reference.state = "queued" /\ errors = <<>> /\ Distinct /\ Count <= NoModule =>
    LET behind == Behind(program, Known(program, PATH_RESOLUTION_RECURSION_LIMIT - 1))
        place == PlaceOf(modules, reference.module)
    IN \A k \in 1..FollowLimit :
         LET stands == behind[k][place][reference.path]
         IN /\ reference'.state = "error" => stands.error # "ok"
            /\ reference'.state = "compiled" =>
                 stands = To(Append(PlaceOf(modules, reference'.module), reference'.path[1]))
            /\ reference'.state = "queued" =>
                 behind[k - 1][PlaceOf(modules, reference'.module)][reference'.path] = stands
FollowKeepsMeaning == [][Follow]_rvars
=============================================================================
