------------------------------- MODULE Paths -------------------------------
(***************************************************************************)
(* Names and paths: codegen/global_resolution.c on the table that Modules  *)
(* builds, and the following of aliases of constructors by                 *)
(* clear_remapping_queue of codegen/top_level.c.                           *)
(*                                                                         *)
(* A path is a nonempty sequence of names; its last name is the identifier *)
(* a NAMESPACE_ACCESS ends in.  resolve_path answers                       *)
(*   [error |-> "ok", module |-> m] or [error |-> e, module |-> NoModule], *)
(* where e is an error of GlobalResolutionError or "panic".                *)
(***************************************************************************)
EXTENDS Modules

CONSTANT PATH_RESOLUTION_RECURSION_LIMIT
ASSUME LimitAssumption == PATH_RESOLUTION_RECURSION_LIMIT \in Nat \ {0}

Found(module) == [error |-> "ok", module |-> module]
Error(error) == [error |-> error, module |-> NoModule]

-----------------------------------------------------------------------------
\* The item of a module for one of its submodules; at most one has the name.
Submodules(module, ident) ==
  { i \in DOMAIN get_module(module).items :
      get_module(module).items[i].is_submodule /\ get_module(module).items[i].name = ident }
find_submodule_in(module, ident, search_private) ==
  LET found == Submodules(module, ident)
  IN CASE found = {} -> "doesnt_exist"
       [] found # {} /\ ~search_private
            /\ ~get_module(module).items[Min(found)].is_public -> "private"
       [] OTHER -> "ok"

find_library(ident) == { i \in DOMAIN libraries : libraries[i].name = ident }

\* Whether private items are visible after a submodule was entered.
\* Mutant: as before.
in_root_after_Kept(in_root) == in_root
in_root_after(in_root) == FALSE

\* One more level of aliases.
TooDeep(depth) == depth >= PATH_RESOLUTION_RECURSION_LIMIT

\* Where an alias is resolved from.
\* Mutant: from the module that uses it.
AliasOrigin_User(user, module) == user
AliasOrigin(user, module) == module

\* The module a submodule item leads to; aliased holds what the paths of aliases
\* lead to, from each module.
item_module(origin, module, ident, aliased) ==
  LET item == get_module(module).items[Min(Submodules(module, ident))]
  IN IF item.path # <<>> THEN aliased[AliasOrigin(origin, module)][item.path]
     ELSE Found(item.index)

\* The module a name leads to: a submodule that may be used, or else a library.
found_module(origin, module, ident, in_root, aliased) ==
  LET result == find_submodule_in(module, ident, in_root)
  IN CASE result = "ok" -> item_module(origin, module, ident, aliased)
       [] result # "ok" /\ find_library(ident) # {} ->
            Found(libraries[Min(find_library(ident))].module)
       [] OTHER -> Error(result)

\* The iterations of the loop: where it is after each name of the path but the last.
entered(inner) == IF inner = Found(NoModule) THEN Error("panic") ELSE inner
outside(parent) == IF parent = NoModule THEN Error("root_super") ELSE Found(parent)
next_module(origin, here, ident, aliased) ==
  CASE here.answer.error # "ok" -> here
    [] here.answer.error = "ok" /\ ident = "super" ->
         [here EXCEPT !.answer = outside(get_module(here.answer.module).parent)]
    [] OTHER ->
         [answer |-> entered(found_module(origin, here.answer.module, ident, here.in_root, aliased)),
          in_root |-> in_root_after(here.in_root)]
reached(origin, path, aliased) ==
  LET after[n \in 0..(Len(path) - 1)] ==
        IF n = 0 THEN [answer |-> Found(origin), in_root |-> TRUE]
        ELSE next_module(origin, after[n - 1], path[n], aliased)
  IN after

\* What the last name adds: nothing, unless it is one of a module.
last_module(origin, here, ident, is_module, aliased) ==
  CASE here.answer.error # "ok" \/ ~is_module -> here.answer
    [] here.answer.error = "ok" /\ is_module /\ ident = "super" ->
         Found(get_module(here.answer.module).parent)
    [] OTHER -> found_module(origin, here.answer.module, ident, here.in_root, aliased)
walk_path(origin, path, is_module, aliased) ==
  last_module(origin, reached(origin, path, aliased)[Len(path) - 1], path[Len(path)], is_module, aliased)

resolve_path(origin, path, is_module, depth, aliased) ==
  IF TooDeep(depth) THEN Error("recursion_limit")
  ELSE walk_path(origin, path, is_module, aliased)

\* The calls for the paths of aliases, by their depth.
resolve_alias[depth \in 0..PATH_RESOLUTION_RECURSION_LIMIT] ==
  [origin \in Nat |-> [path \in Seq(Names) |->
     resolve_path(origin, path, TRUE, depth, resolve_alias[depth + 1])]]

get_module_index_for(origin, path) == resolve_path(origin, path, FALSE, 0, resolve_alias[1])

-----------------------------------------------------------------------------
(***************************************************************************)
(* Globals.  An answer about a global also holds the module it is in.      *)
(***************************************************************************)
Named(module, ident) ==
  { i \in DOMAIN globals[module + 1] : globals[module + 1][i].name = ident }
find_global_in(module, ident, search_private) ==
  CASE Named(module, ident) = {} -> Error("doesnt_exist")
    [] Named(module, ident) # {} /\ ~search_private
         /\ ~globals[module + 1][Min(Named(module, ident))].is_public -> Error("private")
    [] OTHER -> Found(module)

search_private(origin, module) ==
  module = origin \/ module = get_module(origin).parent

global_at(origin, result, ident) ==
  IF result.error # "ok" THEN result
  ELSE find_global_in(result.module, ident, search_private(origin, result.module))
resolve_global_path(origin, path) ==
  global_at(origin, get_module_index_for(origin, path), path[Len(path)])
resolve_global(module, ident) == find_global_in(module, ident, TRUE)

\* try_remap_from_globals: an identifier, or a path.
resolve_reference(origin, path) ==
  IF Len(path) = 1 THEN resolve_global(origin, path[1]) ELSE resolve_global_path(origin, path)

\* Does not ask whether the global is public.
find_global_decl(origin, path) ==
  LET result == get_module_index_for(origin, path)
  IN IF result.error # "ok" THEN result ELSE find_global_in(result.module, path[Len(path)], TRUE)
=============================================================================
