------------------------------ MODULE Privacy ------------------------------
(***************************************************************************)
(* Who may use a private module.                                           *)
(***************************************************************************)
EXTENDS References

CONSTANT Queries   \* the paths that are asked for
ASSUME QueriesAssumption == Queries \subseteq Seq(Names) \ {<<>>}

\* A module and those it is in: the table holds each of them behind its parent.
ancestors(m) ==
  LET up[n \in 0..m] ==
        IF n = 0 THEN m
        ELSE IF up[n - 1] = NoModule THEN NoModule ELSE get_module(up[n - 1]).parent
  IN up
Above(m) == { ancestors(m)[n] : n \in 0..m } \ {NoModule}

\* A module that one of the items of its parent declares, and not as public.
IsPrivate(m) ==
  /\ get_module(m).parent # NoModule
  /\ \E i \in DOMAIN get_module(get_module(m).parent).items :
       LET item == get_module(get_module(m).parent).items[i]
       IN item.is_submodule /\ item.index = m /\ ~item.is_public

\* The modules that declare an alias of a module, and those that can be looked at
\* from a module: all that is around it, or around an alias.
Aliasing ==
  { m \in 0..(Count - 1) :
      \E i \in DOMAIN get_module(m).items : get_module(m).items[i].path # <<>> }
LooksInto(m) == UNION { Above(o) : o \in {m} \cup Aliasing }

\* A path leads to a module of the table; and however many names and aliases are
\* between them, each private module on the way down to it is declared by a module
\* the path starts in, or in which an alias is declared.
PrivacyKept ==
  phase = "resolved" /\ reference = NoReference /\ Distinct /\ Count <= NoModule =>
    \A m \in 0..(Count - 1) :
      LET looksInto == LooksInto(m)
      IN \A path \in Queries :
           LET answer == resolve_global_path(m, path)
           IN answer.error = "ok" =>
                /\ answer.module \in 0..(Count - 1)
                /\ \A module \in Above(answer.module) :
                     IsPrivate(module) => get_module(module).parent \in looksInto
=============================================================================
