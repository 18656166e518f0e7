----------------------------- MODULE References -----------------------------
(***************************************************************************)
(* References to constructors: clear_remapping_queue of                    *)
(* codegen/top_level.c takes a reference from the queue and, when it names *)
(* an alias of a constructor (with C = path, or use path { with C }), puts *)
(* the same reference back as one to what the alias stands for, seen from  *)
(* the module that declares the alias.                                     *)
(***************************************************************************)
EXTENDS Paths

\* What follows the = of an alias is at least an identifier.
ASSUME AliasesAssumption ==
  \A node \in Nodes : \A i \in DOMAIN node.declarations :
     node.declarations[i].kind = "constructor alias" => node.declarations[i].path # <<>>

VARIABLE
  reference   \* [state, module, path]; state: "none", "queued", "compiled", "error"

rvars == <<vars, reference>>

NoReference == [state |-> "none", module |-> 0, path |-> <<>>]
RInit == Init /\ reference = NoReference

\* Code of module m mentions one of the globals of the module.
Refer ==
  /\ phase = "resolved" /\ reference = NoReference
  /\ \E m \in 0..(Count - 1) : \E i \in DOMAIN globals[m + 1] :
       reference' = [state |-> "queued", module |-> m, path |-> <<globals[m + 1][i].name>>]
  /\ UNCHANGED vars

\* remapping.searching_from_module = module_index
\* Mutant: the search goes on from the module of the reference.
searching_from_Same(module) == reference.module
searching_from(module) == module

\* One iteration of clear_remapping_queue.
Dequeue ==
  /\ reference.state = "queued"
  /\ LET result == resolve_reference(reference.module, reference.path)
     IN IF result.error # "ok"
        THEN reference' = [reference EXCEPT !.state = "error"]
        ELSE LET found == find_global_decl(reference.module, reference.path).module
                 decl == globals[found + 1][Min(Named(found, reference.path[Len(reference.path)]))]
             IN reference' = IF decl.kind = "constructor alias"
                             THEN [reference EXCEPT !.module = searching_from(found),
                                                    !.path = decl.path]
                             ELSE [state |-> "compiled", module |-> found, path |-> <<decl.name>>]
  /\ UNCHANGED vars

RNext == (Next /\ UNCHANGED reference) \/ Refer \/ Dequeue

RSpec == RInit /\ [][RNext]_rvars /\ WF_rvars(RNext)
=============================================================================
